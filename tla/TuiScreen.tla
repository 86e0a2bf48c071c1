------------------------------ MODULE TuiScreen ------------------------------
(***************************************************************************)
(* The terminal's task list and its one connection to the daemon           *)
(* (crates/tui/src/app, crates/tui/src/ipc.rs).  `App::update` takes a     *)
(* message and returns requests, so each handler below takes the app and   *)
(* gives [ui, out]: the app after it, and the requests it makes.           *)
(*                                                                         *)
(* `board` is what the daemon's cache holds; other clients and the phone   *)
(* change it too.  A connection answers its requests one at a time and in  *)
(* order, with the events of changes in between.                           *)
(***************************************************************************)
EXTENDS Naturals, Sequences, FiniteSets

CONSTANTS FirstCards,    \* each task's [list, done, held] at the start
          Matching,      \* the tasks the filter typed finds
          MaxKeys,       \* keys the user presses
          MaxNews,       \* changes others make to the board
          MaxTroubles    \* connections broken and requests failed

VARIABLES board, ui, outgoing, working, arrived, linkUp, drawn, spent

screenVars == <<board, ui, outgoing, working, arrived, linkUp, drawn, spent>>

Cards == DOMAIN FirstCards
ListScopes == {"inbox", "work"}
Views == {"all"}
Scopes == ListScopes \cup Views
NoScope == "no scope"
NoWork == [tag |-> "idle"]

Min2(a, b) == IF a < b THEN a ELSE b
IdsOf(rows) == {rows[i].id : i \in DOMAIN rows}
IndexOf(rows, id) == CHOOSE i \in DOMAIN rows : rows[i].id = id
Without(rows, id) == SelectSeq(rows, LAMBDA row : row.id # id)

-----------------------------------------------------------------------------
(* What the daemon answers (crates/daemon/src/seed.rs).                    *)

Row(b, t) == [id |-> t, list |-> b.card[t].list, done |-> b.card[t].done, held |-> b.card[t].held]

Hidden(row) == row.held /\ ~row.done

CoveredLists(b) == IF b.ctx THEN {"work"} \cap b.lists ELSE b.lists

\* The list the daemon opens when none is named.
Home(b) == IF ~b.ctx THEN "inbox" ELSE IF CoveredLists(b) = {} THEN "all" ELSE "work"

InScope(b, scope, row) ==
  IF scope \in Views THEN ~row.done /\ row.list \in CoveredLists(b) ELSE row.list = scope

SeedRows(b, scope, ask) ==
  SelectSeq([t \in Cards |-> Row(b, t)],
            LAMBDA row : /\ row.list \in ListScopes
                         /\ InScope(b, scope, row)
                         /\ ask.filter => row.id \in Matching
                         /\ (Hidden(row) => ask.deferred \/ ask.filter))

SeedOf(b, ask) ==
  LET scope == IF ask.scope = NoScope THEN Home(b) ELSE ask.scope
      answer(s, rows) == [kind |-> "seed", scope |-> s, rows |-> rows,
                          lists |-> CoveredLists(b), ctx |-> b.ctx, ready |-> b.ready]
  IN  CASE ~b.ready -> answer(IF ask.scope \in Views THEN ask.scope ELSE NoScope, <<>>)
        [] b.ready /\ scope \in ListScopes \ b.lists -> [kind |-> "not_found"]
        [] OTHER -> answer(scope, SeedRows(b, scope, ask))

-----------------------------------------------------------------------------
(* Rows and their order (crates/tui/src/app/scope.rs).                     *)

Belongs(u, scope, row) ==
  /\ IF scope \in Views THEN ~row.done ELSE row.list = scope
  /\ Hidden(row) => u.deferred \/ u.filter

Ordered(scope, filtered, rows) ==
  IF filtered \/ scope \notin ListScopes THEN rows
  ELSE SelectSeq(rows, LAMBDA row : ~row.done) \o SelectSeq(rows, LAMBDA row : row.done)

Loading(u) == u.wanted # NoScope /\ u.shown # u.wanted

\* The task under the cursor, as a set of at most one row.
Selected(u) == IF Loading(u) \/ u.at > Len(u.rows) THEN {} ELSE {u.rows[u.at]}

\* What a key acts on: the selection, else the task under the cursor.
Targets(u) ==
  IF Loading(u) THEN {}
  ELSE IF u.picked = {} THEN Selected(u)
  ELSE {u.rows[i] : i \in {j \in DOMAIN u.rows : u.rows[j].id \in u.picked}}

PruneSelection(u) == [u EXCEPT !.picked = @ \cap IdsOf(u.rows)]

Clamp(u, i) == [u EXCEPT !.at = Min2(i, IF u.rows = <<>> THEN 1 ELSE Len(u.rows))]

-----------------------------------------------------------------------------
(* Seeds (crates/tui/src/app/answers.rs).                                  *)

Does(u, out) == [ui |-> u, out |-> out]

SeedAsk(u) == [scope |-> u.wanted, filter |-> u.filter, deferred |-> u.deferred]

SeedNow(u) ==
  Does([u EXCEPT !.latest = @ + 1, !.flying = TRUE, !.again = FALSE],
       <<[tag |-> "seed", n |-> u.latest + 1, ask |-> SeedAsk(u)]>>)

Reseed(u) == IF u.flying THEN Does([u EXCEPT !.again = TRUE], <<>>) ELSE SeedNow(u)

PrefetchViews(u) ==
  IF u.cache["all"] # {} THEN <<>>
  ELSE <<[tag |-> "prefetch", ask |-> [scope |-> "all", filter |-> FALSE, deferred |-> u.deferred]]>>

\* Each scope's rows as last read, as a set of at most one sequence of rows.
ClearedCache == [s \in Scopes |-> {}]

NothingShown(u) == [u EXCEPT !.shown = NoScope, !.rows = <<>>, !.picked = {}, !.at = 1]

LeftContext(u) ==
  IF u.wanted \in ListScopes \ u.lists THEN [u EXCEPT !.wanted = NoScope, !.again = TRUE] ELSE u

KeepCursor(u, rows, keep) ==
  IF keep \cap IdsOf(rows) = {} THEN u.at ELSE IndexOf(rows, CHOOSE t \in keep : TRUE)

ApplySeed(u, seed) ==
  LET switched == u.ctx # seed.ctx \/ (seed.ctx /\ u.lists # seed.lists)
      taken == [u EXCEPT !.lists = seed.lists, !.ctx = seed.ctx, !.ready = seed.ready, !.seeded = TRUE,
                         !.cache = IF switched THEN ClearedCache ELSE @,
                         !.wanted = IF seed.scope = NoScope THEN @ ELSE seed.scope]
      placed == IF switched THEN LeftContext(taken) ELSE taken
      moved == u.shown # seed.scope
      rows == Ordered(seed.scope, u.filter, seed.rows)
      keep == IF moved THEN {} ELSE {row.id : row \in Selected(u)}
      shown == [placed EXCEPT !.rows = rows, !.shown = seed.scope,
                              !.picked = IF moved THEN {} ELSE @,
                              !.cache = IF seed.scope = NoScope \/ u.filter THEN @
                                        ELSE [@ EXCEPT ![seed.scope] = {rows}]]
  IN  IF switched /\ seed.scope # NoScope /\ placed.wanted = NoScope
      THEN NothingShown(placed)
      ELSE PruneSelection(Clamp(shown, IF moved THEN 1 ELSE KeepCursor(u, rows, keep)))

SeedFailed(u, kind) ==
  IF kind = "not_found" /\ u.wanted \in ListScopes
  THEN SeedNow([NothingShown(u) EXCEPT !.wanted = NoScope, !.cache[u.wanted] = {}])
  ELSE Does(u, <<>>)

OlderSeed(u, n) == n # u.latest

\* mutant: a change seen while a seed was on its way is forgotten
ForgetAgain(u, out) == Does([u EXCEPT !.again = FALSE], out)
AskAgain(u, out) ==
  IF u.again /\ out = <<>> THEN SeedNow(u) ELSE Does([u EXCEPT !.again = FALSE], out)

SeedAnswered(u, n, result) ==
  LET landed == [u EXCEPT !.flying = FALSE]
      done == IF result.kind # "seed" THEN SeedFailed(landed, result.kind)
              ELSE LET drawnNow == ApplySeed(landed, result)
                   IN  Does(drawnNow, IF ~u.seeded /\ drawnNow.ready THEN PrefetchViews(drawnNow) ELSE <<>>)
  IN  IF OlderSeed(u, n) THEN Does(u, <<>>) ELSE AskAgain(done.ui, done.out)

PrefetchAnswered(u, seed) ==
  IF seed.kind = "seed" /\ seed.scope # NoScope
  THEN [u EXCEPT !.cache[seed.scope] = {Ordered(seed.scope, FALSE, seed.rows)}] ELSE u

-----------------------------------------------------------------------------
(* Writes and their answers.                                               *)

ItemApplied(u, write, row) ==
  LET here == row.id \in IdsOf(u.rows)
      fits == Belongs(u, u.shown, row)
      open == Cardinality({i \in DOMAIN u.rows : ~u.rows[i].done})
      dropped == [u EXCEPT !.rows = Without(@, row.id)]
  IN  CASE write = "delete" -> dropped
        [] write = "add" /\ ~u.filter /\ fits ->
             [u EXCEPT !.rows = SubSeq(@, 1, open) \o <<row>> \o SubSeq(@, open + 1, Len(@)), !.at = open + 1]
        [] write # "add" /\ write # "delete" /\ here /\ fits ->
             [u EXCEPT !.rows[IndexOf(u.rows, row.id)] = row]
        [] write # "add" /\ write # "delete" /\ here /\ ~fits -> dropped
        [] OTHER -> u

ApplyWrite(u, write, items) ==
  LET step[i \in 0..Len(items)] == IF i = 0 THEN u ELSE ItemApplied(step[i - 1], write, items[i])
      drawnRows == step[Len(items)]
      sorted == IF write = "add" THEN drawnRows
                ELSE [drawnRows EXCEPT !.rows = Ordered(u.shown, u.filter, @)]
  IN  IF u.shown = NoScope THEN u ELSE PruneSelection(Clamp(sorted, sorted.at))

Pending(u) == UNION {p.ids : p \in u.pending}

ToggleComplete(u) ==
  LET reopen == \A row \in Targets(u) : row.done
      ids == {row.id : row \in {r \in Targets(u) : r.done = reopen}} \ Pending(u)
  IN  IF ids = {} THEN Does(u, <<>>)
      ELSE Does([u EXCEPT !.toggles = @ + 1, !.picked = {},
                          !.pending = @ \cup {[n |-> u.toggles + 1, ids |-> ids]}],
                <<[tag |-> "status", n |-> u.toggles + 1, write |-> IF reopen THEN "reopen" ELSE "complete", ids |-> ids]>>)

AskDelete(u) == Does([u EXCEPT !.asking = {row.id : row \in Targets(u)}], <<>>)

ConfirmDelete(u) ==
  Does([u EXCEPT !.asking = {}, !.picked = {}], <<[tag |-> "write", write |-> "delete", ids |-> u.asking]>>)

SubmitAdd(u) ==
  Does(u, IF Loading(u) THEN <<>>
          ELSE <<[tag |-> "write", write |-> "add", ids |-> {},
                  list |-> IF u.shown \in ListScopes THEN u.shown ELSE NoScope]>>)

ListDeleted(u, list) ==
  IF u.wanted = list THEN Reseed([u EXCEPT !.wanted = NoScope, !.shown = NoScope]) ELSE Does(u, <<>>)

-----------------------------------------------------------------------------
(* Keys that change what is on screen.                                     *)

\* The sidebar's rows: the views, and the lists of the last seed.
Entries(u) == Views \cup u.lists

OpenEntry(u, scope) ==
  LET plain == [u EXCEPT !.filter = FALSE, !.picked = {}, !.wanted = scope]
      opened == IF u.cache[scope] = {} THEN plain
                ELSE [plain EXCEPT !.rows = CHOOSE rows \in u.cache[scope] : TRUE, !.shown = scope, !.at = 1]
  IN  SeedNow(opened)

ToggleSelect(u) ==
  LET ids == {row.id : row \in Selected(u)}
  IN  Does([u EXCEPT !.picked = (@ \ ids) \cup (ids \ @)], <<>>)

SelectAll(u) == Does(IF Loading(u) THEN u ELSE [u EXCEPT !.picked = IdsOf(u.rows)], <<>>)

SetFilter(u, on) == IF u.filter = on THEN Does(u, <<>>) ELSE SeedNow([u EXCEPT !.filter = on])

ToggleDeferred(u) == SeedNow([u EXCEPT !.deferred = ~@, !.cache = ClearedCache])

NextContext(u) == Does(u, <<[tag |-> "context", on |-> ~u.ctx]>>)

Navigate(u, down) ==
  Does(Clamp(u, IF down THEN u.at + 1 ELSE IF u.at > 1 THEN u.at - 1 ELSE 1), <<>>)

NewDay(u) == IF u.seeded THEN Reseed([u EXCEPT !.cache = ClearedCache]) ELSE Does(u, <<>>)

-----------------------------------------------------------------------------
(* Messages.                                                               *)

Unpend(u, n) == [u EXCEPT !.pending = {p \in @ : p.n # n}]

Answered(u, m) ==
  CASE m.tag = "seed" -> SeedAnswered(u, m.n, m.result)
    [] m.tag = "prefetch" -> Does(PrefetchAnswered(u, m.result), <<>>)
    [] m.tag = "context" -> IF m.result.kind = "ok" THEN SeedNow(u) ELSE Does(u, <<>>)
    [] m.tag = "status" /\ m.result.kind = "applied" ->
         Does(ApplyWrite(Unpend(u, m.n), m.write, m.result.items), <<>>)
    [] m.tag = "status" /\ m.result.kind # "applied" -> Does(Unpend(u, m.n), <<>>)
    [] m.tag = "write" /\ m.result.kind = "applied" -> Does(ApplyWrite(u, m.write, m.result.items), <<>>)
    [] m.tag = "lists" /\ m.result.kind = "ok" -> ListDeleted(u, m.list)
    [] OTHER -> Does(u, <<>>)

OnEvent(u, event) ==
  IF event = "changed" \/ (event = "synced" /\ ~u.ready) THEN Reseed(u) ELSE Does(u, <<>>)

Disconnected(u) == [u EXCEPT !.flying = FALSE, !.again = FALSE]

Handle(u, m) ==
  CASE m.tag = "connected" -> SeedNow(u)
    [] m.tag = "disconnected" -> Does(Disconnected(u), <<>>)
    [] m.tag = "event" -> OnEvent(u, m.event)
    [] OTHER -> Answered(u, m)

-----------------------------------------------------------------------------
ScreenInit ==
  /\ board \in [card : {FirstCards}, lists : {ListScopes}, ctx : {FALSE}, ready : {FALSE}]
  /\ ui = [wanted |-> NoScope, shown |-> NoScope, rows |-> <<>>, at |-> 1, picked |-> {}, asking |-> {},
           filter |-> FALSE, deferred |-> FALSE, cache |-> ClearedCache, lists |-> {}, ctx |-> FALSE,
           ready |-> FALSE, seeded |-> FALSE, latest |-> 0, flying |-> FALSE, again |-> FALSE,
           toggles |-> 0, pending |-> {}]
  /\ outgoing = <<>> /\ working = NoWork /\ arrived = <<>>
  /\ linkUp = FALSE
  /\ drawn = "nothing"
  /\ spent = [keys |-> 0, news |-> 0, troubles |-> 0]

Spend(what, most) == spent[what] < most /\ spent' = [spent EXCEPT ![what] = @ + 1]

\* A message: the app's next state, and what it asks for.  `drawn` remembers
\* whether the seed drawn last is the first one, or failed.
Take ==
  /\ arrived # <<>>
  /\ LET m == Head(arrived)
         done == Handle(ui, m)
     IN  /\ ui' = done.ui
         /\ outgoing' = outgoing \o done.out
         /\ drawn' = IF m.tag # "seed" \/ OlderSeed(ui, m.n) THEN drawn
                     ELSE IF m.result.kind # "seed" THEN "failed"
                     ELSE IF ~ui.seeded THEN "first" ELSE "later"
  /\ arrived' = Tail(arrived)
  /\ UNCHANGED <<board, working, linkUp, spent>>

Press(done) ==
  /\ Spend("keys", MaxKeys)
  /\ ui' = done.ui
  /\ outgoing' = outgoing \o done.out
  /\ UNCHANGED <<board, working, arrived, linkUp, drawn>>

Browsing == ui.asking = {}

OpenKey == Browsing /\ \E scope \in Entries(ui) \ {ui.wanted} : Press(OpenEntry(ui, scope))
MoveKey == Browsing /\ \E down \in BOOLEAN : Navigate(ui, down).ui # ui /\ Press(Navigate(ui, down))
SelectKey == Browsing /\ Selected(ui) # {} /\ Press(ToggleSelect(ui))
SelectAllKey == Browsing /\ ui.rows # <<>> /\ Press(SelectAll(ui))
ToggleKey == Browsing /\ ToggleComplete(ui).out # <<>> /\ Press(ToggleComplete(ui))
DeleteKey == Browsing /\ Targets(ui) # {} /\ Press(AskDelete(ui))
ConfirmKey == ~Browsing /\ Press(ConfirmDelete(ui))
AddKey == Browsing /\ ui.ready /\ SubmitAdd(ui).out # <<>> /\ Press(SubmitAdd(ui))
FilterKey == Browsing /\ Press(SetFilter(ui, ~ui.filter))
DeferredKey == Browsing /\ Press(ToggleDeferred(ui))
ContextKey == Browsing /\ ui.seeded /\ Press(NextContext(ui))
DeleteListKey ==
  /\ Browsing /\ ui.shown = "work"
  /\ Press(Does(ui, <<[tag |-> "lists", list |-> "work"]>>))
DayTurns == Press(NewDay(ui))

Keys ==
  \/ OpenKey \/ MoveKey \/ SelectKey \/ SelectAllKey \/ ToggleKey \/ DeleteKey \/ ConfirmKey \/ AddKey
  \/ FilterKey \/ DeferredKey \/ ContextKey \/ DeleteListKey \/ DayTurns

-----------------------------------------------------------------------------
(* The daemon's side of the connection, and the connection itself.         *)

Event(what) == [tag |-> "event", event |-> what]

DropList(b) ==
  [b EXCEPT !.lists = @ \ {"work"}, !.card = [t \in Cards |-> IF @[t].list = "work" THEN [@[t] EXCEPT !.list = "gone"] ELSE @[t]]]

Exists(t) == board.card[t].list \in ListScopes
Unborn == {t \in Cards : board.card[t].list = "unborn"}

\* The tasks of a request as they are after its write, in order.
Items(b, ids) == SelectSeq([t \in Cards |-> Row(b, t)], LAMBDA row : row.id \in ids)

Written(write, ids) ==
  [board EXCEPT !.card = [t \in Cards |->
     IF t \notin ids THEN @[t]
     ELSE CASE write = "complete" -> [@[t] EXCEPT !.done = TRUE]
            [] write = "reopen" -> [@[t] EXCEPT !.done = FALSE]
            [] write = "delete" -> [@[t] EXCEPT !.list = "gone"]]]

\* A request handled: the board after it, and its answer.
Handled(q) ==
  LET refused == [board |-> board, result |-> [kind |-> "refused"]]
      to == IF q.list # NoScope THEN q.list ELSE IF Home(board) \in ListScopes THEN Home(board) ELSE "inbox"
  IN  CASE q.tag \in {"seed", "prefetch"} -> [board |-> board, result |-> SeedOf(board, q.ask)]
        [] q.tag = "context" -> [board |-> [board EXCEPT !.ctx = q.on], result |-> [kind |-> "ok"]]
        [] q.tag = "lists" ->
             IF q.list \in board.lists THEN [board |-> DropList(board), result |-> [kind |-> "ok"]] ELSE refused
        [] q.tag = "write" /\ q.write = "add" ->
             IF Unborn = {} \/ to \notin board.lists THEN refused
             ELSE LET t == CHOOSE t \in Unborn : \A s \in Unborn : t <= s
                      b == [board EXCEPT !.card[t].list = to]
                  IN  [board |-> b, result |-> [kind |-> "applied", items |-> Items(b, {t})]]
        [] OTHER ->
             IF \E t \in q.ids : ~Exists(t) THEN refused
             ELSE LET b == Written(q.write, q.ids)
                  IN  [board |-> b, result |-> [kind |-> "applied", items |-> Items(b, q.ids)]]

AnswerRequest ==
  /\ linkUp /\ working = NoWork /\ outgoing # <<>>
  /\ LET q == Head(outgoing)
         done == Handled(q)
         answer(result) == [f \in (DOMAIN q \ {"ask"}) \cup {"result"} |-> IF f = "result" THEN result ELSE q[f]]
     IN  \/ /\ board' = done.board
            /\ working' = [answer |-> answer(done.result), news |-> done.board # board]
            /\ UNCHANGED spent
         \/ /\ Spend("troubles", MaxTroubles)
            /\ working' = [answer |-> answer([kind |-> "internal"]), news |-> FALSE]
            /\ UNCHANGED board
  /\ outgoing' = Tail(outgoing)
  /\ UNCHANGED <<ui, arrived, linkUp, drawn>>

\* The answer goes out, before or after the event its change made.
Reply ==
  /\ working # NoWork
  /\ \/ arrived' = arrived \o (IF working.news THEN <<Event("changed")>> ELSE <<>>) \o <<working.answer>>
     \/ working.news /\ arrived' = arrived \o <<working.answer, Event("changed")>>
  /\ working' = NoWork
  /\ UNCHANGED <<board, ui, outgoing, linkUp, drawn, spent>>

\* Someone else changes the board: a phone's task, a list, the CLI's context,
\* or the first sync ending.
News ==
  /\ Spend("news", MaxNews)
  /\ \/ \E t \in {s \in Cards : Exists(s)} :
          \/ board' = [board EXCEPT !.card[t].done = ~@]
          \/ \E list \in board.lists \ {board.card[t].list} : board' = [board EXCEPT !.card[t].list = list]
     \/ "work" \in board.lists /\ board' = DropList(board)
     \/ board' = [board EXCEPT !.ctx = ~@]
  /\ board.ready
  /\ arrived' = IF linkUp THEN Append(arrived, Event("changed")) ELSE arrived
  /\ UNCHANGED <<ui, outgoing, working, linkUp, drawn>>

FirstSync ==
  /\ ~board.ready
  /\ board' = [board EXCEPT !.ready = TRUE]
  /\ arrived' = IF linkUp THEN Append(arrived, Event("synced")) ELSE arrived
  /\ UNCHANGED <<ui, outgoing, working, linkUp, drawn, spent>>

\* The answer to a request the connection lost.
Lost(q) == [f \in (DOMAIN q \ {"ask"}) \cup {"result"} |-> IF f = "result" THEN [kind |-> "lost"] ELSE q[f]]
\* mutant: requests lost with the connection are never answered
Unanswered(qs) == <<>>
LostAll(qs) == [i \in DOMAIN qs |-> Lost(qs[i])]

Connect ==
  /\ ~linkUp
  /\ linkUp' = TRUE
  /\ arrived' = Append(arrived, [tag |-> "connected"])
  /\ UNCHANGED <<board, ui, outgoing, working, drawn, spent>>

\* Everything asked and not answered is answered as lost, then the app is told.
Break ==
  /\ linkUp /\ Spend("troubles", MaxTroubles)
  /\ linkUp' = FALSE
  /\ arrived' = arrived \o (IF working = NoWork THEN <<>> ELSE <<Lost(working.answer)>>) \o LostAll(outgoing)
                        \o <<[tag |-> "disconnected"]>>
  /\ outgoing' = <<>> /\ working' = NoWork
  /\ UNCHANGED <<board, ui, drawn>>

\* Requests made while disconnected are answered rather than left waiting.
Drain ==
  /\ ~linkUp /\ outgoing # <<>>
  /\ arrived' = arrived \o LostAll(outgoing)
  /\ outgoing' = <<>>
  /\ UNCHANGED <<board, ui, working, linkUp, drawn, spent>>

ScreenNext == Take \/ Keys \/ AnswerRequest \/ Reply \/ News \/ FirstSync \/ Connect \/ Break \/ Drain

-----------------------------------------------------------------------------
(* Properties.                                                             *)

\* The app's state has its type, and the cursor is on a row or on the first.
ScreenTypeOK ==
  /\ ui.wanted \in Scopes \cup {NoScope} /\ ui.shown \in Scopes \cup {NoScope}
  /\ ui.at \in 1..(IF ui.rows = <<>> THEN 1 ELSE Len(ui.rows))
  /\ ui.asking \subseteq Cards /\ ui.picked \subseteq Cards

\* Nothing is on its way between the app and a daemon it is connected to.
Quiet == linkUp /\ outgoing = <<>> /\ working = NoWork /\ arrived = <<>>

\* What the app shows is what the daemon would answer now.
Current ==
  LET seed == SeedOf(board, SeedAsk(ui))
  IN  /\ seed.kind = "seed" /\ ui.shown = seed.scope
      /\ ui.rows = Ordered(seed.scope, ui.filter, seed.rows)
      /\ ui.lists = seed.lists /\ ui.ctx = seed.ctx

\* Once everything is answered, the screen shows the cache as it is, whatever
\* was written, changed by others, opened or lost on the way, in whatever order
\* events and answers came (Seeds, reseed, answered).  Not said of a screen
\* whose last seed failed, which says so, or is the first one (`drawn`).
ScreenTrue == Quiet /\ drawn = "later" => Current

=============================================================================
