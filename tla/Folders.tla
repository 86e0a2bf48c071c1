------------------------------- MODULE Folders -------------------------------
(***************************************************************************)
(* Folders and the order of lists (crates/daemon/src/folders.rs,           *)
(* list_writes.rs) and the terminal's sidebar over them (crates/tui/src/   *)
(* app: scope, folders, reorder, contexts).  A folder is only a name its   *)
(* lists carry: each list has [id, folder, folderOrder, order], and every  *)
(* change is a set of changes to lists.  0 is a number that is missing.    *)
(*                                                                         *)
(* The sidebar moves a row when the key is pressed; the change is sent on  *)
(* a connection that answers in order, and the events of changes make the  *)
(* app read the lists again.                                               *)
(***************************************************************************)
EXTENDS Naturals, Sequences, FiniteSets

CONSTANTS FirstLists,     \* the lists at the start, in the order first seen
          FolderNames,
          Contexts,       \* what may be active: [all, folders, named]
          MaxOrders,      \* folds, moves by key and folder prompts
          MaxElsewhere,   \* changes by other clients and machines
          MaxChanges      \* both together

VARIABLES lists,        \* what the cache holds, in the order first seen
          side,         \* the sidebar: its lists, cursor, folded folders, seeds
          context,      \* the active one
          toDaemon, toTui,
          asFirst,      \* history: nothing but this sidebar's reordering so far
          foldersSpent

foldersVars == <<lists, side, context, toDaemon, toTui, asFirst, foldersSpent>>

NoFolder == "no folder"
Missing == 0
Last == 9   \* where a missing number sorts

MinOf(S) == CHOOSE n \in S : \A k \in S : n <= k
PlaceOf(s, x) == CHOOSE i \in DOMAIN s : s[i] = x
Elements(s) == {s[i] : i \in DOMAIN s}
SortKey(n) == IF n = Missing THEN Last ELSE n

\* A stable sort by a number from 1 to Last.
SortBy(s, Key(_)) ==
  LET upTo[k \in 0..Last] == IF k = 0 THEN <<>> ELSE upTo[k - 1] \o SelectSeq(s, LAMBDA x : Key(x) = k)
  IN  upTo[Last]

-----------------------------------------------------------------------------
(* Groups and their order.                                                 *)

FirstSeen(rows) ==
  SelectSeq([i \in DOMAIN rows |-> rows[i].folder],
            LAMBDA name : name # NoFolder)

Distinct(s) ==
  LET upTo[i \in 0..Len(s)] ==
        IF i = 0 THEN <<>> ELSE IF s[i] \in Elements(upTo[i - 1]) THEN upTo[i - 1] ELSE Append(upTo[i - 1], s[i])
  IN  upTo[Len(s)]

ListsIn(rows, folder) ==
  SortBy(SelectSeq(rows, LAMBDA row : row.folder = folder), LAMBDA row : SortKey(row.order))

FolderKey(rows, folder) ==
  MinOf({SortKey(rows[i].folderOrder) : i \in {j \in DOMAIN rows : rows[j].folder = folder}})

Groups(rows) == SortBy(Distinct(FirstSeen(rows)), LAMBDA folder : FolderKey(rows, folder))

Joined(rows, folders) ==
  LET upTo[i \in 0..Len(folders)] == IF i = 0 THEN <<>> ELSE upTo[i - 1] \o ListsIn(rows, folders[i])
  IN  upTo[Len(folders)]

\* Every list in display order: each folder's, then those in none.
Sorted(rows) == Joined(rows, Groups(rows)) \o ListsIn(rows, NoFolder)

-----------------------------------------------------------------------------
(* Changes: each gives the lists after it.                                 *)

ById(rows, id) == CHOOSE row \in Elements(rows) : row.id = id
EachRow(rows, Change(_)) == [i \in DOMAIN rows |-> Change(rows[i])]

Place(items, moving, anchor, before) ==
  LET rest == SelectSeq(items, LAMBDA x : x # moving)
      at == IF before THEN PlaceOf(rest, anchor) - 1 ELSE PlaceOf(rest, anchor)
  IN  SubSeq(rest, 1, at) \o <<moving>> \o SubSeq(rest, at + 1, Len(rest))

FolderNumber(rows, folder, row) ==
  LET numbered == SelectSeq(ListsIn(rows, folder), LAMBDA other : other.folderOrder # Missing)
  IN  IF numbered = <<>> THEN Missing ELSE numbered[1].folderOrder

OutOfFolder(row) == [row EXCEPT !.folder = NoFolder, !.folderOrder = Missing, !.order = Missing]

MoveLists(rows, targets, folder) ==
  EachRow(rows, LAMBDA row :
    IF row.id \notin targets THEN row
    ELSE IF folder = NoFolder THEN OutOfFolder(row)
    ELSE [row EXCEPT !.folder = folder, !.folderOrder = FolderNumber(rows, folder, row),
                     !.order = IF row.folder = folder THEN @ ELSE Missing])

CanOrderList(rows, id, anchor) == id # anchor /\ ById(rows, id).folder = ById(rows, anchor).folder

OrderList(rows, id, anchor, before) ==
  LET siblings == ListsIn(rows, ById(rows, id).folder)
      ids == [i \in DOMAIN siblings |-> siblings[i].id]
      placed == Place(ids, id, anchor, before)
  IN  EachRow(rows, LAMBDA row : IF row.id \in Elements(placed) THEN [row EXCEPT !.order = PlaceOf(placed, row.id)] ELSE row)

RenameFolder(rows, folder, name) ==
  EachRow(rows, LAMBDA row : IF row.folder = folder THEN [row EXCEPT !.folder = name] ELSE row)

DeleteFolder(rows, folder) == EachRow(rows, LAMBDA row : IF row.folder = folder THEN OutOfFolder(row) ELSE row)

OrderFolder(rows, folder, anchor, before) ==
  LET placed == Place(Groups(rows), folder, anchor, before)
  IN  EachRow(rows, LAMBDA row : IF row.folder = NoFolder THEN row ELSE [row EXCEPT !.folderOrder = PlaceOf(placed, row.folder)])

\* A request's change as the daemon makes it; the same lists when it is refused.
Applied(rows, q) ==
  CASE q.tag = "order" -> IF CanOrderList(rows, q.what, q.anchor) THEN OrderList(rows, q.what, q.anchor, q.before) ELSE rows
    [] q.tag = "order_folder" ->
         IF {q.what, q.anchor} \subseteq Elements(Groups(rows)) /\ q.what # q.anchor
         THEN OrderFolder(rows, q.what, q.anchor, q.before) ELSE rows
    [] q.tag = "move" -> MoveLists(rows, {q.what}, q.anchor)

Refuses(rows, q) ==
  \/ q.tag = "order" /\ ~CanOrderList(rows, q.what, q.anchor)
  \/ q.tag = "order_folder" /\ ~({q.what, q.anchor} \subseteq Elements(Groups(rows)))

\* The lists a seed answers with: the active context's, in display order.
Covered(rows) ==
  SelectSeq(Sorted(rows), LAMBDA row : context.all \/ row.folder \in context.folders \/ row.id \in context.named)
SeedLists(rows) ==
  LET covered == Covered(rows) IN [i \in DOMAIN covered |-> [id |-> covered[i].id, folder |-> covered[i].folder]]

-----------------------------------------------------------------------------
(* The sidebar's rows and cursor.                                          *)

FoldersOf(s) == Distinct(FirstSeen(s.lists))
MembersOf(s, folder) == SelectSeq(s.lists, LAMBDA row : row.folder = folder)

SidebarEntries(s) ==
  LET folders == FoldersOf(s)
      members(folder) == [i \in DOMAIN MembersOf(s, folder) |-> <<"list", MembersOf(s, folder)[i].id>>]
      upTo[i \in 0..Len(folders)] ==
        IF i = 0 THEN <<<<"view", "all">>>>
        ELSE upTo[i - 1] \o <<<<"folder", folders[i]>>>> \o (IF folders[i] \in s.folded THEN <<>> ELSE members(folders[i]))
  IN  upTo[Len(folders)] \o members(NoFolder)

RowUnder(s) == IF s.at <= Len(SidebarEntries(s)) THEN {SidebarEntries(s)[s.at]} ELSE {}

FolderOf(s, id) == {row.folder : row \in {r \in Elements(s.lists) : r.id = id}} \ {NoFolder}

PlaceCursor(s, row) ==
  LET entries == SidebarEntries(s)
      found == IF row \cap Elements(entries) # {} THEN row
               ELSE IF s.wanted \in Elements(entries) THEN {s.wanted}
               ELSE {<<"folder", f>> : f \in IF s.wanted[1] = "list" THEN FolderOf(s, s.wanted[2]) ELSE {}} \cap Elements(entries)
      at == IF found = {} THEN s.at ELSE PlaceOf(entries, CHOOSE e \in found : TRUE)
  IN  [s EXCEPT !.at = IF at <= Len(entries) THEN at ELSE Len(entries)]

ToggleFolder(s, name) ==
  PlaceCursor([s EXCEPT !.folded = IF name \in @ THEN @ \ {name} ELSE @ \cup {name}], RowUnder(s))

-----------------------------------------------------------------------------
(* Moving a row by key: the sidebar's new order, and the change sent.      *)

Neighbours(s, row, down) ==
  LET rows == IF row[1] = "list" THEN MembersOf(s, ById(s.lists, row[2]).folder) ELSE <<>>
      order == IF row[1] = "list" THEN [i \in DOMAIN rows |-> rows[i].id] ELSE FoldersOf(s)
      at == PlaceOf(order, row[2])
  IN  IF down /\ at < Len(order) THEN {order[at + 1]} ELSE IF ~down /\ at > 1 THEN {order[at - 1]} ELSE {}

SwapLists(s, a, b) ==
  LET i == PlaceOf([k \in DOMAIN s.lists |-> s.lists[k].id], a)
      j == PlaceOf([k \in DOMAIN s.lists |-> s.lists[k].id], b)
  IN  [s.lists EXCEPT ![i] = s.lists[j], ![j] = s.lists[i]]

\* The lists of `first` go just before those of `second`.
FolderBefore(s, first, second) ==
  LET rest == SelectSeq(s.lists, LAMBDA row : row.folder # first)
      at == MinOf({i \in DOMAIN rest : rest[i].folder = second})
  IN  SubSeq(rest, 1, at - 1) \o MembersOf(s, first) \o SubSeq(rest, at, Len(rest))

IdsIn(rows) == [i \in DOMAIN rows |-> rows[i].id]

Reordered(s, row, other, down) ==
  LET moved == [s EXCEPT !.lists = IF row[1] = "list" THEN SwapLists(s, row[2], other)
                                   ELSE IF down THEN FolderBefore(s, other, row[2]) ELSE FolderBefore(s, row[2], other)]
      placed == PlaceCursor(moved, {row})
  IN  [placed EXCEPT !.pending = {IdsIn(moved.lists)}, !.inFlight = @ + 1]

\* mutant: a seed read before a move is answered puts the row back
ReadOrder(s, rows) == rows
KeepPendingOrder(s, rows) ==
  IF s.pending = {} THEN rows
  ELSE LET order == CHOOSE o \in s.pending : TRUE
       IN  SortBy(rows, LAMBDA row : IF row.id \in Elements(order) THEN PlaceOf(order, row.id) ELSE Last)

OrderAnswered(s, refused) ==
  LET left == [s EXCEPT !.inFlight = IF @ > 0 THEN @ - 1 ELSE 0, !.pending = IF refused THEN {} ELSE @]
  IN  [left EXCEPT !.pending = IF left.inFlight = 0 THEN {} ELSE @]

\* Last in its new folder, before the seed that follows brings the order.
MovedList(s, id, folder) ==
  LET rest == SelectSeq(s.lists, LAMBDA row : row.id # id)
      mine == {i \in DOMAIN rest : rest[i].folder = folder}
      loose == {i \in DOMAIN rest : rest[i].folder = NoFolder}
      to == IF folder = NoFolder THEN Len(rest)
            ELSE IF mine # {} THEN CHOOSE i \in mine : \A j \in mine : j <= i
            ELSE IF loose # {} THEN MinOf(loose) - 1 ELSE Len(rest)
  IN  IF id \notin Elements(IdsIn(s.lists)) \/ FolderOf(s, id) = {folder} \ {NoFolder} THEN s
      ELSE PlaceCursor([s EXCEPT !.lists = SubSeq(rest, 1, to) \o <<[id |-> id, folder |-> folder]>> \o SubSeq(rest, to + 1, Len(rest))],
                       RowUnder(s))

SideSeeded(s, rows) ==
  PlaceCursor([s EXCEPT !.lists = KeepPendingOrder(s, rows)], {row \in RowUnder(s) : row[1] = "folder"})

-----------------------------------------------------------------------------
SeedAsked(s) == IF s.flying THEN [s EXCEPT !.again = TRUE] ELSE [s EXCEPT !.flying = TRUE, !.again = FALSE]
AskedFor(s) == IF s.flying THEN <<>> ELSE <<[tag |-> "seed"]>>

FoldersInit ==
  /\ lists = FirstLists /\ context \in Contexts
  /\ side = [lists |-> SeedLists(FirstLists), at |-> 1, wanted |-> <<"view", "all">>, folded |-> {},
             pending |-> {}, inFlight |-> 0, flying |-> FALSE, again |-> FALSE]
  /\ toDaemon = <<>> /\ toTui = <<>>
  /\ asFirst = TRUE
  /\ foldersSpent = [orders |-> 0, elsewhere |-> 0]

SideQuiet == toDaemon = <<>> /\ toTui = <<>>

SpendChange(what, most) ==
  /\ foldersSpent[what] < most /\ foldersSpent.orders + foldersSpent.elsewhere < MaxChanges
  /\ foldersSpent' = [foldersSpent EXCEPT ![what] = @ + 1]
SpendOrder == SpendChange("orders", MaxOrders)

\* Up and Down in the sidebar: a list or a view opens, a heading doesn't.
MoveSideCursor ==
  /\ \E i \in DOMAIN SidebarEntries(side) \ {side.at} :
       side' = [side EXCEPT !.at = i, !.wanted = IF SidebarEntries(side)[i][1] = "folder" THEN @ ELSE SidebarEntries(side)[i]]
  /\ SideQuiet   \* a bound: between the moves, not among them
  /\ UNCHANGED <<lists, toDaemon, toTui, asFirst, foldersSpent>>

FoldKey ==
  /\ SpendOrder
  /\ \E row \in RowUnder(side) : row[1] = "folder" /\ side' = ToggleFolder(side, row[2])
  /\ UNCHANGED <<lists, toDaemon, toTui, asFirst>>

ReorderKey ==
  /\ SpendOrder
  /\ \E row \in {r \in RowUnder(side) : r[1] # "view"}, down \in BOOLEAN : \E other \in Neighbours(side, row, down) :
       /\ side' = Reordered(side, row, other, down)
       /\ toDaemon' = Append(toDaemon, [tag |-> IF row[1] = "list" THEN "order" ELSE "order_folder",
                                        what |-> row[2], anchor |-> other, before |-> ~down])
  /\ UNCHANGED <<lists, toTui, asFirst>>

MoveToFolder ==
  /\ SpendOrder
  /\ \E row \in {r \in RowUnder(side) : r[1] = "list"}, folder \in FolderNames \cup {NoFolder} :
       toDaemon' = Append(toDaemon, [tag |-> "move", what |-> row[2], anchor |-> folder, before |-> FALSE])
  /\ asFirst' = FALSE
  /\ UNCHANGED <<lists, side, toTui>>

Serve(q) ==
  LET after == IF q.tag = "seed" THEN lists ELSE Applied(lists, q)
      answer == IF q.tag = "seed" THEN [tag |-> "seed", rows |-> SeedLists(lists)]
                ELSE [tag |-> q.tag, refused |-> Refuses(lists, q), what |-> q.what, anchor |-> q.anchor]
      event == [tag |-> "changed"]
  IN  /\ lists' = after
      /\ IF q.tag = "seed" \/ Refuses(lists, q) THEN toTui' = Append(toTui, answer)
         ELSE toTui' \in {toTui \o <<event, answer>>, toTui \o <<answer, event>>}

ServeSide ==
  /\ toDaemon # <<>>
  /\ Serve(Head(toDaemon))
  /\ toDaemon' = Tail(toDaemon)
  /\ UNCHANGED <<side, asFirst, foldersSpent>>

\* Another client's folder command, or another machine's change to one list.
Elsewhere ==
  /\ SpendChange("elsewhere", MaxElsewhere)
  /\ \/ \E f \in Elements(Groups(lists)) :
          \/ lists' = DeleteFolder(lists, f)
          \/ \E name \in FolderNames \ Elements(Groups(lists)) : lists' = RenameFolder(lists, f, name)
     \/ \E i \in DOMAIN lists :
          \/ \E f \in FolderNames \cup {NoFolder} : lists' = [lists EXCEPT ![i].folder = f]
          \/ \E n \in {0, 2} : lists' = [lists EXCEPT ![i].folderOrder = n, ![i].order = n]
  /\ toTui' = Append(toTui, [tag |-> "changed"])
  /\ asFirst' = FALSE
  /\ UNCHANGED <<side, toDaemon>>

TakeSide ==
  /\ toTui # <<>>
  /\ LET m == Head(toTui)
         seeded == [SideSeeded([side EXCEPT !.flying = FALSE], m.rows) EXCEPT !.again = FALSE]
         ordered == OrderAnswered(side, m.refused)
     IN  CASE m.tag = "changed" -> side' = SeedAsked(side) /\ toDaemon' = toDaemon \o AskedFor(side)
           [] m.tag = "seed" ->
                IF side.again THEN side' = SeedAsked(seeded) /\ toDaemon' = toDaemon \o AskedFor(seeded)
                ELSE side' = seeded /\ UNCHANGED toDaemon
           [] m.tag = "move" -> side' = MovedList(side, m.what, m.anchor) /\ UNCHANGED toDaemon
           [] m.tag \in {"order", "order_folder"} ->
                IF ordered.inFlight = 0 \/ m.refused
                THEN side' = SeedAsked(ordered) /\ toDaemon' = toDaemon \o AskedFor(ordered)
                ELSE side' = ordered /\ UNCHANGED toDaemon
  /\ toTui' = Tail(toTui)
  /\ UNCHANGED <<lists, asFirst, foldersSpent>>

FoldersNext ==
  /\ UNCHANGED context
  /\ \/ MoveSideCursor \/ FoldKey \/ ReorderKey \/ MoveToFolder \/ ServeSide \/ Elsewhere \/ TakeSide

-----------------------------------------------------------------------------
(* Properties.                                                             *)

\* "The sidebar moves at once; the seed … confirms it" (reorder.rs): with no
\* change but this sidebar's own moves, an answer, event or seed never moves a
\* row: however many moves are in flight, nothing jumps back and forth.
NoJumpBack == [][TakeSide /\ asFirst => SidebarEntries(side') = SidebarEntries(side)]_foldersVars

=============================================================================
