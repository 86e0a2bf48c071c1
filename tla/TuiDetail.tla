------------------------------ MODULE TuiDetail ------------------------------
(***************************************************************************)
(* The detail pane's cursor and prompts (crates/tui/src/app: detail_cursor,*)
(* steps, edit, link_form, attachments).  The pane shows the task under    *)
(* the cursor; a refresh may change its steps, link and files, or take the *)
(* task away, between any two keys.  A child is [id, name, who]: `who` is  *)
(* which one it really is, which the app can't see; an `id` is local until *)
(* Microsoft To Do answers with its own.                                   *)
(***************************************************************************)
EXTENDS Naturals, Sequences, FiniteSets

CONSTANTS ChildNames,     \* what a step or a file is called
          MaxChildren,    \* steps (and files) a task has at most
          MaxRefreshes,   \* refreshes that bring changes
          MaxDetailKeys   \* keys pressed

VARIABLES pane,       \* tasks on screen, cursor row, anchor, stale, prompt
          aim,        \* the child the user last put the cursor on, or was shown
          requests,   \* the changes sent, each with the child it really reaches
          detailSpent

detailVars == <<pane, aim, requests, detailSpent>>

NoChild == 0
LocalId(who) == <<"local", who>>
GraphId(who) == <<"graph", who>>
IsLocal(id) == id[1] = "local"

-----------------------------------------------------------------------------
(* Rows: the fields, the steps under their heading, the link, the files    *)
(* under theirs, and the notes.                                            *)

FieldRow == <<"field", 1>>
NotesRow == <<"notes", 1>>
LinkRow == <<"link", 1>>
Heading(kind) == <<kind, 0>>

DetailRows(task) ==
  <<FieldRow, Heading("step")>> \o [i \in DOMAIN task.step |-> <<"step", i>>] \o <<LinkRow, Heading("file")>>
    \o [i \in DOMAIN task.file |-> <<"file", i>>] \o <<NotesRow>>

IsPlace(row) == row[1] \in {"step", "file"} /\ row[2] > 0

\* This row on `task`: past the last step or file, the last, or the heading.
RowOn(row, task) ==
  IF IsPlace(row) /\ row[2] > Len(task[row[1]]) THEN <<row[1], Len(task[row[1]])>> ELSE row

AnchorFor(task, row) ==
  LET child == CASE IsPlace(row) /\ row[2] <= Len(task[row[1]]) -> <<row[1], task[row[1]][row[2]].id, task[row[1]][row[2]].name>>
                 [] row = LinkRow -> <<"link", task.link>>
                 [] OTHER -> <<"nothing">>
  IN  [task |-> task.id, child |-> child]

FindChild(children, id, name, was) ==
  LET at == {i \in DOMAIN children : children[i].id = id}
      named == {i \in DOMAIN children : children[i].name = name /\ ~IsLocal(children[i].id)}
  IN  CASE at # {} -> CHOOSE i \in at : \A j \in at : i <= j
        [] at = {} /\ ~IsLocal(id) -> 0
        [] at = {} /\ IsLocal(id) /\ was \in named -> was
        [] at = {} /\ IsLocal(id) /\ was \notin named -> IF Cardinality(named) = 1 THEN CHOOSE i \in named : TRUE ELSE 0

UnderCursor(d) == IF d.tasks = <<>> THEN {} ELSE {d.tasks[d.at]}
OnScreen(d, id) == {d.tasks[i] : i \in {j \in DOMAIN d.tasks : d.tasks[j].id = id}}

SetRow(d, row) ==
  [d EXCEPT !.row = row, !.stale = FALSE,
            !.anchor = IF d.tasks = <<>> THEN {} ELSE {AnchorFor(d.tasks[d.at], RowOn(row, d.tasks[d.at]))}]

\* After anything changed: find what the cursor is on again.
FollowChild(d, task, kind, id, name) ==
  LET at == FindChild(task[kind], id, name, IF d.row[1] = kind THEN d.row[2] ELSE 0)
      row == IF at > 0 THEN <<kind, at>> ELSE RowOn(d.row, task)
  IN  [d EXCEPT !.row = row, !.anchor = {AnchorFor(task, row)}, !.stale = @ \/ at = 0]

\* mutant: the cursor stays at its position, whatever is there now
Unfollowed(d) == d
Follow(d) ==
  IF d.tasks = <<>> THEN d
  ELSE LET task == d.tasks[d.at]
           mine == {a \in d.anchor : a.task = task.id}
           child == (CHOOSE a \in mine : TRUE).child
       IN  CASE mine = {} -> SetRow(d, RowOn(d.row, task))
             [] mine # {} /\ child[1] = "nothing" -> d
             [] mine # {} /\ child[1] = "link" ->
                  [d EXCEPT !.row = LinkRow, !.anchor = {AnchorFor(task, LinkRow)}, !.stale = @ \/ child[2] # task.link]
             [] mine # {} /\ child[1] \in {"step", "file"} -> FollowChild(d, task, child[1], child[2], child[3])

-----------------------------------------------------------------------------
(* Keys.                                                                   *)

NoPrompt == [kind |-> "none"]
RowNow(d) == RowOn(d.row, d.tasks[d.at])
ChildAt(d) == LET row == RowNow(d) IN IF IsPlace(row) THEN {d.tasks[d.at][row[1]][row[2]]} ELSE {}

\* Which child the cursor really is on (of which task), for `aim`.
WhoAt(d) ==
  IF d.tasks = <<>> THEN [who |-> {}, name |-> {}]
  ELSE [who |-> {c.who : c \in ChildAt(d)} \cup (IF RowNow(d) = LinkRow THEN {d.tasks[d.at].link} ELSE {}),
        name |-> {c.name : c \in ChildAt(d)}]

KeyPressed(d) ==
  /\ detailSpent.keys < MaxDetailKeys
  /\ detailSpent' = [detailSpent EXCEPT !.keys = @ + 1]
  /\ pane' = Follow(d)

\* A key that only moves the cursor: from now on it is what is under it.
MoveRow ==
  /\ pane.prompt = NoPrompt /\ pane.tasks # <<>>
  /\ \E i \in DOMAIN DetailRows(pane.tasks[pane.at]) : KeyPressed(SetRow(pane, DetailRows(pane.tasks[pane.at])[i]))
  /\ aim' = WhoAt(pane')
  /\ UNCHANGED requests

MoveTask ==
  /\ pane.prompt = NoPrompt
  /\ \E i \in DOMAIN pane.tasks \ {pane.at} : KeyPressed([pane EXCEPT !.at = i])
  /\ aim' = WhoAt(pane')
  /\ UNCHANGED requests

\* "…changed; nothing was done": said once, and the user sees where it is now.
RefuseIfStale == pane.stale

RefusedKey ==
  /\ pane.prompt = NoPrompt /\ pane.tasks # <<>> /\ RefuseIfStale
  /\ RowNow(pane)[1] \in {"step", "link", "file"}
  /\ KeyPressed([pane EXCEPT !.stale = FALSE])
  /\ aim' = WhoAt(pane')
  /\ UNCHANGED requests

\* Space on a step, and "d", "e" or Enter on a step, the link or a file: the
\* change goes out, or the prompt opens, for the one under the cursor.
ChildKey ==
  /\ pane.prompt = NoPrompt /\ pane.tasks # <<>> /\ ~RefuseIfStale
  /\ LET task == pane.tasks[pane.at]
         more(what, id, who, name) == Append(requests, [change |-> what, id |-> id, who |-> who, name |-> name])
     IN  \/ \E c \in ChildAt(pane), what \in {"check", "delete", "edit", "download"} :
              /\ what = "check" => RowNow(pane)[1] = "step"
              /\ what = "download" => RowNow(pane)[1] = "file" /\ ~IsLocal(c.id)
              /\ what = "edit" => RowNow(pane)[1] = "step"
              /\ IF what \in {"check", "download"}
                 THEN KeyPressed(pane) /\ requests' = more(what, c.id, c.who, c.name)
                 ELSE /\ KeyPressed([pane EXCEPT !.prompt = [kind |-> what, task |-> task.id, id |-> c.id, who |-> c.who, name |-> c.name]])
                      /\ UNCHANGED requests
         \/ /\ RowNow(pane) = LinkRow
            /\ \E what \in {"link_form", "delete"} :
                 /\ what = "delete" => task.link # NoChild
                 /\ KeyPressed([pane EXCEPT !.prompt = [kind |-> what, task |-> task.id, id |-> <<"link", task.link>>, who |-> task.link, name |-> NoChild]])
            /\ UNCHANGED requests
  /\ UNCHANGED aim

\* "a": a new step's text is asked for, even on a row that changed.
AddStepKey ==
  /\ pane.prompt = NoPrompt /\ pane.tasks # <<>> /\ RowNow(pane)[1] \in {"step", "link"}
  /\ KeyPressed([pane EXCEPT !.prompt = [kind |-> "new_step", task |-> pane.tasks[pane.at].id]])
  /\ UNCHANGED <<aim, requests>>

\* Enter (or "y"): a deletion is sent as it was asked; an edit only to a task
\* still on screen, found by its ID.
SubmitPrompt ==
  /\ pane.prompt # NoPrompt
  /\ LET p == pane.prompt
         gone == OnScreen(pane, p.task) = {}
         sent(what) == Append(requests, [change |-> what, id |-> p.id, who |-> p.who, name |-> p.name])
         closed == [pane EXCEPT !.prompt = NoPrompt]
     IN  CASE p.kind = "delete" -> KeyPressed(closed) /\ requests' = sent("delete")
           [] p.kind # "delete" /\ gone -> KeyPressed(closed) /\ UNCHANGED requests
           [] p.kind = "edit" /\ ~gone -> KeyPressed(closed) /\ requests' = sent("edit")
           [] p.kind = "link_form" /\ ~gone ->
                KeyPressed(closed) /\ requests' = sent(IF p.who = NoChild THEN "add_link" ELSE "edit_link")
           [] p.kind = "new_step" /\ ~gone -> KeyPressed(pane) /\ UNCHANGED requests
  /\ UNCHANGED aim

CancelPrompt ==
  /\ pane.prompt # NoPrompt
  /\ KeyPressed([pane EXCEPT !.prompt = NoPrompt])
  /\ UNCHANGED <<aim, requests>>

-----------------------------------------------------------------------------
(* Refreshes: what the phone and the daemon did to the tasks shown.        *)

Whos(d) == UNION {{c.who : c \in {t.step[i] : i \in DOMAIN t.step} \cup {t.file[i] : i \in DOMAIN t.file}} \cup {t.link}
                    : t \in {d.tasks[i] : i \in DOMAIN d.tasks}}
FreshWho(d) == LET used == Whos(d) IN CHOOSE n \in 1..20 : n \notin used /\ \A k \in 1..(n - 1) : k \in used

Removed(s, i) == SubSeq(s, 1, i - 1) \o SubSeq(s, i + 1, Len(s))

ChildChanged(d, s) ==
  {Removed(s, i) : i \in DOMAIN s}
    \cup {[s EXCEPT ![i].id = GraphId(s[i].who)] : i \in {j \in DOMAIN s : IsLocal(s[j].id)}}
    \cup (IF Len(s) < MaxChildren
          THEN LET fresh == FreshWho(d)
                   new(name) == [id |-> GraphId(fresh), name |-> name, who |-> fresh]
               IN  UNION {{<<new(name)>> \o s, Append(s, new(name))} : name \in ChildNames}
          ELSE {})

ShowNow(tasks) ==
  /\ detailSpent.refreshes < MaxRefreshes
  /\ detailSpent' = [detailSpent EXCEPT !.refreshes = @ + 1]
  /\ UNCHANGED requests
  /\ LET keep == {i \in DOMAIN tasks : {tasks[i].id} = {t.id : t \in UnderCursor(pane)}}
         last == IF tasks = <<>> THEN 1 ELSE Len(tasks)
         at == IF keep # {} THEN CHOOSE i \in keep : TRUE ELSE IF pane.at <= last THEN pane.at ELSE last
     IN  pane' = Follow([pane EXCEPT !.tasks = tasks, !.at = at])

\* The task stays under the cursor while its children change.
RefreshChildren ==
  /\ \E i \in DOMAIN pane.tasks :
       \/ \E kind \in {"step", "file"} : \E s \in ChildChanged(pane, pane.tasks[i][kind]) :
            ShowNow([pane.tasks EXCEPT ![i][kind] = s])
       \/ ShowNow([pane.tasks EXCEPT ![i].link = IF @ = NoChild THEN FreshWho(pane) ELSE NoChild])
  /\ UNCHANGED aim

\* The task leaves the list: the cursor is on another, or on none.
RefreshTasks ==
  /\ \E i \in DOMAIN pane.tasks : ShowNow(Removed(pane.tasks, i))
  /\ aim' = IF UnderCursor(pane) = UnderCursor(pane') THEN aim ELSE WhoAt(pane')

DetailInit ==
  /\ \E name \in ChildNames :
       LET child(who, id) == [id |-> id, name |-> name, who |-> who]
           task(n, steps, files, link) == [id |-> n, step |-> steps, file |-> files, link |-> link]
       IN  pane = [tasks |-> <<task(1, <<child(1, LocalId(1)), child(2, GraphId(2))>>, <<>>, 3),
                               task(2, <<>>, <<child(4, GraphId(4))>>, NoChild)>>,
                   at |-> 1, row |-> FieldRow, anchor |-> {}, stale |-> FALSE, prompt |-> NoPrompt]
  /\ aim = [who |-> {}, name |-> {}]
  /\ requests = <<>>
  /\ detailSpent = [keys |-> 0, refreshes |-> 0]

DetailNext ==
  \/ MoveRow \/ MoveTask \/ RefusedKey \/ ChildKey \/ AddStepKey \/ SubmitPrompt \/ CancelPrompt
  \/ RefreshChildren \/ RefreshTasks

DetailSpec == DetailInit /\ [][DetailNext]_detailVars

-----------------------------------------------------------------------------
(* Properties.                                                             *)

\* The cursor's row is one the task shows, and its anchor is what is there: the
\* position drawn and the step a key would act on never come apart, whatever a
\* refresh did (follow_detail_row).
CursorAnchored ==
  /\ pane.at \in DOMAIN pane.tasks \/ pane.tasks = <<>>
  /\ \A task \in UnderCursor(pane) : \A a \in pane.anchor : a.task = task.id =>
       /\ RowNow(pane) \in {DetailRows(task)[i] : i \in DOMAIN DetailRows(task)}
       /\ a = AnchorFor(task, RowNow(pane)) \/ a.child = <<"nothing">>

=============================================================================
