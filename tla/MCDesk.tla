------------------------------- MODULE MCDesk -------------------------------
(***************************************************************************)
(* The lists: their rows and the writes queued on them, their folders and  *)
(* order; a task's files, saved into a directory of the user's; and what   *)
(* is on screen of the cache, the tasks and the detail pane.  `part` says  *)
(* which one runs, and the others stay where they started.                 *)
(***************************************************************************)
EXTENDS Folders, Lists, Downloads, TuiScreen, TuiDetail

VARIABLE part

List(id, folder, folderOrder, order) == [id |-> id, folder |-> folder, folderOrder |-> folderOrder, order |-> order]

\* Numbered and not, two folders and none; first seen in another order.
FiveLists ==
  <<List(1, "home", 0, 0), List(2, NoFolder, 0, 0), List(3, "work", 1, 2), List(4, "home", 0, 2), List(5, "home", 0, 0)>>

\* None active, and one that leaves a list out from between two of its own.
NoContext == [all |-> TRUE, folders |-> {}, named |-> {}]
TwoContexts == {NoContext} \cup [all : {FALSE}, folders : {{"work"}}, named : {{4, 5}}]

\* Every command on lists in twos, in threes the ones whose rows wait on each other, and an empty list.
EmptyList == [asks |-> {"delete", "undo", "merge"}, ops |-> 2, full |-> FALSE]
FourSittings ==
  {[asks |-> {"create", "rename", "folder", "delete", "merge", "undo", "discard"}, ops |-> 2, full |-> TRUE],
   [asks |-> {"rename", "delete", "undo"}, ops |-> 3, full |-> TRUE],
   [asks |-> {"merge", "rename", "undo"}, ops |-> 3, full |-> TRUE],
   EmptyList}

\* The file names an attachment is tried under: one's own name is another's
\* with a number.
ThreeNames == {"a", "a 1", "a 1 1"}
FileNumbered(i, n) == IF i = "z" THEN (IF n = 0 THEN "a 1" ELSE "a 1 1") ELSE (IF n = 0 THEN "a" ELSE "a 1")

FewCards == <<[list |-> "work", done |-> FALSE, held |-> TRUE],
              [list |-> "work", done |-> FALSE, held |-> FALSE],
              [list |-> "unborn", done |-> FALSE, held |-> FALSE]>>

\* A bound: the user waits for the first screen before pressing keys.
KeysOnceDrawn == spent'.keys # spent.keys => ui.seeded

\* A bound: keys, changes by others and troubles, at most three in all.
AtMostThree == spent'.keys + spent'.news + spent'.troubles <= 3

MCInit ==
  /\ part \in {"folders", "lists", "downloads", "screen", "detail"}
  /\ FoldersInit /\ Init /\ DownloadsInit /\ ScreenInit /\ DetailInit
  /\ part # "folders" => context = NoContext
  /\ part # "lists" => left.full = FALSE
  /\ part # "detail" => pane.tasks[1].step[1].name = "a"

MCNext ==
  /\ UNCHANGED part
  /\ \/ part = "folders" /\ FoldersNext /\ UNCHANGED <<vars, fileVars, screenVars, detailVars>>
     \/ part = "lists" /\ Next /\ UNCHANGED <<foldersVars, fileVars, screenVars, detailVars>>
     \/ part = "downloads" /\ DownloadsNext /\ UNCHANGED <<foldersVars, vars, screenVars, detailVars>>
     \/ part = "screen" /\ ScreenNext /\ KeysOnceDrawn /\ AtMostThree /\ UNCHANGED <<foldersVars, vars, fileVars, detailVars>>
     \/ part = "detail" /\ DetailNext /\ UNCHANGED <<foldersVars, vars, fileVars, screenVars>>

MCSpec == MCInit /\ [][MCNext]_<<part, foldersVars, vars, fileVars, screenVars, detailVars>>
=============================================================================
