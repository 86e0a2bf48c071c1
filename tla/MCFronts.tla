------------------------------ MODULE MCFronts ------------------------------
(***************************************************************************)
(* The program's edges.  Towards the user: a line read into a task, the    *)
(* modes the terminal interface reads a key in, its triage of the inbox,   *)
(* and the screens of the Raycast extension, whose commands fail, time out *)
(* or overlap.  Towards                                                    *)
(* Graph: the client's calls and the credential they share, with answers   *)
(* lost and tokens refused.  `part` says which one runs, and the others    *)
(* stay where they started.                                                *)
(***************************************************************************)
EXTENDS QuickAdd, TuiModes, TuiTriage, Raycast, GraphClient, TLC

VARIABLE part

W(mark, w) == [mark |-> mark, w |-> w]
Words(ws) == {W("", w) : w \in ws}
Marks == {W("#", "a"), W("#", "b"), W("#", "c"), W("@", "x"), W("@", "y"), W("^", "5pm"), W("!", "call")}
         \cup Words({"::", "p1", "p2", "*", "+someday", "+nag15m", "+nag1h", "+nagx"})
DateWords == Words({"call", "the", "due", "start", "mon", "Tom", "9am", "5pm", "every", "day"})
OtherWords == Words({"Addams", "Mon", "morning", "until"})
              \cup {W("!", "fri"), W("!", "9am"), W("^", "fri"), W("lit", "mon")}
\* Where a phrase starts that has up to three words more.
Heads == {W("!", w) : w \in {"on", "at", "fri", "9am", "iso"}} \cup {W("^", "on")} \cup Words({"due", "start"})
\* Any two words; three of which two at most are marks; four about dates; a
\* series with an end and a time; a phrase with its day, its hour, on and at.
MCLines ==
  LET all == Marks \cup DateWords \cup OtherWords
      series == Words({"mon", "until", "fri", "at", "9am"})
      phrase == Words({"on", "at", "fri", "9am", "iso"})
  IN UNION {[1..n -> all] : n \in 1..2}
     \cup [1..3 -> (DateWords \ Words({"Tom", "day"})) \cup OtherWords]
     \cup {<<W("", "call")>> \o l : l \in [1..2 -> Marks]}
     \cup [1..4 -> DateWords \ Words({"the", "Tom", "5pm"})]
     \cup {<<W("", "call"), W("", "every")>> \o l : l \in [1..4 -> series]}
     \cup UNION {{<<W("", "call"), head>> \o l : head \in Heads, l \in [1..n -> phrase]} : n \in 1..3}
MCNameOf == "l1" :> "a" @@ "l2" :> "ab" @@ "l3" :> "b" @@ "l4" :> "b" @@ "l5" :> "cd"
MCPrefixes == {<<"a", "a">>, <<"ab", "a">>, <<"b", "b">>, <<"cd", "c">>}
Flags(due, recur, start, reminder, strict) ==
  [due |-> due, recur |-> recur, start |-> start, reminder |-> reminder, strict |-> strict]
MCFlags == {Flags("", {}, Unset, "", FALSE), Flags("set", {}, Unset, "", FALSE), Flags("clear", {}, Unset, "", FALSE),
            Flags("", {5}, Unset, "", FALSE), Flags("set", {5}, Unset, "", FALSE), Flags("", {}, 6, "clear", FALSE),
            Flags("set", {}, Unset, "set", TRUE)}

\* No line: nothing goes on there.
LineRests == line = <<>> /\ span = <<>> /\ parsed = EmptyTask /\ warned = {} /\ pass = "steps" /\ sent = <<>>

\* Each hand presses the keys of one use of the modes: bulk changes, one
\* task's fields, its link, the palette and its pickers, the pages, and the
\* sidebar's lists.
Two == <<"t1", "t2">>
Held == {"Title", "Due", "Start", "Reminder", "Importance", "Assignee", "Defer", "Repeat", "Notes", "Url", "Name", "App", "ExternalId"}
Some == [f \in Held |-> IF f \in {"Title", "Due", "Assignee", "Url"} THEN "one" ELSE ""]
ShownTasks == [t \in ToSet(Two) |-> IF t = "t1" THEN Some ELSE [f \in Held |-> IF f \in {"Title", "Repeat", "Reminder", "Url"} THEN "two" ELSE ""]]

Hand(keys, types, runs, shown, changes) ==
  [keys |-> keys, types |-> types, runs |-> runs, list |-> shown, changes |-> changes, val |-> ShownTasks,
   nags |-> [t \in ToSet(Two) |-> t = "t1"]]

Bulk == Hand({"j", "k", "v", "V", "S", "R", "W", "m", "d", "y", "n", "x", "t", "A", "Enter", "Esc", "b"},
             {"", "one", "odd"}, {}, "view", {"Due"})
FieldHand == Hand({"e", "h", "Tab", "G", "Enter", "Ctrl-s", "Esc", "Ctrl-c", "Backspace", "I",
                   "1", "2", "4", "t", "d", "s", "r", "i", "a", "f", "p", "n"},
                  {"", "two", "odd"}, {}, "view", {"Repeat"})
LinkHand == Hand({"l", "G", "k", "e", "a", "d", "y", "n", "Tab", "Enter", "Space", "Esc", "b", "Left", "o"},
                 {"", "two"}, {}, "view", {"Url"})
PageHand == Hand({"D", "r", "?", "q", "j", "k", "PgDn", "PgUp", "g", "G", "Esc", "Ctrl-c", "h"}, {"", "one"}, {}, "view", {"Title"})
ThemeHand == Hand({"u", ":", "j", "k", "Ctrl-p", "Enter", "Esc", "Ctrl-c", "/", "Ctrl-s"},
                  {"", "one"}, {"", "Themes", "Sync"}, "view", {"Title"})
ListHand == Hand({":", "M", "h", "a", "Ctrl-r", "Tab", "Enter", "Esc", "y", "s"},
                 {"", "one", "odd"}, {"NewList", "RenameList", "DeleteList", "MergeList", "TriageInbox", "GoTo", "Context", "odd"},
                 "own", {"Title"})
AllHands == [bulk |-> Bulk, fields |-> FieldHand, link |-> LinkHand, pages |-> PageHand, themes |-> ThemeHand, lists |-> ListHand]

\* A setup that is done, and a list that couldn't be read: nothing goes on there.
SetupRests ==
  /\ pref = 1 /\ setup = [path |-> 1, phase |-> "ready"] /\ effectDue = FALSE /\ operation = 0 /\ checks = {}
  /\ syncRun = NoSync /\ retryDrawn = FALSE /\ backend = <<>> /\ setupSpent = [prefs |-> 0, retries |-> 0, moves |-> 0]
TasksRest ==
  /\ shared = [done |-> FALSE, day |-> FALSE, gone |-> FALSE, ver |-> 0]
  /\ list = [sel |-> "open", result |-> NoRows, error |-> TRUE, effect |-> FALSE, busy |-> FALSE]
  /\ listLoad = NoLoad /\ detail = Closed /\ taskLoad = NoLoad /\ dayLoad = NoLoad /\ form = NoForm
  /\ cliWrites = {} /\ ownVer = 0
  /\ raySpent = [presses |-> 0, trouble |-> 0, others |-> 0]

MCInit ==
  /\ part \in {"line", "modes", "triage", "setup", "screens", "client"}
  /\ IF part = "line" THEN QuickInit ELSE LineRests
  /\ IF part = "setup" THEN SetupInit ELSE SetupRests
  /\ IF part = "screens" THEN RayInit ELSE TasksRest
  /\ ModeInit /\ TriageInit /\ ClientInit
  /\ part # "modes" => hand = "pages" /\ tui.seeded

MCNext ==
  /\ UNCHANGED part
  /\ \/ part = "line" /\ QuickNext /\ UNCHANGED <<modeVars, triageVars, setupVars, rayVars, clientVars>>
     \/ part = "modes" /\ ModeNext /\ UNCHANGED <<quickVars, triageVars, setupVars, rayVars, clientVars>>
     \/ part = "triage" /\ TriageNext /\ UNCHANGED <<quickVars, modeVars, setupVars, rayVars, clientVars>>
     \/ part = "setup" /\ SetupNext /\ UNCHANGED <<quickVars, modeVars, triageVars, rayVars, clientVars>>
     \/ part = "screens" /\ RayNext /\ UNCHANGED <<quickVars, modeVars, triageVars, setupVars, clientVars>>
     \/ part = "client" /\ ClientNext /\ UNCHANGED <<quickVars, modeVars, triageVars, setupVars, rayVars>>

MCSpec == MCInit /\ [][MCNext]_<<part, quickVars, modeVars, triageVars, setupVars, rayVars, clientVars>>
=============================================================================
