------------------------------ MODULE TuiModes ------------------------------
(***************************************************************************)
(* What a key means in the terminal interface (crates/tui/src: keybindings,*)
(* runner's key_msg, app/dispatch, edit, due_batch, assign, list_writes,   *)
(* link_form, palette, themes, diagnostics).  The mode gives the context,  *)
(* the registry the action, and the dispatcher what is done: a prompt      *)
(* opens on the tasks aimed at, is typed in, and sends or keeps what was   *)
(* typed, while re-reads change the rows under it and answers              *)
(* arrive.  What re-reads bring is TuiScreen's; the detail pane's steps    *)
(* and files are TuiDetail's, the sidebar's folders are Folders'.          *)
(***************************************************************************)
EXTENDS Naturals, Sequences, FiniteSets, SequencesExt

CONSTANTS ModeTasks,    \* the tasks, in the order they are shown
          Hands,        \* what users do: name |-> [keys, types, runs, list, changes, val, nags]
          MaxRereads,   \* re-reads that bring something else
          MaxAsked,     \* undos, and readings of the page, on the way at most
          MaxRecent     \* recent commands kept (KEPT)

VARIABLES tui,      \* the app
          hand,     \* which keys this user presses
          awaited,  \* answers still to come: [page, undo]
          rereads,
          aimed     \* what was selected, under the cursor and overdue when the
                    \* key that opened the question was pressed

modeVars == <<tui, hand, awaited, rereads, aimed>>

-----------------------------------------------------------------------------
(* The registry: contexts, keys and actions.                               *)

Browse == {"Sidebar", "Tasks", "Detail", "Steps"}
OnTasks == {"Tasks", "Detail", "Steps"}
OnDetail == {"Detail", "Steps"}
OnLists == Browse \cup {"Picker", "Themes", "Links", "Diagnostics"}
Prompts == {"Prompt", "Adding", "Notes", "Folder", "LinkForm"}
Searches == {"Palette", "MoveTo"}

Bind(contexts, keys, action) == [context : contexts, key : keys, action : {action}]

MoveBindings ==
  UNION {Bind(OnLists, {"j", "Down"}, "MoveDown"), Bind(OnLists, {"k", "Up"}, "MoveUp"),
         Bind(Browse, {"g"}, "JumpTop"), Bind(Browse, {"G"}, "JumpBottom"),
         Bind(Browse, {"PgDn"}, "PageDown"), Bind(Browse, {"PgUp"}, "PageUp"),
         Bind(Browse, {"h"}, "FocusLeft"), Bind(Browse, {"l"}, "FocusRight"),
         Bind({"Sidebar"}, {"Enter", "Space"}, "Open"), Bind(Browse, {"Tab"}, "FocusNext")}

TaskBindings ==
  UNION {Bind(Browse, {"a"}, "Add"), Bind(OnTasks, {"x"}, "ToggleComplete"),
         Bind(OnTasks, {"e"}, "Edit"), Bind(OnDetail, {"Enter"}, "EditHere"),
         Bind({"Steps"}, {"Space"}, "ToggleStep"), Bind(OnTasks, {"d"}, "Delete"),
         Bind(OnTasks, {"S"}, "SetDue"), Bind(OnTasks, {"R"}, "RescheduleOverdue"),
         Bind(OnTasks, {"m"}, "MoveTasks"), Bind(OnTasks, {"v"}, "ToggleSelect"),
         Bind(OnTasks, {"V"}, "SelectAll"), Bind(OnTasks, {"Esc"}, "Clear"),
         Bind(OnTasks, {"o"}, "OpenLink"), Bind(OnTasks, {"y"}, "CopyLink"),
         Bind(OnTasks, {"t"}, "ToggleMyDay"), Bind(OnTasks, {"n"}, "ToggleNag"),
         Bind(OnTasks, {"A"}, "Attach"), Bind(OnTasks, {"W"}, "Assign")}

BrowseBindings ==
  UNION {Bind(Browse, {"u"}, "Undo"), Bind(Browse, {"/"}, "Filter"),
         Bind(Browse, {":"}, "Palette"), Bind(Browse, {"r"}, "Sync"),
         Bind(Browse, {"D"}, "Diagnostics"), Bind(Browse, {"M"}, "MoveToFolder"),
         Bind({"Sidebar"}, {"K", "Alt-Up"}, "ReorderUp"), Bind({"Sidebar"}, {"J", "Alt-Down"}, "ReorderDown"),
         Bind(Browse, {"?"}, "Help"), Bind(Browse, {"q", "Ctrl-c"}, "Quit"),
         Bind(Browse, {"z"}, "ToggleDeferred"), Bind(Browse, {"c"}, "NextContext")}

PromptBindings ==
  UNION {Bind({"Prompt", "Adding", "Folder", "LinkForm"}, {"Enter"}, "Submit"),
         Bind({"Prompt"}, {"Ctrl-s"}, "ToggleSemantic"),
         Bind({"Adding", "Folder", "LinkForm"}, {"Tab"}, "Complete"),
         Bind({"Adding"}, {"Ctrl-r"}, "ToggleParse"), Bind({"Adding"}, {"Ctrl-l"}, "AcceptList"),
         Bind({"Notes"}, {"Ctrl-s", "Alt-Enter"}, "Submit"), Bind({"Notes"}, {"Enter"}, "Newline"),
         Bind(Prompts, {"Esc", "Ctrl-c"}, "Cancel"), Bind(Prompts \cup Searches, {"Backspace"}, "Backspace")}

\* Picking a field is the action of that field's name.
FieldKeys ==
  [t |-> "Title", d |-> "Due", s |-> "Start", r |-> "Reminder", i |-> "Importance",
   a |-> "Assignee", f |-> "Defer", p |-> "Repeat", n |-> "Notes"]
Fields == {FieldKeys[k] : k \in DOMAIN FieldKeys}
LevelActions == {"High", "Normal", "Low"}

PickBindings ==
  UNION {UNION {Bind({"Fields"}, {k}, FieldKeys[k]) : k \in DOMAIN FieldKeys},
         Bind({"Fields"}, {"I"}, "CycleImportance"),
         Bind({"Fields", "Importance"}, {"Esc", "Ctrl-c"}, "Cancel"),
         Bind({"Importance"}, {"1", "h"}, "High"), Bind({"Importance"}, {"2", "3", "n"}, "Normal"),
         Bind({"Importance"}, {"4", "l"}, "Low"),
         Bind({"Confirm"}, {"y"}, "Confirm"), Bind({"Confirm"}, {"n", "Esc"}, "Cancel"),
         Bind({"Picker", "Links", "Triage", "Themes", "Palette", "MoveTo"}, {"Enter"}, "Submit"),
         Bind({"Picker", "Links", "Triage", "Themes", "Palette", "MoveTo", "Diagnostics", "Help"}, {"Esc"}, "Cancel"),
         Bind({"Links", "Triage", "Themes", "Palette", "MoveTo"}, {"Ctrl-c"}, "Cancel"),
         Bind({"Links"}, {"o"}, "OpenLink"), Bind({"Links"}, {"y"}, "CopyLink"),
         Bind({"Triage"}, {"m"}, "Submit"), Bind({"Triage"}, {"s"}, "Skip"),
         Bind({"Triage", "Diagnostics", "Help"}, {"q"}, "Cancel"),
         Bind({"Palette"}, {"Down", "Ctrl-n"}, "MoveDown"), Bind({"MoveTo"}, {"Down", "Ctrl-n"}, "MoveDown"),
         Bind(Searches, {"Up", "Ctrl-p"}, "MoveUp"),
         Bind({"Diagnostics"}, {"r"}, "Refresh"), Bind({"Diagnostics"}, {"D"}, "Cancel"),
         Bind({"Help"}, {"j", "Down"}, "MoveDown"), Bind({"Help"}, {"k", "Up"}, "MoveUp"),
         Bind({"Help"}, {"PgDn"}, "PageDown"), Bind({"Help"}, {"PgUp"}, "PageUp"),
         Bind({"Help"}, {"g"}, "JumpTop"), Bind({"Help"}, {"G"}, "JumpBottom"),
         Bind({"Help"}, {"?"}, "Cancel")}

Bindings == MoveBindings \cup TaskBindings \cup BrowseBindings \cup PromptBindings \cup PickBindings
ModeKeys == {b.key : b \in Bindings} \cup {"b", "Left"}

Registry ==
  [context \in {b.context : b \in Bindings} |->
     [key \in {b.key : b \in {b \in Bindings : b.context = context}} |->
        (CHOOSE b \in Bindings : b.context = context /\ b.key = key).action]]
Resolve(context, key) == IF key \in DOMAIN Registry[context] THEN Registry[context][key] ELSE "None"

-----------------------------------------------------------------------------
(* The app.  A text is "" or one of two that read as a value, or "odd",    *)
(* which reads as no date, path, title or URL.  A task's fields, and its   *)
(* link's parts, hold such texts.                                          *)

FieldOrder == <<"Title", "Due", "Start", "Reminder", "Importance", "Assignee", "Defer", "Repeat", "Notes">>
Parts == <<"Url", "Name", "App", "ExternalId">>
PartNames == {Parts[i] : i \in DOMAIN Parts}
NextPart(part) == Parts[((CHOOSE i \in DOMAIN Parts : Parts[i] = part) % Len(Parts)) + 1]
Themes == 3
HelpRows == 2

Blank == [part \in PartNames |-> ""]
Mode(kind) == [kind |-> kind, ids |-> {}, field |-> "None", text |-> "", wrong |-> FALSE, at |-> 0,
               form |-> Blank, before |-> 0]
OnTask(kind, ids) == [Mode(kind) EXCEPT !.ids = ids]
BrowseKeys == Mode("Normal")

\* The context keys are looked up in.
Context(a) ==
  LET m == a.mode
  IN  CASE m.kind = "Editing" /\ m.field = "Notes" -> "Notes"
        [] m.kind = "Adding" -> "Adding"
        [] m.kind = "EditingChild" /\ m.field \in PartNames -> "LinkForm"
        [] m.kind \in {"Filtering", "Editing", "EditingChild", "Attaching", "SettingDue", "Assigning", "NamingList"} -> "Prompt"
        [] m.kind = "ChoosingField" -> "Fields"
        [] m.kind = "MovingList" -> "Folder"
        [] m.kind = "ChoosingImportance" -> "Importance"
        [] m.kind \in {"ConfirmDelete", "ConfirmClearDue", "ConfirmDeleteChild", "ConfirmDeleteList"} -> "Confirm"
        [] m.kind = "MovingTasks" -> "MoveTo"
        [] m.kind \in {"Picker", "Palette", "Diagnostics", "Help", "Themes", "Links", "Triage"} -> m.kind
        [] m.kind = "Normal" -> IF a.focus = "Detail" /\ a.row = "Link" /\ a.cur \in ToSet(a.rows) THEN "Steps" ELSE a.focus

Typing(a) == Context(a) \in Prompts \cup Searches

Write(op, ids, field, value) == [op |-> op, ids |-> ids, field |-> field, value |-> value, parts |-> {}]
LinkWrite(op, ids, parts) == [Write(op, ids, "Link", "") EXCEPT !.parts = parts]
Send(a, write) == [a EXCEPT !.sent = {write}]
In(a, mode) == [a EXCEPT !.mode = mode]
Done(a) == In(a, BrowseKeys)

\* The task under the cursor, and the tasks an action takes.
SelectedTask(a) == IF a.cur \in ToSet(a.rows) THEN {a.cur} ELSE {}
ModeTargets(a) ==
  CASE a.loading -> {}
    [] ~a.loading /\ a.picked = {} -> SelectedTask(a)
    [] OTHER -> a.picked \cap ToSet(a.rows)
Overdue(a) == {t \in ToSet(a.rows) : a.val[t]["Due"] = "one"}

\* Only a task still on screen is edited.
InScope(a, ids) == ~a.loading /\ ids \subseteq ToSet(a.rows)

-----------------------------------------------------------------------------
(* Fields: what a text typed in one makes of it.                           *)

Dates == {"Due", "Start", "Reminder", "Defer", "Repeat"}
Unread(field, text, now) ==
  \/ field = "Title" /\ text = ""
  \/ field \in Dates /\ text = "odd" /\ ~(field = "Repeat" /\ now["Repeat"] = "odd")
  \/ field = "Start" /\ text # "" /\ text # now["Start"] /\ now["Repeat"] # ""

OpenField(a, ids, field) ==
  IF ~InScope(a, ids) THEN Done(a)
  ELSE [a EXCEPT !.focus = "Detail", !.row = field,
                 !.mode = IF field = "Importance" THEN OnTask("ChoosingImportance", ids)
                          ELSE [OnTask("Editing", ids) EXCEPT !.field = field,
                                   !.text = a.val[CHOOSE t \in ids : TRUE][field]]]

SetImportance(a, ids, level) ==
  IF ~InScope(a, ids) THEN Done(a)
  ELSE LET closed == [Done(a) EXCEPT !.row = "Importance"]
       IN  IF a.val[CHOOSE t \in ids : TRUE]["Importance"] = level THEN closed
           ELSE Send(closed, Write("Edit", ids, "Importance", level))

\* The levels are three of the texts.
LevelText == [High |-> "one", Normal |-> "", Low |-> "two"]
NextLevel(level) == CASE level = "two" -> "" [] level = "" -> "one" [] OTHER -> "two"

\* The prompts that take the tasks aimed at.
StartFor(a, kind) == IF ModeTargets(a) = {} THEN a ELSE In(a, OnTask(kind, ModeTargets(a)))
\* Assigning starts from the name they share; asked of no task too.
StartAssign(a) ==
  LET ids == ModeTargets(a)
      names == {a.val[t]["Assignee"] : t \in ids}
  IN  IF ids = {} THEN a
      ELSE In(a, [OnTask("Assigning", ids) EXCEPT !.text = IF Cardinality(names) = 1 THEN CHOOSE n \in names : TRUE ELSE ""])
StartReschedule(a) == IF Overdue(a) = {} THEN a ELSE In(a, OnTask("SettingDue", Overdue(a)))

EditTarget(a) == IF a.mode.kind \in {"ChoosingField", "ChoosingImportance"} THEN a.mode.ids ELSE SelectedTask(a)

EditActionOf(a, action) ==
  LET ids == EditTarget(a)
  IN  CASE a.mode.kind = "Normal" /\ a.loading -> a
        [] ~(a.mode.kind = "Normal" /\ a.loading) /\ action \in {"Due", "Assignee"} /\ a.picked # {} ->
             IF action = "Due" THEN StartFor(Done(a), "SettingDue") ELSE StartAssign(Done(a))
        [] OTHER ->
             CASE ids = {} -> Done(a)
               [] ids # {} /\ action = "Edit" ->
                    IF a.focus = "Detail" /\ a.picked = {} /\ a.row \in Fields THEN OpenField(a, ids, a.row)
                    ELSE In(a, OnTask("ChoosingField", ids))
               [] ids # {} /\ action = "EditHere" -> IF a.row \in Fields THEN OpenField(a, ids, a.row) ELSE a
               [] ids # {} /\ action \in Fields -> OpenField(a, ids, action)
               [] ids # {} /\ action = "CycleImportance" ->
                    IF ~InScope(a, ids) THEN Done(a)
                    ELSE SetImportance(a, ids, NextLevel(a.val[CHOOSE t \in ids : TRUE]["Importance"]))
               [] ids # {} /\ action \in LevelActions -> SetImportance(a, ids, LevelText[action])

\* Enter while editing a field: sent, nothing to send, refused, or gone.
SubmitEdit(a) ==
  LET m == a.mode
      now == a.val[CHOOSE t \in m.ids : TRUE]
  IN  CASE ~InScope(a, m.ids) -> Done(a)
        [] InScope(a, m.ids) /\ Unread(m.field, m.text, now) -> [a EXCEPT !.mode.wrong = TRUE]
        [] OTHER -> IF m.text = now[m.field] THEN Done(a)
                    ELSE Send(Done(a), Write("Edit", m.ids, m.field, m.text))

\* Enter on one due date for several tasks: clearing them is asked about.
\* mutant: the tasks are the ones aimed at now
AimedNow(a) == ModeTargets(a)
PromptIds(a) == a.mode.ids
SubmitSetDue(a) ==
  CASE a.mode.text = "odd" -> [a EXCEPT !.mode.wrong = TRUE]
    [] a.mode.text = "" -> In(a, OnTask("ConfirmClearDue", a.mode.ids))
    [] OTHER -> Send([Done(a) EXCEPT !.picked = {}], Write("Edit", PromptIds(a), "Due", a.mode.text))
ConfirmClearDue(a) == Send([Done(a) EXCEPT !.picked = {}], Write("Edit", a.mode.ids, "Due", ""))
SubmitAssign(a) == Send([Done(a) EXCEPT !.picked = {}], Write("Edit", a.mode.ids, "Assignee", a.mode.text))

ToggleNag(a) ==
  LET ids == ModeTargets(a)
      quiet == {t \in ids : ~a.nags[t]}
  IN  CASE ids = {} -> a
        [] ids # {} /\ quiet = {} -> Send([a EXCEPT !.picked = {}], Write("Nag", ids, "None", ""))
        [] OTHER -> IF \E t \in quiet : a.val[t]["Reminder"] = "" THEN a
                    ELSE Send([a EXCEPT !.picked = {}], Write("Nag", quiet, "None", "one"))

-----------------------------------------------------------------------------
(* The link's form, and the prompts of the lists and of other panes.       *)

LinkFormOf(a, t) ==
  [OnTask("EditingChild", {t}) EXCEPT !.field = "Url", !.text = a.val[t]["Url"],
     !.form = [part \in PartNames |-> a.val[t][part]], !.at = IF a.val[t]["Url"] = "" THEN 0 ELSE 1]

NextLinkPart(a) ==
  LET m == a.mode
  IN  IF m.field \notin PartNames THEN a
      ELSE In(a, [m EXCEPT !.form[m.field] = m.text, !.field = NextPart(m.field), !.wrong = FALSE,
                           !.text = m.form[NextPart(m.field)]])

\* Enter in the form: the parts that aren't what the task's link has.
LinkChange(a) ==
  LET m == a.mode
      typed == [m.form EXCEPT ![m.field] = m.text]
      before == a.val[CHOOSE t \in m.ids : TRUE]
      changed == {part \in PartNames : typed[part] # before[part]}
      rejected == [a EXCEPT !.mode.wrong = TRUE]
  IN  CASE typed["Url"] \in {"", "odd"} -> rejected
        [] typed["Url"] \notin {"", "odd"} /\ m.at = 0 -> Send(Done(a), LinkWrite("AddLink", m.ids, {part \in PartNames : typed[part] # ""}))
        [] OTHER -> CASE \E part \in changed : typed[part] = "" -> rejected
                      [] changed = {} -> Done(a)
                      [] OTHER -> Send(Done(a), LinkWrite("EditLink", m.ids, changed))

\* A new step leaves its prompt open for the next one.
SubmitChild(a) ==
  LET m == a.mode
  IN  CASE ~InScope(a, m.ids) -> Done(a)
        [] InScope(a, m.ids) /\ m.field \in PartNames -> LinkChange(a)
        [] OTHER -> IF m.text = "" THEN Done(a)
                    ELSE Send(In(a, [OnTask("EditingChild", m.ids) EXCEPT !.field = "Step"]), Write("AddStep", m.ids, "Step", m.text))

\* The keys the detail cursor takes on the link's row.
ChildAction(a, action) ==
  LET t == CHOOSE t \in SelectedTask(a) : TRUE
  IN  CASE action = "Add" -> In(a, [OnTask("EditingChild", {t}) EXCEPT !.field = "Step"])
        [] action \in {"Edit", "EditHere"} -> In(a, LinkFormOf(a, t))
        [] action = "Delete" /\ a.val[t]["Url"] # "" -> In(a, OnTask("ConfirmDeleteChild", {t}))
        [] OTHER -> a
IsChildKey(a, action) ==
  /\ a.focus = "Detail" /\ a.row = "Link" /\ ~a.loading /\ SelectedTask(a) # {}
  /\ action \in {"ToggleStep", "Add", "Edit", "EditHere", "Delete"}

SubmitAttach(a) ==
  CASE a.mode.text = "" -> Done(a)
    [] a.mode.text = "odd" -> [a EXCEPT !.mode.wrong = TRUE]
    [] OTHER -> Send(Done(a), Write("Attach", a.mode.ids, "None", a.mode.text))

SubmitNewTask(a) ==
  CASE a.mode.text = "" \/ a.loading -> Done(a)
    [] a.mode.text = "odd" /\ ~a.loading -> a
    [] OTHER -> Send(Done(a), Write("AddTask", {}, "None", a.mode.text))

\* Naming, moving, deleting or merging the list the sidebar is on.
StartList(a, kind, field, text) ==
  IF a.list = "view" THEN a ELSE In(a, [Mode(kind) EXCEPT !.field = field, !.text = text])
StartDeleteList(a) == IF a.list \in {"view", "default"} THEN a ELSE In(a, Mode("ConfirmDeleteList"))
SubmitListName(a) ==
  IF a.mode.text = "" THEN Done(a)
  ELSE Send(Done(a), Write(IF a.mode.field = "List" THEN "RenameList" ELSE "CreateList", {}, "None", a.mode.text))
ListWrite(a, op, value) == Send(Done(a), Write(op, {}, "None", value))

\* The lists a move picker offers for what is typed; Enter past the last does nothing.
MoveChoices(query) == CASE query = "" -> 2 [] query = "odd" -> 0 [] OTHER -> 1
SubmitMoveTasks(a) ==
  CASE a.mode.at >= MoveChoices(a.mode.text) -> Done(a)
    [] a.mode.at < MoveChoices(a.mode.text) /\ a.mode.field = "List" -> ListWrite(a, "MergeList", "one")
    [] OTHER -> Send([Done(a) EXCEPT !.picked = {}], Write("Move", a.mode.ids, "None", "one"))

StepIn(at, count, down) ==
  IF ~down THEN IF at = 0 THEN 0 ELSE at - 1
  ELSE IF at + 1 < count THEN at + 1 ELSE IF count = 0 THEN 0 ELSE count - 1

-----------------------------------------------------------------------------
(* The palette, the theme picker and the diagnostics page.                 *)

PaletteOrder ==
  <<"Add", "ToggleComplete", "Edit", "Delete", "SetDue", "RescheduleOverdue", "MoveTasks", "ToggleSelect", "SelectAll", "Undo",
    "Filter", "Clear", "Sync", "Diagnostics", "MoveToFolder", "ReorderUp", "ReorderDown", "Help", "Quit", "OpenLink", "CopyLink",
    "ToggleMyDay", "ToggleNag", "Attach", "Assign", "ToggleDeferred", "NextContext">> \o FieldOrder \o
  <<"CycleImportance", "Themes", "NewList", "RenameList", "DeleteList", "TriageInbox", "MergeList", "Context", "GoTo">>

\* What the palette offers: everything, recent commands first, or the command named.
PaletteItems(a, query) ==
  IF query = "" THEN a.recent \o SelectSeq(PaletteOrder, LAMBDA c : c \notin ToSet(a.recent))
  ELSE SelectSeq(PaletteOrder, LAMBDA c : c = query)

Remember(recent, label) ==
  LET all == <<label>> \o SelectSeq(recent, LAMBDA c : c # label)
  IN  SubSeq(all, 1, IF Len(all) < MaxRecent THEN Len(all) ELSE MaxRecent)

OpenThemes(a) == In(a, [Mode("Themes") EXCEPT !.at = a.drawn, !.before = a.drawn])
StepTheme(a, down) ==
  LET at == StepIn(a.mode.at, Themes, down)
  IN  [a EXCEPT !.mode.at = at, !.drawn = at]
RevertTheme(a) == [Done(a) EXCEPT !.drawn = a.mode.before]

PageRows == 2
RefreshPage(a) == Send([a EXCEPT !.waiting = 3], Write("Page", {}, "None", ""))
OpenDiagnostics(a) == RefreshPage([In(a, Mode("Diagnostics")) EXCEPT !.scroll = 0])
ScrollPage(a, down) == [a EXCEPT !.scroll = StepIn(a.scroll, PageRows, down)]

Diagnosed(a, well) == [a EXCEPT !.waiting = StepIn(a.waiting, 0, FALSE)]

-----------------------------------------------------------------------------
(* Where an action goes: the mode decides first, browsing takes the rest.  *)

Place(seq, x) == CHOOSE i \in DOMAIN seq : seq[i] = x
Moved(seq, x, action) ==
  LET i == Place(seq, x)
  IN  CASE action = "MoveDown" -> seq[IF i < Len(seq) THEN i + 1 ELSE i]
        [] action = "MoveUp" -> seq[IF i > 1 THEN i - 1 ELSE i]
        [] action \in {"PageDown", "JumpBottom"} -> seq[Len(seq)]
        [] action \in {"PageUp", "JumpTop"} -> seq[1]
Movement == {"MoveDown", "MoveUp", "PageDown", "PageUp", "JumpTop", "JumpBottom"}
DetailOrder == SubSeq(FieldOrder, 1, 8) \o <<"Link", "Notes">>

\* The sidebar opens what it moves to, which isn't read yet.
NavigateIn(a, action) ==
  CASE a.focus = "Sidebar" -> [a EXCEPT !.loading = TRUE, !.picked = {}]
    [] a.focus = "Tasks" /\ SelectedTask(a) # {} -> [a EXCEPT !.cur = Moved(a.rows, a.cur, action)]
    [] a.focus = "Detail" /\ SelectedTask(a) # {} -> [a EXCEPT !.row = Moved(DetailOrder, a.row, action)]
    [] OTHER -> a

Refocus(a, action) ==
  [a EXCEPT !.focus = CASE action = "FocusLeft" -> IF a.focus = "Detail" THEN "Tasks" ELSE "Sidebar"
                        [] action = "FocusRight" -> IF a.focus = "Sidebar" THEN "Tasks" ELSE "Detail"
                        [] action = "FocusNext" -> CASE a.focus = "Sidebar" -> "Tasks"
                                                     [] a.focus = "Tasks" -> "Detail"
                                                     [] a.focus = "Detail" -> "Sidebar"]

Loaded == {"Add", "ToggleComplete", "Delete", "SetDue", "RescheduleOverdue", "MoveTasks", "ToggleMyDay", "ToggleNag",
           "Attach", "Assign", "ToggleSelect", "SelectAll"}
Straight(a, op) ==
  IF ModeTargets(a) = {} THEN a ELSE Send([a EXCEPT !.picked = {}], Write(op, ModeTargets(a), "None", ""))

BrowseTask(a, action) ==
  CASE action \in Loaded /\ a.loading -> a
    [] action = "Add" /\ ~a.loading -> IF a.ready THEN In(a, Mode("Adding")) ELSE a
    [] action = "SetDue" /\ ~a.loading -> StartFor(a, "SettingDue")
    [] action = "RescheduleOverdue" /\ ~a.loading -> StartReschedule(a)
    [] action = "ToggleComplete" /\ ~a.loading -> Straight(a, "Complete")
    [] action = "ToggleMyDay" /\ ~a.loading -> Straight(a, "MyDay")
    [] action = "ToggleNag" /\ ~a.loading -> ToggleNag(a)
    [] action = "Attach" /\ ~a.loading -> IF SelectedTask(a) = {} THEN a ELSE In(a, OnTask("Attaching", SelectedTask(a)))
    [] action = "Assign" /\ ~a.loading -> StartAssign(a)
    [] action = "MoveTasks" /\ ~a.loading -> StartFor(a, "MovingTasks")
    [] action = "Delete" /\ ~a.loading -> StartFor(a, "ConfirmDelete")
    [] action = "ToggleSelect" /\ ~a.loading ->
         [a EXCEPT !.picked = (a.picked \ SelectedTask(a)) \cup (SelectedTask(a) \ a.picked)]
    [] action = "SelectAll" /\ ~a.loading -> [a EXCEPT !.picked = ToSet(a.rows)]

\* One link is followed at once; of several one is picked.
FollowLink(a) == IF \E t \in SelectedTask(a) : a.val[t]["Url"] = "two" THEN In(a, Mode("Links")) ELSE a

BrowseApp(a, action) ==
  CASE action = "Palette" -> In(a, Mode("Palette"))
    [] action \in {"OpenLink", "CopyLink"} -> FollowLink(a)
    [] action = "MoveToFolder" -> StartList(a, "MovingList", "List", "")
    [] action = "NewList" -> In(a, Mode("NamingList"))
    [] action = "RenameList" -> StartList(a, "NamingList", "List", "one")
    [] action = "DeleteList" -> StartDeleteList(a)
    [] action = "MergeList" -> StartList(a, "MovingTasks", "List", "")
    [] action = "Diagnostics" -> OpenDiagnostics(a)
    [] action = "TriageInbox" -> IF a.ready THEN In(a, [Mode("Triage") EXCEPT !.at = 2]) ELSE a
    [] action = "Undo" -> Send(a, Write("Undo", {}, "None", ""))
    [] action = "Filter" -> In(a, [Mode("Filtering") EXCEPT !.text = a.filter])
    [] action = "Clear" -> IF a.picked # {} THEN [a EXCEPT !.picked = {}] ELSE [a EXCEPT !.filter = ""]
    [] action = "Help" -> In(a, Mode("Help"))
    [] action = "Quit" -> [a EXCEPT !.quit = TRUE]
    [] action \in {"Open", "Sync", "ReorderUp", "ReorderDown", "ToggleDeferred", "NextContext"} -> a
    [] action = "ToggleStep" /\ a.loading -> a     \* said: still loading
    [] OTHER -> a

BrowseAct(a, action) ==
  CASE IsChildKey(a, action) -> ChildAction(a, action)
    [] ~IsChildKey(a, action) /\ action \in Movement -> NavigateIn(a, action)
    [] ~IsChildKey(a, action) /\ action \in {"FocusLeft", "FocusRight", "FocusNext"} -> Refocus(a, action)
    [] ~IsChildKey(a, action) /\ action \in Loaded -> BrowseTask(a, action)
    [] ~IsChildKey(a, action) /\ action \in {"Edit", "EditHere", "CycleImportance"} \cup Fields -> EditActionOf(a, action)
    [] OTHER -> BrowseApp(a, action)

\* Enter in the palette: as if its key had been pressed in the task list.
RunPalette(a) ==
  LET items == PaletteItems(a, a.mode.text)
      label == items[a.mode.at + 1]
      kept == [Done(a) EXCEPT !.recent = Remember(a.recent, label)]
      off == [kept EXCEPT !.focus = IF a.focus = "Sidebar" THEN "Tasks" ELSE a.focus]
  IN  CASE a.mode.at >= Len(items) -> Done(a)
        [] a.mode.at < Len(items) /\ label = "Themes" -> OpenThemes(kept)
        [] a.mode.at < Len(items) /\ label = "Context" -> kept
        [] a.mode.at < Len(items) /\ label = "GoTo" -> [kept EXCEPT !.focus = "Tasks", !.loading = TRUE, !.picked = {}]
        [] OTHER -> BrowseAct(off, label)

Submit(a) ==
  LET kind == a.mode.kind
  IN  CASE kind = "Picker" -> Send(Done(a), Write("Undo", {}, "None", "one"))
        [] kind = "Palette" -> RunPalette(a)
        [] kind = "Themes" -> Done(a)
        [] kind = "Links" -> Done(a)
        [] kind = "Triage" -> IF a.mode.at = 1 THEN Done(a) ELSE [a EXCEPT !.mode.at = @ - 1]
        [] kind = "MovingTasks" -> SubmitMoveTasks(a)
        [] kind = "Editing" -> SubmitEdit(a)
        [] kind = "EditingChild" -> SubmitChild(a)
        [] kind = "Attaching" -> SubmitAttach(a)
        [] kind = "SettingDue" -> SubmitSetDue(a)
        [] kind = "Assigning" -> SubmitAssign(a)
        [] kind = "NamingList" -> SubmitListName(a)
        [] kind = "Adding" -> SubmitNewTask(a)
        [] kind = "MovingList" -> ListWrite(a, "MoveList", a.mode.text)
        [] kind = "Filtering" -> [Done(a) EXCEPT !.focus = "Tasks"]
        [] OTHER -> a

Confirm(a) ==
  CASE a.mode.kind = "ConfirmDeleteChild" -> Send(Done(a), LinkWrite("DeleteLink", a.mode.ids, {}))
    [] a.mode.kind = "ConfirmClearDue" -> ConfirmClearDue(a)
    [] a.mode.kind = "ConfirmDeleteList" -> ListWrite(a, "DeleteList", "")
    [] a.mode.kind = "ConfirmDelete" -> Send([Done(a) EXCEPT !.picked = {}], Write("Delete", a.mode.ids, "None", ""))
    [] OTHER -> a

Scrolled(a, action) ==
  LET at == a.mode.at
  IN  [a EXCEPT !.mode.at = CASE action \in {"MoveDown", "PageDown"} -> StepIn(at, HelpRows, TRUE)
                              [] action \in {"MoveUp", "PageUp"} -> StepIn(at, HelpRows, FALSE)
                              [] action = "JumpTop" -> 0
                              [] action = "JumpBottom" -> HelpRows - 1]

Picks == {"Picker", "Links", "Palette", "MovingTasks"}
Offers(a) == CASE a.mode.kind = "Palette" -> Len(PaletteItems(a, a.mode.text))
               [] a.mode.kind = "MovingTasks" -> MoveChoices(a.mode.text)
               [] OTHER -> 2

LinkKeys == {"OpenLink", "CopyLink"}

ActIn(a, action) ==
  LET kind == a.mode.kind
  IN  CASE kind \in Picks /\ action \in {"MoveDown", "MoveUp"} -> [a EXCEPT !.mode.at = StepIn(a.mode.at, Offers(a), action = "MoveDown")]
        [] kind = "Themes" /\ action \in {"MoveDown", "MoveUp"} -> StepTheme(a, action = "MoveDown")
        [] kind = "Themes" /\ action = "Cancel" -> RevertTheme(a)
        [] kind = "Links" /\ action \in LinkKeys -> Done(a)
        [] kind = "Triage" /\ action = "Skip" -> IF a.mode.at = 1 THEN Done(a) ELSE [a EXCEPT !.mode.at = @ - 1]
        [] kind = "Help" /\ action \in Movement -> Scrolled(a, action)
        [] kind = "Diagnostics" /\ action \in {"MoveDown", "MoveUp"} -> ScrollPage(a, action = "MoveDown")
        [] kind = "Diagnostics" /\ action = "Refresh" -> RefreshPage(a)
        [] kind = "EditingChild" /\ action = "Complete" -> NextLinkPart(a)
        [] kind \in {"ChoosingField", "ChoosingImportance"} /\ action \in Fields \cup LevelActions \cup {"CycleImportance"} ->
             EditActionOf(a, action)
        [] kind \in {"Adding", "MovingList"} /\ action \in {"Complete", "ToggleParse", "AcceptList"} -> a
        [] action = "Backspace" \/ (kind = "Editing" /\ action = "Newline") -> a   \* edits the text: KeyMsg
        [] kind = "Filtering" /\ action = "Cancel" -> [Done(a) EXCEPT !.filter = ""]
        [] kind = "Filtering" /\ action = "ToggleSemantic" -> [a EXCEPT !.meaning = ~a.meaning]
        [] kind # "Normal" /\ action = "Submit" -> Submit(a)
        [] kind # "Normal" /\ action = "Confirm" -> Confirm(a)
        [] kind \notin {"Normal", "Themes", "Filtering"} /\ action = "Cancel" -> Done(a)
        [] kind = "Normal" -> BrowseAct(a, action)
        [] OTHER -> a

\* While there's nothing to show without signing in, browsing takes three actions.
Gated(a, action) == a.signIn /\ a.mode.kind = "Normal" /\ action \notin {"Quit", "Help", "Diagnostics"}
HandleAction(a, action) == IF Gated(a, action) THEN a ELSE ActIn(a, action)

\* Text typed, or taken, in the prompt's line editor: an error goes, a search
\* starts again from its first match, and a filter follows.
EditWith(a, text) ==
  LET m == [a.mode EXCEPT !.text = text, !.wrong = FALSE,
                          !.at = IF a.mode.kind \in {"Palette", "MovingTasks"} THEN 0 ELSE @]
  IN  [a EXCEPT !.mode = m, !.filter = IF a.mode.kind = "Filtering" THEN text ELSE a.filter]

-----------------------------------------------------------------------------
(* Steps: a key, an answer, a re-read.                                     *)

Nothing == "none"
Quietly(a) == [a EXCEPT !.sent = {}]
Unaimed == [targets |-> {}, cursor |-> {}, overdue |-> {}]
Asks(a, op) == Cardinality({w \in a.sent : w.op = op})

ModeInit ==
  /\ hand \in DOMAIN Hands
  /\ \E seeded \in BOOLEAN :
       tui = [mode |-> BrowseKeys, focus |-> "Tasks", row |-> "Title", val |-> Hands[hand].val,
              rows |-> IF seeded THEN ModeTasks ELSE <<>>, cur |-> IF seeded THEN Head(ModeTasks) ELSE Nothing,
              picked |-> {}, loading |-> FALSE, ready |-> seeded, seeded |-> seeded, signIn |-> FALSE, list |-> Hands[hand].list,
              nags |-> Hands[hand].nags, filter |-> "", meaning |-> FALSE, drawn |-> 0, recent |-> <<>>, waiting |-> 0,
              scroll |-> 0, quit |-> FALSE, sent |-> {}]
  /\ awaited = [page |-> 0, undo |-> 0]
  /\ rereads = 0
  /\ aimed = Unaimed

\* What a key means now: an action of the registry, or in a prompt, text.
KeyMsg(a, key) ==
  LET action == Resolve(Context(a), key)
  IN  CASE action \in {"Backspace", "Newline"} -> {EditWith(a, text) : text \in Hands[hand].types}
        [] action = "None" /\ Typing(a) ->
             {EditWith(a, text) : text \in IF a.mode.kind = "Palette" THEN Hands[hand].runs ELSE Hands[hand].types}
        [] action = "None" /\ ~Typing(a) -> {a}
        [] OTHER -> {HandleAction(a, action)}

PressKey ==
  /\ ~tui.quit
  /\ \E key \in Hands[hand].keys : tui' \in KeyMsg(Quietly(tui), key)
  /\ awaited' = [page |-> awaited.page + 3 * Asks(tui', "Page"), undo |-> awaited.undo + Asks(tui', "Undo")]
  /\ awaited'.page <= 3 * MaxAsked /\ awaited'.undo <= MaxAsked
  /\ aimed' = CASE tui'.mode.kind = "Normal" /\ tui'.sent = {} -> Unaimed
               [] ~(tui'.mode.kind = "Normal" /\ tui'.sent = {}) /\ tui.mode.kind \in {"Normal", "Palette"} ->
                   [targets |-> ModeTargets(tui), cursor |-> SelectedTask(tui), overdue |-> Overdue(tui)]
               [] OTHER -> aimed
  /\ UNCHANGED <<hand, rereads>>

PageAnswered ==
  /\ awaited.page > 0 /\ ~tui.quit
  /\ \E well \in BOOLEAN : tui' = Diagnosed(Quietly(tui), well)
  /\ awaited' = [awaited EXCEPT !.page = @ - 1]
  /\ UNCHANGED <<hand, rereads, aimed>>

\* An undo's answer; one that needs a copy chosen opens the picker at once.
UndoAnswered ==
  /\ awaited.undo > 0 /\ ~tui.quit
  /\ \E pick \in BOOLEAN : tui' = IF pick THEN In(Quietly(tui), Mode("Picker")) ELSE Quietly(tui)
  /\ awaited' = [awaited EXCEPT !.undo = @ - 1]
  /\ UNCHANGED <<hand, rereads, aimed>>

\* The first read found nothing cached and no credential.
SignInNeeded ==
  /\ ~tui.seeded /\ ~tui.signIn /\ ~tui.quit
  /\ tui' = [Quietly(tui) EXCEPT !.signIn = TRUE]
  /\ UNCHANGED <<hand, awaited, rereads, aimed>>

\* The tasks still there, in the order they are shown.
RowsLeft(kept) == SelectSeq(ModeTasks, LAMBDA x : x \in kept)

ValuesAfter == {tui.val} \cup {[tui.val EXCEPT ![Head(ModeTasks)][field] = text] : field \in Hands[hand].changes,
                                                                                 text \in Hands[hand].types}
\* The task under the cursor stays under it, or the row does; another list starts at its top.
CursorAfter(rows) ==
  LET here == ~tui.loading /\ tui.cur \in ToSet(tui.rows)
      row == Place(tui.rows, tui.cur)
  IN  CASE rows = <<>> -> Nothing
        [] rows # <<>> /\ here /\ tui.cur \in ToSet(rows) -> tui.cur
        [] rows # <<>> /\ here /\ tui.cur \notin ToSet(rows) -> rows[IF row < Len(rows) THEN row ELSE Len(rows)]
        [] OTHER -> Head(rows)

\* A re-read lands: other rows, a field changed elsewhere, a selection pruned.
RereadLands ==
  /\ rereads < MaxRereads /\ ~tui.quit
  /\ \E kept \in SUBSET ToSet(ModeTasks), changed \in ValuesAfter :
       LET rows == RowsLeft(kept)
       IN  /\ kept = ToSet(ModeTasks) \/ changed = tui.val
           /\ tui' = [Quietly(tui) EXCEPT !.rows = rows, !.val = changed, !.picked = @ \cap ToSet(rows),
                         !.cur = CursorAfter(rows),
                         !.loading = FALSE, !.ready = TRUE, !.seeded = TRUE, !.signIn = FALSE]
  /\ rereads' = rereads + 1
  /\ UNCHANGED <<hand, awaited, aimed>>

ModeNext == PressKey \/ PageAnswered \/ UndoAnswered \/ SignInNeeded \/ RereadLands
ModeSpec == ModeInit /\ [][ModeNext]_modeVars

-----------------------------------------------------------------------------
(* Properties.                                                             *)

\* A change goes only to tasks that were selected, under the cursor or overdue
\* on screen when the key that led to it was pressed, whatever was re-read while
\* the question was open; a field's editor sends only to a task still shown.
NamedIsSent ==
  \A w \in tui.sent :
    /\ w.ids \subseteq aimed.targets \cup aimed.cursor \cup aimed.overdue
    /\ w.op = "Edit" /\ w.field \notin {"Due", "Assignee"} => w.ids \subseteq ToSet(tui.rows)

=============================================================================
