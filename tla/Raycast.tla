------------------------------- MODULE Raycast -------------------------------
(***************************************************************************)
(* The Raycast extension (raycast/ms-todo/src).  Its setup screen          *)
(* (cli-setup.tsx, cli.ts): the CLI is found, asked how it is, and asked   *)
(* to sync when the cache is empty; only then are the tasks shown.         *)
(* `operation` numbers what was started last, and an answer for anything   *)
(* older is dropped.  A screen is drawn when state is set and not when a   *)
(* ref is: `retryDrawn` is what it last drew.                              *)
(*                                                                         *)
(* Its task list, task detail, edit form and quick-add form: each a React  *)
(* component that runs the CLI and sets state when it answers, in any      *)
(* order.  An effect runs after the state it depends on was set and drawn, *)
(* and cancels the answer of the one before.  One task, and the daemon's   *)
(* cache behind the CLI; every change of the cache is a version.  A write  *)
(* that is run may still be answered with an error: a timeout, or an       *)
(* answer that can't be read.                                              *)
(***************************************************************************)
EXTENDS Naturals, FiniteSets

CONSTANTS CliPaths,      \* values of the CLI Path preference, each with its own CLI
          MaxPrefs,      \* bound: changes of the preference
          MaxRetryKeys,    \* bound: presses of Retry and of Start Initial Sync
          MaxDaemonMoves \* bound: changes of the daemons behind the CLIs

VARIABLES pref,          \* the preference now
          setup,         \* [path, phase]: React state
          effectDue,     \* the preference or the revision changed: the effect is to run
          operation,     \* ref: what was started last
          checks,        \* doctor runs under way: [op, path]
          syncRun,       \* startSync under way: [op, path, step]; step "off" when none
          retryDrawn,    \* Retry Setup Check is on the screen
          backend,       \* path |-> how its CLI, sign-in and cache are
          setupSpent

setupVars == <<pref, setup, effectDue, operation, checks, syncRun, retryDrawn, backend, setupSpent>>

NoSync == [op |-> 0, path |-> 0, step |-> "off"]
Backends == [found : BOOLEAN, up : BOOLEAN, signed : BOOLEAN, cache : {"initial", "ready"}, busy : BOOLEAN]

SetupInit ==
  /\ pref \in CliPaths /\ setup = [path |-> pref, phase |-> "checking"] /\ effectDue = TRUE
  /\ operation = 0 /\ checks = {} /\ syncRun = NoSync /\ retryDrawn = FALSE
  /\ backend \in [CliPaths -> {b \in Backends : (b.busy => b.up /\ b.signed) /\ (b.up => b.found)}]
  /\ setupSpent = [prefs |-> 0, retries |-> 0, moves |-> 0]

\* What a doctor report means (cli.ts): cached tasks count, whoever is signed in.
setupPhase(b) ==
  CASE ~b.up -> "unavailable"
    [] b.cache = "ready" -> "ready"
    [] ~b.signed -> "sign-in"
    [] OTHER -> "sync"

stateFromDoctor(path, b) ==
  [path |-> path, phase |-> CASE setupPhase(b) = "unavailable" -> "error"
                              [] setupPhase(b) = "sync" /\ b.busy -> "syncing"
                              [] OTHER -> setupPhase(b)]

\* What is on the screen: nothing of another path's.
Visible(s, p) == IF s.path = p THEN s.phase ELSE "checking"
Retriable(s, p, running) == Visible(s, p) \notin {"checking", "ready"} /\ (Visible(s, p) = "syncing" => ~running)
Draw(s, running) == setup' = s /\ retryDrawn' = Retriable(s, pref, running)

\* The effect: what was under way is cancelled, and the CLI is asked.
CheckSetup ==
  /\ effectDue /\ effectDue' = FALSE
  /\ operation' = operation + 1
  /\ IF backend[pref].found
     THEN /\ Draw([path |-> pref, phase |-> "checking"], syncRun.step # "off")
          /\ checks' = checks \cup {[op |-> operation', path |-> pref]}
     ELSE Draw([path |-> pref, phase |-> "install"], syncRun.step # "off") /\ UNCHANGED checks
  /\ UNCHANGED <<pref, syncRun, backend, setupSpent>>

IsCurrent(op) == op = operation

ReportOn(c) == c.path

inspectSetup(c) ==
  /\ c \in checks /\ checks' = checks \ {c}
  /\ IF IsCurrent(c.op)
     THEN \E s \in {stateFromDoctor(ReportOn(c), backend[c.path]), [path |-> c.path, phase |-> "error"]} :
            Draw(s, syncRun.step # "off")
     ELSE UNCHANGED <<setup, retryDrawn>>
  /\ UNCHANGED <<pref, effectDue, operation, syncRun, backend, setupSpent>>

startSync ==
  /\ ~effectDue /\ Visible(setup, pref) = "sync" /\ syncRun.step = "off"
  /\ setupSpent.retries < MaxRetryKeys
  /\ setupSpent' = [setupSpent EXCEPT !.retries = @ + 1]
  /\ operation' = operation + 1
  /\ IF backend[pref].found
     THEN /\ syncRun' = [op |-> operation', path |-> pref, step |-> "sync"]
          /\ Draw([path |-> pref, phase |-> "syncing"], TRUE)
     ELSE /\ UNCHANGED syncRun /\ Draw([path |-> pref, phase |-> "sync"], FALSE)
  /\ UNCHANGED <<pref, effectDue, checks, backend>>

\* mutant: a sync that was overtaken leaves the screen as it is
MutantFinally(s) ==
  /\ syncRun' = NoSync /\ UNCHANGED effectDue
  /\ IF IsCurrent(syncRun.op) THEN Draw(s, FALSE) ELSE UNCHANGED <<setup, retryDrawn>>
\* The end of startSync: s if it is still what was started last, else another check.
Finally(s) ==
  /\ syncRun' = NoSync
  /\ IF IsCurrent(syncRun.op) THEN Draw(s, FALSE) /\ UNCHANGED effectDue
     ELSE UNCHANGED <<setup, retryDrawn>> /\ effectDue' = TRUE

syncAndWait(ok) ==
  /\ syncRun.step = "sync"
  /\ LET b == backend[syncRun.path] IN
     IF ok
     THEN /\ b.up /\ b.signed
          /\ backend' = [backend EXCEPT ![syncRun.path] = [b EXCEPT !.cache = "ready", !.busy = FALSE]]
          /\ IF IsCurrent(syncRun.op)
             THEN syncRun' = [syncRun EXCEPT !.step = "doctor"] /\ UNCHANGED <<setup, retryDrawn, effectDue>>
             ELSE Finally(setup)
     ELSE UNCHANGED backend /\ Finally([path |-> syncRun.path, phase |-> "sync"])
  /\ UNCHANGED <<pref, operation, checks, setupSpent>>

AfterSync(ok) ==
  /\ syncRun.step = "doctor"
  /\ Finally(IF ok THEN stateFromDoctor(syncRun.path, backend[syncRun.path]) ELSE [path |-> syncRun.path, phase |-> "sync"])
  /\ UNCHANGED <<pref, operation, checks, backend, setupSpent>>

PressRetry ==
  /\ retryDrawn /\ ~effectDue /\ effectDue' = TRUE
  /\ setupSpent.retries < MaxRetryKeys
  /\ setupSpent' = [setupSpent EXCEPT !.retries = @ + 1]
  /\ UNCHANGED <<pref, setup, operation, checks, syncRun, retryDrawn, backend>>

\* The preference is changed: the screen is drawn again, and then the effect runs.
ChangePath ==
  /\ setupSpent.prefs < MaxPrefs
  /\ \E p \in CliPaths \ {pref} : pref' = p
  /\ setupSpent' = [setupSpent EXCEPT !.prefs = @ + 1]
  /\ effectDue' = TRUE /\ retryDrawn' = Retriable(setup, pref', syncRun.step # "off")
  /\ UNCHANGED <<setup, operation, checks, syncRun, backend>>

\* Installed or removed, stopped, signed in or out, a pass of its own.
DaemonMoves ==
  /\ setupSpent.moves < MaxDaemonMoves
  /\ setupSpent' = [setupSpent EXCEPT !.moves = @ + 1]
  /\ \E p \in CliPaths, b \in Backends :
       /\ (b.busy => b.up /\ b.signed) /\ (b.up => b.found)
       /\ backend' = [backend EXCEPT ![p] = b]
  /\ UNCHANGED <<pref, setup, effectDue, operation, checks, syncRun, retryDrawn>>

SetupNext ==
  \/ CheckSetup \/ startSync \/ PressRetry \/ ChangePath \/ DaemonMoves
  \/ \E c \in checks : inspectSetup(c)
  \/ \E ok \in BOOLEAN : syncAndWait(ok) \/ AfterSync(ok)

SetupSpec == SetupInit /\ [][SetupNext]_setupVars

-----------------------------------------------------------------------------

\* The setup screen is never left with nothing under way and no way on: while
\* it only says that it checks or syncs, something is under way whose end
\* draws it again, or Retry is on it (startSync's `finally`).
NeverStuck ==
  /\ (Visible(setup, pref) = "checking" => effectDue \/ \E c \in checks : c.op = operation)
  /\ (Visible(setup, pref) = "syncing" => effectDue \/ syncRun.step # "off" \/ retryDrawn)

-----------------------------------------------------------------------------
(* The tasks: their list, detail and forms.                                *)

CONSTANTS MaxPresses,     \* bound: what the user does
          MaxCliTrouble,  \* bound: CLI runs that fail
          MaxElsewhere    \* bound: changes by another client

VARIABLES shared,      \* the daemon's task: [done, day, gone, ver]
          list,       \* the list: selection, result, error, effect due, writes under way
          listLoad,   \* its load under way
          detail,     \* the detail pushed over it
          taskLoad, dayLoad,   \* its two loads under way
          form,       \* the edit form pushed over that
          cliWrites,  \* writes under way, each a CLI run
          ownVer,     \* history: the version of the last write that was answered as done
          raySpent

rayVars == <<shared, list, listLoad, detail, taskLoad, dayLoad, form, cliWrites, ownVer, raySpent>>

Selections == {"open", "completed", "day"}
NoLoad == [on |-> FALSE, key |-> "", got |-> <<>>]
NoRows == [key |-> "", rows |-> <<>>]
Closed == [open |-> FALSE, n |-> 0, task |-> <<>>, inDay |-> "", loading |-> FALSE, effect |-> FALSE,
           writing |-> FALSE, asking |-> FALSE, own |-> 0]
NoForm == [open |-> FALSE, n |-> 0, busy |-> FALSE]

RayInit ==
  /\ shared \in [done : {FALSE}, day : BOOLEAN, gone : {FALSE}, ver : {0}]
  /\ list = [sel |-> "open", result |-> NoRows, error |-> FALSE, effect |-> TRUE, busy |-> FALSE]
  /\ listLoad = NoLoad /\ detail = Closed /\ taskLoad = NoLoad /\ dayLoad = NoLoad
  /\ form = NoForm
  /\ cliWrites = {} /\ ownVer = 0
  /\ raySpent = [presses |-> 0, trouble |-> 0, others |-> 0]

Press == raySpent.presses < MaxPresses /\ raySpent' = [raySpent EXCEPT !.presses = @ + 1]
CliTrouble == raySpent.trouble < MaxCliTrouble /\ raySpent' = [raySpent EXCEPT !.trouble = @ + 1]

-----------------------------------------------------------------------------
(* The list.                                                               *)

\* browseQuery and myDay: what the view holds of the cache.
InView(key) ==
  ~shared.gone /\ CASE key = "open" -> ~shared.done [] key = "completed" -> shared.done [] key = "day" -> shared.day

visibleResult == IF list.result.key = list.sel THEN list.result ELSE NoRows
Row == visibleResult.rows
Shown == Row # <<>> /\ Row[1].in
OnList == ~detail.open

ListEffect ==
  /\ list.effect /\ list' = [list EXCEPT !.effect = FALSE]
  /\ listLoad' = [on |-> TRUE, key |-> list.sel, got |-> <<>>]
  /\ UNCHANGED <<shared, detail, taskLoad, dayLoad, form, cliWrites, ownVer, raySpent>>

listTasks ==
  /\ listLoad.on /\ listLoad.got = <<>>
  /\ listLoad' = [listLoad EXCEPT !.got = <<[in |-> InView(listLoad.key), key |-> listLoad.key, done |-> shared.done, ver |-> shared.ver]>>]
  /\ UNCHANGED <<shared, list, detail, taskLoad, dayLoad, form, cliWrites, ownVer, raySpent>>

ListAnswered ==
  /\ listLoad.on /\ listLoad.got # <<>> /\ listLoad' = NoLoad
  /\ list' = [list EXCEPT !.result = [key |-> listLoad.key, rows |-> listLoad.got], !.error = FALSE]
  /\ UNCHANGED <<shared, detail, taskLoad, dayLoad, form, cliWrites, ownVer, raySpent>>

ListFailed ==
  /\ listLoad.on /\ CliTrouble /\ listLoad' = NoLoad
  /\ list' = [list EXCEPT !.result = NoRows, !.error = TRUE]
  /\ UNCHANGED <<shared, detail, taskLoad, dayLoad, form, cliWrites, ownVer>>

Select(k) ==
  /\ OnList /\ k # list.sel /\ Press
  /\ list' = [list EXCEPT !.sel = k, !.error = FALSE, !.effect = TRUE]
  /\ UNCHANGED <<shared, listLoad, detail, taskLoad, dayLoad, form, cliWrites, ownVer>>

MutantRefreshed(l) == l   \* mutant: the rows are kept
Refreshed(l) == [l EXCEPT !.result = NoRows, !.error = FALSE, !.effect = TRUE]

Refresh ==
  /\ OnList /\ Press /\ list' = Refreshed(list)
  /\ UNCHANGED <<shared, listLoad, detail, taskLoad, dayLoad, form, cliWrites, ownVer>>

\* A write, and which detail and form were open: another one's refs and state are its own.
CliWrite(by, what, to) == [id |-> raySpent.presses, by |-> by, what |-> what, to |-> to, d |-> detail.n, f |-> form.n, ran |-> FALSE]

\* Complete or Reopen, by what the row shows.
changeStatus ==
  /\ OnList /\ Shown /\ ~list.busy /\ Press
  /\ list' = [list EXCEPT !.busy = TRUE]
  /\ cliWrites' = cliWrites \cup {CliWrite("list", "done", ~Row[1].done)}
  /\ UNCHANGED <<shared, listLoad, detail, taskLoad, dayLoad, form, ownVer>>

\* A suggestion for My Day, taken.
addSuggested ==
  /\ OnList /\ list.sel = "day" /\ Row # <<>> /\ ~Row[1].in /\ ~list.busy /\ Press
  /\ list' = [list EXCEPT !.busy = TRUE]
  /\ cliWrites' = cliWrites \cup {CliWrite("list", "day", TRUE)}
  /\ UNCHANGED <<shared, listLoad, detail, taskLoad, dayLoad, form, ownVer>>

-----------------------------------------------------------------------------
(* The detail, and the edit form over it.                                  *)

OpenDetail ==
  /\ OnList /\ Shown /\ Press
  /\ detail' = [Closed EXCEPT !.open = TRUE, !.n = raySpent.presses, !.loading = TRUE, !.effect = TRUE]
  /\ UNCHANGED <<shared, list, listLoad, taskLoad, dayLoad, form, cliWrites, ownVer>>

DetailEffect ==
  /\ detail.effect /\ detail' = [detail EXCEPT !.effect = FALSE, !.loading = TRUE, !.inDay = ""]
  /\ taskLoad' = [NoLoad EXCEPT !.on = TRUE] /\ dayLoad' = [NoLoad EXCEPT !.on = TRUE]
  /\ UNCHANGED <<shared, list, listLoad, form, cliWrites, ownVer, raySpent>>

\* `tasks show` fails for a task that is gone.
showTask ==
  /\ taskLoad.on /\ taskLoad' = NoLoad
  /\ detail' = [detail EXCEPT !.loading = FALSE, !.task = IF shared.gone THEN <<>> ELSE <<[done |-> shared.done, ver |-> shared.ver]>>]
  /\ UNCHANGED <<shared, list, listLoad, dayLoad, form, cliWrites, ownVer, raySpent>>

ReadMyDay ==
  /\ dayLoad.on /\ dayLoad' = NoLoad
  /\ detail' = [detail EXCEPT !.inDay = IF shared.day /\ ~shared.gone THEN "yes" ELSE "no"]
  /\ UNCHANGED <<shared, list, listLoad, taskLoad, form, cliWrites, ownVer, raySpent>>

Actionable == detail.open /\ detail.task # <<>> /\ ~detail.loading /\ ~form.open

\* perform(): one write of the detail's at a time.
perform(what, to) ==
  /\ Actionable /\ ~detail.writing /\ Press
  /\ detail' = [detail EXCEPT !.writing = TRUE, !.asking = FALSE]
  /\ cliWrites' = cliWrites \cup {CliWrite("detail", what, to)}
  /\ UNCHANGED <<shared, list, listLoad, taskLoad, dayLoad, form, ownVer>>

DetailStatus == detail.task # <<>> /\ ~detail.asking /\ perform("done", ~detail.task[1].done)
DetailDay == detail.inDay # "" /\ ~detail.asking /\ perform("day", detail.inDay = "no")

AskDelete ==
  /\ Actionable /\ ~detail.writing /\ ~detail.asking /\ Press
  /\ detail' = [detail EXCEPT !.asking = TRUE]
  /\ UNCHANGED <<shared, list, listLoad, taskLoad, dayLoad, form, cliWrites, ownVer>>
ConfirmDelete == detail.asking /\ perform("gone", TRUE)
CancelDelete ==
  /\ detail.asking /\ detail' = [detail EXCEPT !.asking = FALSE]
  /\ UNCHANGED <<shared, list, listLoad, taskLoad, dayLoad, form, cliWrites, ownVer, raySpent>>

RefreshDetail ==
  /\ detail.open /\ ~form.open /\ ~detail.asking /\ Press
  /\ detail' = [detail EXCEPT !.effect = TRUE]
  /\ UNCHANGED <<shared, list, listLoad, taskLoad, dayLoad, form, cliWrites, ownVer>>

\* The user goes back: the component's loads are cancelled, its write goes on.
Back ==
  /\ detail.open /\ ~detail.asking /\ Press
  /\ IF form.open THEN form' = NoForm /\ UNCHANGED <<detail, taskLoad, dayLoad>>
     ELSE detail' = Closed /\ taskLoad' = NoLoad /\ dayLoad' = NoLoad /\ UNCHANGED form
  /\ UNCHANGED <<shared, list, listLoad, cliWrites, ownVer>>

EditTask ==
  /\ Actionable /\ ~detail.asking /\ Press /\ form' = [open |-> TRUE, n |-> raySpent.presses, busy |-> FALSE]
  /\ UNCHANGED <<shared, list, listLoad, detail, taskLoad, dayLoad, cliWrites, ownVer>>

save ==
  /\ form.open /\ ~form.busy /\ Press /\ form' = [form EXCEPT !.busy = TRUE]
  /\ cliWrites' = cliWrites \cup {CliWrite("form", "edit", TRUE)}
  /\ UNCHANGED <<shared, list, listLoad, detail, taskLoad, dayLoad, ownVer>>

-----------------------------------------------------------------------------
(* Writes: the CLI runs, and answers.                                      *)

Changed(c, w) == IF w.what = "edit" THEN [c EXCEPT !.ver = @ + 1] ELSE [c EXCEPT ![w.what] = w.to, !.ver = @ + 1]

RunWrite(w) ==
  /\ w \in cliWrites /\ ~w.ran /\ ~shared.gone
  /\ shared' = Changed(shared, w)
  /\ cliWrites' = (cliWrites \ {w}) \cup {[w EXCEPT !.ran = TRUE]}
  /\ UNCHANGED <<list, listLoad, detail, taskLoad, dayLoad, form, ownVer, raySpent>>

\* The component that wrote, when it is still there, may write again.
Settles(w) ==
  /\ detail' = IF w.by = "detail" /\ detail.n = w.d THEN [detail EXCEPT !.writing = FALSE] ELSE detail
  /\ form' = IF w.by = "form" /\ form.n = w.f THEN [form EXCEPT !.busy = FALSE] ELSE form
ListAfter(w) == IF w.by = "list" THEN [list EXCEPT !.busy = FALSE] ELSE list

\* The detail that wrote, or whose form did, reads its task again.
Reread(d, w) ==
  IF d.open /\ d.n = w.d /\ w.by # "list"
  THEN [d EXCEPT !.task = <<>>, !.loading = TRUE, !.effect = TRUE, !.own = shared.ver,
                 !.writing = IF w.by = "detail" THEN FALSE ELSE @]
  ELSE d

\* Done, once the toast that says so was shown, which is awaited first: the list is read again
\* and so is the detail.  Between RunWrite and this the answer is on its way, or the toast is,
\* and nothing but the write's own flag tells.  pop() takes the view that is on top now,
\* whichever it is.
WriteDone(w) ==
  /\ w \in cliWrites /\ w.ran /\ cliWrites' = cliWrites \ {w}
  /\ list' = Refreshed(ListAfter(w))
  /\ ownVer' = shared.ver
  /\ LET pops == w.by = "form" \/ w.what = "gone"
         left == IF w.what = "gone" THEN detail ELSE Reread(detail, w)
     IN CASE pops /\ form.open -> form' = NoForm /\ detail' = left /\ UNCHANGED <<taskLoad, dayLoad>>
          [] pops /\ ~form.open -> detail' = Closed /\ taskLoad' = NoLoad /\ dayLoad' = NoLoad /\ UNCHANGED form
          [] ~pops -> detail' = left /\ UNCHANGED <<taskLoad, dayLoad, form>>
  /\ UNCHANGED <<shared, listLoad, raySpent>>

\* A timeout, an answer that can't be read, a refusal: run or not, the failure is all it sees.
WriteFailed(w) ==
  /\ w \in cliWrites /\ CliTrouble /\ cliWrites' = cliWrites \ {w}
  /\ list' = ListAfter(w)
  /\ Settles(w)
  /\ UNCHANGED <<shared, listLoad, taskLoad, dayLoad, ownVer>>

\* Refused: the task is gone.
WriteRefused(w) ==
  /\ w \in cliWrites /\ ~w.ran /\ shared.gone /\ cliWrites' = cliWrites \ {w}
  /\ list' = ListAfter(w)
  /\ Settles(w)
  /\ UNCHANGED <<shared, listLoad, taskLoad, dayLoad, ownVer, raySpent>>

\* Quick add: its write touches no task here; the list is read again.
submit ==
  /\ OnList /\ Press /\ shared' = [shared EXCEPT !.ver = @ + 1]
  /\ list' = Refreshed(list) /\ ownVer' = shared'.ver
  /\ UNCHANGED <<listLoad, detail, taskLoad, dayLoad, form, cliWrites>>

Elsewhere ==
  /\ raySpent.others < MaxElsewhere /\ raySpent' = [raySpent EXCEPT !.others = @ + 1]
  /\ \E what \in {"done", "day"} : shared' = [shared EXCEPT ![what] = ~@, !.ver = @ + 1]
  /\ UNCHANGED <<list, listLoad, detail, taskLoad, dayLoad, form, cliWrites, ownVer>>

RayNext ==
  \/ ListEffect \/ listTasks \/ ListAnswered \/ ListFailed \/ Refresh \/ changeStatus \/ addSuggested
  \/ OpenDetail \/ DetailEffect \/ showTask \/ ReadMyDay \/ DetailStatus \/ DetailDay
  \/ AskDelete \/ ConfirmDelete \/ CancelDelete \/ RefreshDetail \/ Back \/ EditTask \/ save
  \/ submit \/ Elsewhere
  \/ \E k \in Selections : Select(k)
  \/ \E w \in cliWrites : RunWrite(w) \/ WriteDone(w) \/ WriteFailed(w) \/ WriteRefused(w)

RaySpec == RayInit /\ [][RayNext]_rayVars

-----------------------------------------------------------------------------

\* From its toast on, a list at rest shows at least what the extension's own last confirmed
\* write left: the load of before the write doesn't have the last word (refresh).
FreshAfterOwn ==
  (Row # <<>> /\ ~list.effect /\ ~listLoad.on) => Row[1].ver >= ownVer

=============================================================================
