----------------------------- MODULE FrontProofs -----------------------------
(***************************************************************************)
(* Proofs about the clients' screens, for any number of presses, answers   *)
(* in any order, failures and changes elsewhere: Raycast's list is not     *)
(* older than what Raycast itself did, its setup screen never waits for    *)
(* nothing, the terminal's suggestion is for the task it is shown on, and  *)
(* the detail pane's cursor is on what it shows.                           *)
(***************************************************************************)
EXTENDS Raycast, TuiTriage, TuiDetail, TuiModes, FiniteSetTheorems, TLAPS

(* Raycast's list.                                                         *)

\* The fields of the records the list is drawn from.
RayFieldsOK ==
  /\ DOMAIN shared = {"done", "day", "gone", "ver"} /\ shared.ver \in Nat /\ ownVer \in Nat
  /\ DOMAIN list = {"sel", "result", "error", "effect", "busy"}
  /\ DOMAIN list.result = {"key", "rows"}
  /\ DOMAIN listLoad = {"on", "key", "got"}

Recent(rows) == rows # <<>> => rows[1].ver >= ownVer

\* Unless it is about to be read again, nothing older than our last write is on its way to
\* the list, and nothing older is on it when nothing is on its way.
ListOK ==
  /\ ownVer <= shared.ver
  /\ ~list.effect => /\ listLoad.on => Recent(listLoad.got)
                     /\ ~listLoad.on => Recent(list.result.rows)

\* What a write changes.
WritesOK == \A w \in cliWrites : "what" \in DOMAIN w /\ w.what \in {"done", "day", "gone", "edit"}

RayInv == RayFieldsOK /\ ListOK

LEMMA RayStarts == RayInit => RayInv
<1> SUFFICES ASSUME RayInit PROVE RayInv
  OBVIOUS
<1>1. shared.ver \in Nat /\ shared.ver = 0 /\ DOMAIN shared = {"done", "day", "gone", "ver"}
  BY DEF RayInit
<1>2. ownVer = 0 /\ DOMAIN list = {"sel", "result", "error", "effect", "busy"} /\ list.effect
      /\ DOMAIN list.result = {"key", "rows"}
  BY DEF RayInit, NoRows
<1>3. DOMAIN listLoad = {"on", "key", "got"} /\ ~listLoad.on
  BY DEF RayInit, NoLoad
<1> QED
  BY <1>1, <1>2, <1>3 DEF RayInv, RayFieldsOK, ListOK

LEMMA WritesKept == WritesOK /\ [RayNext]_rayVars => WritesOK'
<1> SUFFICES ASSUME WritesOK, [RayNext]_rayVars PROVE WritesOK'
  OBVIOUS
<1>a. ASSUME cliWrites' \subseteq cliWrites PROVE WritesOK'
  BY <1>a DEF WritesOK
<1>b. ASSUME NEW by, NEW what \in {"done", "day", "gone", "edit"}, NEW to,
             cliWrites' = cliWrites \cup {CliWrite(by, what, to)}
      PROVE  WritesOK'
  BY <1>b DEF WritesOK, CliWrite
<1>1. CASE ListEffect \/ listTasks \/ ListAnswered \/ ListFailed \/ Refresh \/ submit \/ Elsewhere
  BY <1>1, <1>a DEF ListEffect, listTasks, ListAnswered, ListFailed, Refresh, submit, Elsewhere
<1>2. ASSUME NEW k \in Selections, Select(k) PROVE WritesOK'
  BY <1>2, <1>a DEF Select
<1>3. CASE changeStatus
  BY <1>3, <1>b DEF changeStatus
<1>4. CASE addSuggested
  BY <1>4, <1>b DEF addSuggested
<1>5. CASE OpenDetail \/ DetailEffect \/ showTask \/ ReadMyDay \/ AskDelete \/ CancelDelete \/ RefreshDetail
           \/ Back \/ EditTask
  BY <1>5, <1>a DEF OpenDetail, DetailEffect, showTask, ReadMyDay, AskDelete, CancelDelete, RefreshDetail,
                    Back, EditTask
<1>6. CASE DetailStatus
  BY <1>6, <1>b DEF DetailStatus, perform
<1>7. CASE DetailDay
  BY <1>7, <1>b DEF DetailDay, perform
<1>8. CASE ConfirmDelete
  BY <1>8, <1>b DEF ConfirmDelete, perform
<1>9. CASE save
  BY <1>9, <1>b DEF save
<1>10. ASSUME NEW w \in cliWrites, RunWrite(w) PROVE WritesOK'
  BY <1>10 DEF RunWrite, WritesOK
<1>11. ASSUME NEW w \in cliWrites, WriteDone(w) \/ WriteFailed(w) \/ WriteRefused(w) PROVE WritesOK'
  BY <1>11, <1>a DEF WriteDone, WriteFailed, WriteRefused
<1>12. CASE UNCHANGED rayVars
  BY <1>12, <1>a DEF rayVars
<1> QED
  BY <1>1, <1>2, <1>3, <1>4, <1>5, <1>6, <1>7, <1>8, <1>9, <1>10, <1>11, <1>12 DEF RayNext

LEMMA RayKept == WritesOK /\ RayInv /\ [RayNext]_rayVars => RayInv'
<1> SUFFICES ASSUME WritesOK, RayInv, [RayNext]_rayVars PROVE RayInv'
  OBVIOUS
<1> USE DEF RayInv, RayFieldsOK
\* What changes neither the list, its load, nor our own version keeps what they say.
<1>a. ASSUME UNCHANGED <<list, listLoad, ownVer>>,
             DOMAIN shared' = DOMAIN shared /\ shared'.ver \in Nat /\ shared'.ver >= shared.ver
      PROVE  RayInv'
  BY <1>a DEF ListOK, Recent
<1>d. ASSUME UNCHANGED <<shared, list, listLoad, ownVer>> PROVE RayInv'
  BY <1>a, <1>d
\* A list that is read again, with what it holds of its own kind.
<1>b. ASSUME list'.effect, DOMAIN list' = DOMAIN list, DOMAIN list'.result = {"key", "rows"},
             UNCHANGED listLoad, DOMAIN shared' = DOMAIN shared, shared'.ver \in Nat,
             ownVer' \in Nat, ownVer' <= shared'.ver
      PROVE  RayInv'
  BY <1>b DEF ListOK
\* A list of which only other fields change.
<1>c. ASSUME DOMAIN list' = DOMAIN list, list'.effect = list.effect, list'.result = list.result,
             UNCHANGED <<shared, listLoad, ownVer>>
      PROVE  RayInv'
  BY <1>c DEF ListOK, Recent
<1>1. CASE ListEffect
  BY <1>1 DEF ListEffect, ListOK, Recent
<1>2. CASE listTasks
  BY <1>2 DEF listTasks, ListOK, Recent
<1>3. CASE ListAnswered
  BY <1>3 DEF ListAnswered, ListOK, Recent, NoLoad
<1>4. CASE ListFailed
  BY <1>4 DEF ListFailed, ListOK, Recent, NoLoad, NoRows
<1>5. ASSUME NEW k \in Selections, Select(k) PROVE RayInv'
  BY <1>5, <1>b DEF Select, ListOK
<1>6. DOMAIN Refreshed(list) = DOMAIN list /\ Refreshed(list).effect /\ Refreshed(list).result = NoRows
      /\ DOMAIN NoRows = {"key", "rows"}
  BY DEF Refreshed, NoRows
<1>7. CASE Refresh
  BY <1>6, <1>7, <1>b DEF Refresh, ListOK
<1>8. CASE changeStatus \/ addSuggested
  BY <1>8, <1>c DEF changeStatus, addSuggested
<1>9. CASE OpenDetail \/ DetailEffect \/ showTask \/ ReadMyDay \/ AskDelete \/ CancelDelete \/ RefreshDetail
           \/ Back \/ EditTask \/ save
  <2>1. UNCHANGED <<shared, list, listLoad, ownVer>>
    BY <1>9 DEF OpenDetail, DetailEffect, showTask, ReadMyDay, AskDelete, CancelDelete, RefreshDetail,
                Back, EditTask, save
  <2> QED
    BY <1>d, <2>1
<1>10. CASE DetailStatus \/ DetailDay \/ ConfirmDelete
  <2>1. UNCHANGED <<shared, list, listLoad, ownVer>>
    BY <1>10 DEF DetailStatus, DetailDay, ConfirmDelete, perform
  <2> QED
    BY <1>d, <2>1
<1>11. CASE submit
  <2>1. DOMAIN shared' = DOMAIN shared /\ shared'.ver = shared.ver + 1 /\ ownVer' = shared'.ver
    BY <1>11 DEF submit
  <2>2. list' = Refreshed(list) /\ UNCHANGED listLoad
    BY <1>11 DEF submit
  <2>3. DOMAIN list' = DOMAIN list /\ list'.effect /\ DOMAIN list'.result = {"key", "rows"}
    BY <1>6, <2>2
  <2> QED
    BY <1>b, <2>1, <2>2, <2>3
<1>12. CASE Elsewhere
  <2>1. ASSUME NEW what \in {"done", "day"}, shared' = [shared EXCEPT ![what] = ~@, !.ver = @ + 1]
        PROVE  DOMAIN shared' = DOMAIN shared /\ shared'.ver = shared.ver + 1
    BY <2>1
  <2>2. DOMAIN shared' = DOMAIN shared /\ shared'.ver = shared.ver + 1
    BY <1>12, <2>1 DEF Elsewhere
  <2>3. UNCHANGED <<list, listLoad, ownVer>>
    BY <1>12 DEF Elsewhere
  <2> QED
    BY <1>a, <2>2, <2>3
<1>13. ASSUME NEW w \in cliWrites, RunWrite(w) PROVE RayInv'
  <2>1. DOMAIN shared' = DOMAIN shared
    BY <1>13 DEF RunWrite, Changed
  <2>2. shared'.ver = shared.ver + 1
    BY <1>13 DEF RunWrite, Changed, WritesOK
  <2> QED
    BY <1>13, <1>a, <2>1, <2>2 DEF RunWrite
<1>14. ASSUME NEW w PROVE /\ DOMAIN ListAfter(w) = DOMAIN list
                          /\ ListAfter(w).effect = list.effect /\ ListAfter(w).result = list.result
  BY DEF ListAfter
<1>15. ASSUME NEW w \in cliWrites, WriteDone(w) PROVE RayInv'
  <2>1. DOMAIN list' = DOMAIN list /\ list'.effect /\ list'.result = NoRows
    BY <1>14, <1>15 DEF WriteDone, Refreshed
  <2>2. ownVer' = shared.ver /\ UNCHANGED <<shared, listLoad>>
    BY <1>15 DEF WriteDone
  <2>3. DOMAIN list'.result = {"key", "rows"}
    BY <1>6, <2>1
  <2> QED
    BY <1>b, <2>1, <2>2, <2>3
<1>16. ASSUME NEW w \in cliWrites, WriteFailed(w) \/ WriteRefused(w) PROVE RayInv'
  BY <1>14, <1>16, <1>c DEF WriteFailed, WriteRefused
<1>17. CASE UNCHANGED rayVars
  BY <1>17, <1>a DEF rayVars
<1> QED
  BY <1>1, <1>2, <1>3, <1>4, <1>5, <1>7, <1>8, <1>9, <1>10, <1>11, <1>12, <1>13, <1>15, <1>16, <1>17 DEF RayNext

\* A list at rest shows at least what Raycast's own last confirmed write left (task-list.tsx).
THEOREM OwnWritesShown == RaySpec => []FreshAfterOwn
<1>1. RayInv => FreshAfterOwn
  BY DEF RayInv, ListOK, Recent, FreshAfterOwn, Row, visibleResult, NoRows, RayFieldsOK
<1>2. RayInit => WritesOK
  BY DEF RayInit, WritesOK
<1> QED
  BY RayStarts, RayKept, WritesKept, <1>1, <1>2, PTL DEF RaySpec

-----------------------------------------------------------------------------
(* Raycast's setup screen.                                                 *)

\* The fields of the records.
SetupFieldsOK ==
  /\ DOMAIN setup = {"path", "phase"}
  /\ DOMAIN syncRun = {"op", "path", "step"} /\ syncRun.step \in {"off", "sync", "doctor"}
  /\ operation \in Nat
  /\ \A c \in checks : c.op \in Nat /\ c.op <= operation
  /\ syncRun.op \in Nat /\ syncRun.op <= operation

\* Unless the screen is about to be checked again, it and what was started last are about
\* the path that is set.
PathOK ==
  ~effectDue => /\ setup.path = pref
                /\ \A c \in checks : c.op = operation => c.path = pref
                /\ syncRun.step # "off" /\ syncRun.op = operation => syncRun.path = pref

SetupInv == SetupFieldsOK /\ PathOK /\ NeverStuck

LEMMA SetupStarts == SetupInit => SetupInv
  BY DEF SetupInit, SetupInv, SetupFieldsOK, PathOK, NeverStuck, NoSync

\* What a doctor report never says.
LEMMA ReportKnown ==
  ASSUME NEW path, NEW b
  PROVE  LET s == stateFromDoctor(path, b)
         IN  DOMAIN s = {"path", "phase"} /\ s.path = path /\ s.phase # "checking"
  BY DEF stateFromDoctor, setupPhase

LEMMA SetupKept == SetupInv /\ [SetupNext]_setupVars => SetupInv'
<1> SUFFICES ASSUME SetupInv, [SetupNext]_setupVars PROVE SetupInv'
  OBVIOUS
<1> USE DEF SetupInv, SetupFieldsOK, PathOK
\* What is drawn for the path that is set says on.
<1>a. ASSUME NEW s, NEW running, s.path = pref => s.phase # "checking", running => syncRun'.step # "off",
             Draw(s, running), pref' = pref, ~effectDue' => s.path = pref
      PROVE  NeverStuck'
  <2>1. CASE effectDue'
    BY <2>1 DEF NeverStuck
  <2>2. CASE ~effectDue'
    <3>1. setup' = s /\ s.path = pref /\ Visible(setup, pref)' = s.phase /\ s.phase # "checking"
      BY <1>a, <2>2 DEF Draw, Visible
    <3>2. s.phase = "syncing" /\ ~running => retryDrawn'
      BY <1>a, <3>1 DEF Draw, Retriable, Visible
    <3> QED
      BY <1>a, <3>1, <3>2 DEF NeverStuck
  <2> QED
    BY <2>1, <2>2
<1>1. CASE CheckSetup
  <2> DEFINE s == [path |-> pref, phase |-> IF backend[pref].found THEN "checking" ELSE "install"]
  <2>1. operation' = operation + 1 /\ ~effectDue' /\ UNCHANGED <<pref, syncRun>>
    BY <1>1 DEF CheckSetup
  <2>2. CASE backend[pref].found
    <3>1. setup' = [path |-> pref, phase |-> "checking"] /\ checks' = checks \cup {[op |-> operation', path |-> pref]}
      BY <1>1, <2>2 DEF CheckSetup, Draw
    <3>2. Visible(setup, pref)' = "checking" /\ [op |-> operation', path |-> pref] \in checks'
      BY <2>1, <3>1 DEF Visible
    <3>3. NeverStuck'
      BY <3>2 DEF NeverStuck
    <3> QED
      BY <2>1, <3>1, <3>3
  <2>3. CASE ~backend[pref].found
    <3>1. setup' = [path |-> pref, phase |-> "install"] /\ checks' = checks
      BY <1>1, <2>3 DEF CheckSetup, Draw
    <3>2. NeverStuck'
      BY <2>1, <3>1 DEF NeverStuck, Visible
    <3> QED
      BY <2>1, <3>1, <3>2
  <2> QED
    BY <2>2, <2>3
<1>2. ASSUME NEW c \in checks, inspectSetup(c) PROVE SetupInv'
  <2>1. checks' = checks \ {c} /\ UNCHANGED <<pref, effectDue, operation, syncRun>>
    BY <1>2 DEF inspectSetup
  <2>2. CASE c.op = operation
    <3>1. PICK s : /\ DOMAIN s = {"path", "phase"} /\ s.path = c.path /\ s.phase # "checking"
                   /\ Draw(s, syncRun.step # "off")
      BY <1>2, <2>2, ReportKnown DEF inspectSetup, IsCurrent, ReportOn
    <3>2. setup' = s
      BY <3>1 DEF Draw
    <3>3. NeverStuck'
      BY <1>a, <2>1, <2>2, <3>1
    <3> QED
      BY <2>1, <2>2, <3>1, <3>2, <3>3
  <2>3. CASE c.op # operation
    <3>1. UNCHANGED <<setup, retryDrawn>>
      BY <1>2, <2>3 DEF inspectSetup, IsCurrent
    <3>2. NeverStuck'
      BY <2>1, <2>3, <3>1 DEF NeverStuck, Visible
    <3> QED
      BY <2>1, <3>1, <3>2
  <2> QED
    BY <2>2, <2>3
<1>3. CASE startSync
  <2>1. operation' = operation + 1 /\ ~effectDue /\ UNCHANGED <<pref, effectDue, checks>> /\ syncRun.step = "off"
    BY <1>3 DEF startSync
  <2>2. CASE backend[pref].found
    <3> DEFINE s == [path |-> pref, phase |-> "syncing"]
    <3>1. syncRun' = [op |-> operation', path |-> pref, step |-> "sync"] /\ setup' = s /\ Draw(s, TRUE)
      BY <1>3, <2>2 DEF startSync, Draw
    <3>2. NeverStuck'
      BY <1>a, <2>1, <3>1
    <3> QED
      BY <2>1, <3>1, <3>2
  <2>3. CASE ~backend[pref].found
    <3> DEFINE s == [path |-> pref, phase |-> "sync"]
    <3>1. syncRun' = syncRun /\ setup' = s /\ Draw(s, FALSE)
      BY <1>3, <2>3 DEF startSync, Draw
    <3>2. NeverStuck'
      BY <1>a, <2>1, <3>1
    <3> QED
      BY <2>1, <3>1, <3>2
  <2> QED
    BY <2>2, <2>3
\* The end of a sync that was running.
<1>4. ASSUME NEW s, DOMAIN s = {"path", "phase"}, s.path = syncRun.path, s.phase # "checking",
             Finally(s), syncRun.step # "off", UNCHANGED <<pref, operation, checks>>
      PROVE  SetupInv'
  <2>1. syncRun' = NoSync
    BY <1>4 DEF Finally
  <2>2. CASE syncRun.op = operation
    <3>1. Draw(s, FALSE) /\ UNCHANGED effectDue /\ setup' = s
      BY <1>4, <2>2 DEF Finally, IsCurrent, Draw
    <3>2. NeverStuck'
      BY <1>4, <1>a, <2>2, <3>1
    <3> QED
      BY <1>4, <2>1, <2>2, <3>1, <3>2 DEF NoSync
  <2>3. CASE syncRun.op # operation
    <3>1. UNCHANGED <<setup, retryDrawn>> /\ effectDue'
      BY <1>4, <2>3 DEF Finally, IsCurrent
    <3>2. NeverStuck'
      BY <3>1 DEF NeverStuck
    <3> QED
      BY <1>4, <2>1, <3>1, <3>2 DEF NoSync
  <2> QED
    BY <2>2, <2>3
<1>5. ASSUME NEW ok \in BOOLEAN, syncAndWait(ok) PROVE SetupInv'
  <2>1. syncRun.step = "sync" /\ UNCHANGED <<pref, operation, checks>>
    BY <1>5 DEF syncAndWait
  <2>2. CASE Finally([path |-> syncRun.path, phase |-> "sync"])
    BY <1>4, <2>1, <2>2
  <2>3. CASE ~IsCurrent(syncRun.op) /\ Finally(setup)
    <3>1. syncRun' = NoSync /\ UNCHANGED <<setup, retryDrawn>> /\ effectDue'
      BY <2>3 DEF Finally
    <3>2. NeverStuck'
      BY <3>1 DEF NeverStuck
    <3> QED
      BY <2>1, <3>1, <3>2 DEF NoSync
  <2>4. CASE syncRun' = [syncRun EXCEPT !.step = "doctor"] /\ UNCHANGED <<setup, retryDrawn, effectDue>>
    <3>1. syncRun'.step = "doctor" /\ syncRun'.op = syncRun.op /\ syncRun'.path = syncRun.path
          /\ DOMAIN syncRun' = {"op", "path", "step"}
      BY <2>4
    <3>2. NeverStuck'
      BY <2>1, <2>4, <3>1 DEF NeverStuck, Visible
    <3> QED
      BY <2>1, <2>4, <3>1, <3>2
  <2> QED
    BY <1>5, <2>2, <2>3, <2>4 DEF syncAndWait
<1>6. ASSUME NEW ok \in BOOLEAN, AfterSync(ok) PROVE SetupInv'
  BY <1>4, <1>6, ReportKnown DEF AfterSync
<1>7. CASE PressRetry \/ ChangePath
  <2>1. effectDue' /\ UNCHANGED <<setup, operation, checks, syncRun>>
    BY <1>7 DEF PressRetry, ChangePath
  <2> QED
    BY <2>1 DEF NeverStuck
<1>8. CASE DaemonMoves \/ UNCHANGED setupVars
  <2>1. UNCHANGED <<pref, setup, effectDue, operation, checks, syncRun, retryDrawn>>
    BY <1>8 DEF DaemonMoves, setupVars
  <2> QED
    BY <2>1 DEF NeverStuck, Visible
<1> QED
  BY <1>1, <1>2, <1>3, <1>5, <1>6, <1>7, <1>8 DEF SetupNext

\* The setup screen never says that it checks or syncs with nothing under way and no Retry
\* (cli-setup.tsx, startSync's `finally`).
THEOREM SetupGoesOn == SetupSpec => []NeverStuck
<1>1. SetupInv => NeverStuck
  BY DEF SetupInv
<1> QED
  BY SetupStarts, SetupKept, <1>1, PTL DEF SetupSpec

-----------------------------------------------------------------------------
(* The terminal's triage.                                                  *)

TriageFields == {"open", "tasks", "at", "suggestion", "session", "waiting", "moved", "skipped"}

\* An answer still awaited is about the task it is awaited for: each request has a number of
\* its own, and one is awaited at a time.
AwaitedOK ==
  /\ \A q \in asked : q.n \in Nat /\ q.n <= triageRequests
  /\ triage.open => /\ DOMAIN triage = TriageFields
                    /\ \A v, w \in triage.waiting : v = w
                    /\ \A w \in triage.waiting : w.n \in Nat /\ w.n <= triageRequests
                    /\ \A w \in triage.waiting, q \in asked : q.tag = "suggest" /\ q.n = w.n => q.about = w.task

Fits(t) == t.open /\ t.suggestion[1] = "found" => t.suggestion[2] = t.tasks[t.at]

\* The tasks moved so far, each where it was suggested to go.
MovesOK ==
  /\ \E S : moves \in Seq(S)
  /\ \A i \in DOMAIN moves : moves[i].about = moves[i].task

TriageInv == triageRequests \in Nat /\ AwaitedOK /\ Fits(triage) /\ MovesOK

LEMMA TriageStarts == TriageInit => TriageInv
<1> SUFFICES ASSUME TriageInit PROVE TriageInv
  OBVIOUS
<1>1. ~triage.open /\ triageRequests = 0 /\ asked = {} /\ moves = <<>>
  BY DEF TriageInit, NoTriage
<1>2. moves \in Seq({}) /\ DOMAIN moves = {}
  BY <1>1
<1> QED
  BY <1>1, <1>2 DEF TriageInv, AwaitedOK, Fits, MovesOK

\* Asking for the task on screen, in a triage whose awaited answer is as it should be.
LEMMA AskOK ==
  ASSUME TriageInv, NEW t, t.open, DOMAIN t = TriageFields, triage.open,
         t.waiting = {} \/ t.waiting = triage.waiting,
         NEW others \in SUBSET asked, AskTriage(t, others), MovesOK'
  PROVE  TriageInv'
<1> USE DEF TriageInv, AwaitedOK
<1>1. CASE NothingWaited(t)
  <2> DEFINE n == triageRequests + 1
             w == [n |-> n, task |-> t.tasks[t.at]]
             q == [tag |-> "suggest", n |-> n, about |-> t.tasks[t.at]]
  <2>1. triage' = [t EXCEPT !.suggestion = <<"asking">>, !.waiting = {w}] /\ triageRequests' = n
        /\ asked' = others \cup {q}
    BY <1>1 DEF AskTriage
  <2>2. w.n = n /\ q.n = n /\ q.about = w.task
    OBVIOUS
  <2>3. \A x \in others : x.n \in Nat /\ x.n < n
    OBVIOUS
  <2> HIDE DEF w, q
  <2>4. triage'.open /\ DOMAIN triage' = TriageFields /\ triage'.waiting = {w} /\ triage'.suggestion = <<"asking">>
    BY <2>1 DEF TriageFields
  <2>5. Fits(triage')
    BY <2>4 DEF Fits
  <2> QED
    BY <2>1, <2>2, <2>3, <2>4, <2>5
<1>2. CASE ~NothingWaited(t)
  <2>1. triage' = [t EXCEPT !.suggestion = <<"asking">>] /\ triageRequests' = triageRequests /\ asked' = others
    BY <1>2 DEF AskTriage
  <2>2. triage'.open /\ DOMAIN triage' = TriageFields /\ triage'.waiting = triage.waiting
        /\ triage'.suggestion = <<"asking">>
    BY <1>2, <2>1 DEF TriageFields, NothingWaited
  <2>3. Fits(triage')
    BY <2>2 DEF Fits
  <2> QED
    BY <2>1, <2>2, <2>3
<1> QED
  BY <1>1, <1>2

LEMMA TriageKept == TriageInv /\ [TriageNext]_triageVars => TriageInv'
<1> SUFFICES ASSUME TriageInv, [TriageNext]_triageVars PROVE TriageInv'
  OBVIOUS
<1> USE DEF TriageInv
\* Nothing is asked or awaited but what was, and triage stands or ends.
<1>a. ASSUME UNCHANGED <<triage, triageRequests, moves>>,
             \A q \in asked' \ asked : q.tag # "suggest" /\ q.n \in Nat /\ q.n <= triageRequests
      PROVE  TriageInv'
  BY <1>a DEF AwaitedOK, Fits, MovesOK
<1>b. ASSUME EndTriage, asked' \subseteq asked, MovesOK' PROVE TriageInv'
  <2>1. ~triage'.open /\ triageRequests' = triageRequests
    BY <1>b DEF EndTriage, NoTriage
  <2> QED
    BY <1>b, <2>1 DEF AwaitedOK, Fits
<1>1. CASE StartTriage
  <2> DEFINE q == [tag |-> "inbox", n |-> triageRequests + 1, about |-> 0]
  <2>1. q.tag # "suggest" /\ q.n = triageRequests + 1
    OBVIOUS
  <2>2. asked' = asked \cup {q} /\ triageRequests' = triageRequests + 1 /\ UNCHANGED moves
    BY <1>1 DEF StartTriage, Ask
  <2> HIDE DEF q
  <2>3. DOMAIN triage' = TriageFields /\ triage'.waiting = {} /\ triage'.suggestion = <<"loading">>
    BY <1>1 DEF StartTriage, TriageFields
  <2>4. AwaitedOK'
    BY <2>1, <2>2, <2>3 DEF AwaitedOK
  <2>5. Fits(triage')
    BY <2>3 DEF Fits
  <2> QED
    BY <2>2, <2>4, <2>5 DEF MovesOK
<1>2. ASSUME NEW q \in asked, NEW tasks, TriageInbox(q, tasks) PROVE TriageInv'
  <2>1. CASE UNCHANGED <<triage, triageRequests>> /\ asked' = asked \ {q}
    BY <1>2, <1>a, <2>1 DEF TriageInbox
  <2>2. CASE EndTriage /\ asked' = asked \ {q}
    BY <1>2, <1>b, <2>2 DEF TriageInbox, MovesOK
  <2>3. CASE triage.open /\ AskTriage([triage EXCEPT !.tasks = tasks], asked \ {q})
    <3> DEFINE t == [triage EXCEPT !.tasks = tasks]
    <3>1. DOMAIN t = TriageFields /\ t.open /\ t.waiting = triage.waiting
      BY <2>3 DEF AwaitedOK, TriageFields
    <3> HIDE DEF t
    <3>2. AskTriage(t, asked \ {q}) /\ MovesOK'
      BY <1>2, <2>3 DEF TriageInbox, MovesOK, t
    <3> QED
      BY <2>3, <3>1, <3>2, AskOK
  <2> QED
    BY <1>2, <2>1, <2>2, <2>3 DEF TriageInbox
<1>3. ASSUME NEW q \in asked, q.tag = "suggest", NEW answer, TriageSuggested(q, answer) PROVE TriageInv'
  <2>1. CASE ~triage.open \/ ~Awaited(triage, q)
    BY <1>3, <1>a, <2>1 DEF TriageSuggested
  <2>2. CASE triage.open /\ Awaited(triage, q)
    <3> DEFINE w == CHOOSE w \in triage.waiting : TRUE
               t == [triage EXCEPT !.waiting = {}]
    <3>1. w \in triage.waiting /\ q.about = w.task
      BY <1>3, <2>2 DEF Awaited, AwaitedOK
    <3>2. DOMAIN t = TriageFields /\ t.open /\ t.waiting = {} /\ t.tasks = triage.tasks /\ t.at = triage.at
      BY <2>2 DEF AwaitedOK, TriageFields
    <3>3. UNCHANGED moves /\ MovesOK'
      BY <1>3 DEF TriageSuggested, MovesOK
    <3>4. CASE w.task # t.tasks[t.at]
      <4>1. AskTriage(t, asked \ {q})
        BY <1>3, <2>2, <3>4 DEF TriageSuggested
      <4> HIDE DEF t
      <4> QED
        BY <2>2, <3>2, <3>3, <4>1, AskOK
    <3>5. CASE w.task = t.tasks[t.at]
      <4> DEFINE s == CASE answer = "list" -> <<"found", q.about>>
                        [] answer \in {"inbox", "nothing"} -> <<"nothing">>
                        [] OTHER -> <<"failed">>
      <4>1. triage' = [t EXCEPT !.suggestion = s] /\ asked' = asked \ {q} /\ UNCHANGED triageRequests
        BY <1>3, <2>2, <3>5 DEF TriageSuggested
      <4>2. s[1] = "found" => s[2] = q.about
        OBVIOUS
      <4> HIDE DEF s, t, w
      <4>3. DOMAIN triage' = TriageFields /\ triage'.open /\ triage'.waiting = {} /\ triage'.suggestion = s
            /\ triage'.tasks[triage'.at] = w.task
        BY <3>2, <3>5, <4>1 DEF TriageFields
      <4>4. Fits(triage')
        BY <3>1, <4>2, <4>3 DEF Fits
      <4>5. AwaitedOK'
        BY <4>1, <4>3 DEF AwaitedOK
      <4> QED
        BY <3>3, <4>1, <4>4, <4>5 DEF MovesOK
    <3> QED
      BY <3>4, <3>5
  <2> QED
    BY <2>1, <2>2
\* On to the next task, when the tasks moved so far are as they should be.
<1>4. ASSUME triage.open, NEW t, t.open, DOMAIN t = TriageFields, t.waiting = triage.waiting, NextTriage(t), MovesOK'
      PROVE  TriageInv'
  <2>1. CASE EndTriage /\ UNCHANGED asked
    BY <1>4, <1>b, <2>1
  <2>2. CASE AskTriage([t EXCEPT !.at = @ + 1], asked)
    <3> DEFINE u == [t EXCEPT !.at = @ + 1]
    <3>1. DOMAIN u = TriageFields /\ u.open /\ u.waiting = triage.waiting
      BY <1>4 DEF TriageFields
    <3> HIDE DEF u
    <3>2. AskTriage(u, asked)
      BY <2>2 DEF u
    <3> QED
      BY <1>4, <3>1, <3>2, AskOK
  <2> QED
    BY <1>4, <2>1, <2>2 DEF NextTriage
<1>5. CASE TriageMove
  <2> DEFINE m == [task |-> triage.tasks[triage.at], about |-> triage.suggestion[2], session |-> triage.session]
             t == [triage EXCEPT !.moved = @ + 1]
  <2>1. triage.open /\ moves' = Append(moves, m) /\ m.about = m.task
    BY <1>5 DEF TriageMove, Fits
  <2>2. NextTriage(t) /\ t.open /\ DOMAIN t = TriageFields /\ t.waiting = triage.waiting
    BY <1>5, <2>1 DEF TriageMove, AwaitedOK, TriageFields
  <2> HIDE DEF m, t
  <2>3. PICK S : moves \in Seq(S)
    BY DEF MovesOK
  <2>4. moves \in Seq(S \cup {m})
    BY <2>3
  <2>5. moves' \in Seq(S \cup {m})
    BY <2>1, <2>4
  <2>6. \A i \in DOMAIN moves' : moves'[i].about = moves'[i].task
    BY <2>1, <2>4 DEF MovesOK
  <2>7. MovesOK'
    BY <2>5, <2>6 DEF MovesOK
  <2> QED
    BY <1>4, <2>1, <2>2, <2>7
<1>6. CASE TriageSkip
  <2> DEFINE t == [triage EXCEPT !.skipped = @ + 1]
  <2>1. NextTriage(t) /\ triage.open /\ t.open /\ DOMAIN t = TriageFields /\ t.waiting = triage.waiting
    BY <1>6 DEF TriageSkip, AwaitedOK, TriageFields
  <2> HIDE DEF t
  <2>2. MovesOK'
    BY <1>6 DEF TriageSkip, MovesOK
  <2> QED
    BY <1>4, <2>1, <2>2
<1>7. CASE StopTriage
  BY <1>7, <1>b DEF StopTriage, MovesOK
<1>8. CASE Type \/ CloseAdd
  BY <1>8, <1>a DEF Type, CloseAdd
<1>9. CASE TickHint
  <2>1. UNCHANGED <<triage, triageRequests, moves>>
    BY <1>9 DEF TickHint
  <2>2. UNCHANGED asked \/ Ask("hint", 0, adding)
    BY <1>9 DEF TickHint
  <2> QED
    BY <1>a, <2>1, <2>2 DEF Ask
<1>10. ASSUME NEW q \in asked, NEW answer, HintAnswered(q, answer) PROVE TriageInv'
  BY <1>10, <1>a DEF HintAnswered
<1>11. CASE AnswerArrives
  BY <1>2, <1>3, <1>10, <1>11 DEF AnswerArrives
<1>12. CASE AnswerLost
  BY <1>2, <1>3, <1>10, <1>12 DEF AnswerLost
<1>13. CASE UNCHANGED triageVars
  BY <1>13, <1>a DEF triageVars
<1> QED
  BY <1>1, <1>5, <1>6, <1>7, <1>8, <1>9, <1>11, <1>12, <1>13 DEF TriageNext

\* The list suggested for the task on screen, and the one it is moved to, was suggested for
\* that task (triage_suggested), for any tasks and any order of answers.
THEOREM SuggestedForIt == TriageSpec => []SuggestionFits
<1>1. TriageInv => SuggestionFits
  BY DEF TriageInv, Fits, MovesOK, SuggestionFits
<1> QED
  BY TriageStarts, TriageKept, <1>1, PTL DEF TriageSpec

-----------------------------------------------------------------------------
(* The detail pane's cursor.                                               *)

IsList(s) == \E S : s \in Seq(S)

\* The tasks the pane can show, the rows the cursor can be on, what an anchor can be.
TasksOK(tasks) ==
  /\ IsList(tasks)
  /\ \A i \in DOMAIN tasks : /\ DOMAIN tasks[i] = {"id", "step", "file", "link"}
                             /\ IsList(tasks[i].step) /\ IsList(tasks[i].file)
Rows == {FieldRow, NotesRow, LinkRow} \cup ({"step", "file"} \X Nat)
ChildOK(child) ==
  \/ child = <<"nothing">>
  \/ \E l : child = <<"link", l>>
  \/ \E kind \in {"step", "file"} : \E id, name : child = <<kind, id, name>>
AnchorsOK(anchor) ==
  /\ \A a \in anchor : ChildOK(a.child)
  /\ \A a, b \in anchor : a = b
PromptOK(prompt) == prompt = NoPrompt \/ prompt.kind \in {"delete", "edit", "link_form", "new_step"}
PaneOK(d) ==
  /\ DOMAIN d = {"tasks", "at", "row", "anchor", "stale", "prompt"}
  /\ TasksOK(d.tasks) /\ d.row \in Rows /\ AnchorsOK(d.anchor) /\ PromptOK(d.prompt)
  /\ d.tasks = <<>> \/ d.at \in DOMAIN d.tasks

\* The cursor is where its anchor says.
Anchored(d) ==
  \A task \in UnderCursor(d) : \A a \in d.anchor : a.task = task.id =>
    /\ RowNow(d) \in {DetailRows(task)[i] : i \in DOMAIN DetailRows(task)}
    /\ a = AnchorFor(task, RowNow(d)) \/ a.child = <<"nothing">>

PaneInv == PaneOK(pane) /\ Anchored(pane)

\* Of finitely many positions one is the first.
LEMMA FirstPosition ==
  ASSUME NEW n \in Nat, NEW S \in SUBSET (1 .. n), S # {}
  PROVE  \E i \in S : \A j \in S : i <= j
<1> DEFINE UpTo(i) == {k \in S : k <= i}
<1> DEFINE T == {UpTo(i) : i \in S}
<1>1. IsFiniteSet(S)
  <2>1. IsFiniteSet(1 .. n)
    BY FS_Interval
  <2> QED
    BY <2>1, FS_Subset
<1>2. T \subseteq FiniteSubsetsOf(S)
  <2> SUFFICES ASSUME NEW i \in S PROVE UpTo(i) \in FiniteSubsetsOf(S)
    OBVIOUS
  <2>1. UpTo(i) \in SUBSET S
    OBVIOUS
  <2>2. IsFiniteSet(UpTo(i))
    BY <1>1, <2>1, FS_Subset
  <2> QED
    BY <2>1, <2>2 DEF FiniteSubsetsOf
<1>3. PICK t \in T : \A u \in T : ~(<<u, t>> \in StrictSubsetOrdering(S))
  <2>1. T # {}
    OBVIOUS
  <2>2. IsWellFoundedOn(StrictSubsetOrdering(S), FiniteSubsetsOf(S))
    BY FS_StrictSubsetOrderingWellFounded
  <2> HIDE DEF T
  <2> QED
    BY <1>2, <2>1, <2>2, WFMin
<1>4. PICK i \in S : t = UpTo(i)
  BY <1>3
<1>5. ASSUME NEW j \in S, j < i PROVE FALSE
  <2>1. UpTo(j) \subseteq UpTo(i) /\ UpTo(j) # UpTo(i)
    <3>1. i \in UpTo(i) /\ i \notin UpTo(j)
      BY <1>5
    <3>2. \A k \in S : k <= j => k <= i
      <4>1. \A k \in S : k \in Int
        OBVIOUS
      <4> QED
        BY <1>5, <4>1
    <3> QED
      BY <3>1, <3>2
  <2>2. UpTo(j) \in SUBSET S /\ UpTo(i) \in SUBSET S /\ UpTo(j) \in T
    OBVIOUS
  <2> HIDE DEF UpTo, T
  <2> QED
    BY <1>3, <1>4, <2>1, <2>2 DEF StrictSubsetOrdering
<1> HIDE DEF UpTo, T
<1>6. \A j \in S : ~(j < i)
  <2> SUFFICES ASSUME NEW j \in S, j < i PROVE FALSE
    OBVIOUS
  <2> QED
    BY <1>5
<1>7. \A j \in S : i \in Int /\ j \in Int
  OBVIOUS
<1> QED
  BY <1>6, <1>7

\* A list's positions are 1 to its length.
LEMMA ListShape ==
  ASSUME NEW s, IsList(s)
  PROVE  Len(s) \in Nat /\ DOMAIN s = 1 .. Len(s)
  BY DEF IsList

\* What a refresh makes of a list is a list.
LEMMA ListKept ==
  ASSUME NEW s, IsList(s), NEW e
  PROVE  /\ IsList(Append(s, e)) /\ IsList(<<e>> \o s)
         /\ \A i \in DOMAIN s : IsList([s EXCEPT ![i] = e]) /\ IsList(Removed(s, i))
<1>1. PICK S : s \in Seq(S)
  BY DEF IsList
<1>2. s \in Seq(S \cup {e}) /\ e \in S \cup {e}
  BY <1>1
<1> DEFINE B == S \cup {e}
<1> HIDE DEF B
<1>3. s \in Seq(B) /\ e \in B
  BY <1>2 DEF B
<1>4. Append(s, e) \in Seq(B) /\ <<e>> \o s \in Seq(B)
  BY <1>3
<1>5. ASSUME NEW i \in DOMAIN s PROVE [s EXCEPT ![i] = e] \in Seq(B) /\ Removed(s, i) \in Seq(B)
  <2>1. i \in 1 .. Len(s)
    BY <1>3
  <2>2. SubSeq(s, 1, i - 1) \in Seq(B) /\ SubSeq(s, i + 1, Len(s)) \in Seq(B)
    BY <1>3, <2>1
  <2>3. Removed(s, i) \in Seq(B)
    BY <2>2 DEF Removed
  <2>4. [s EXCEPT ![i] = e] \in Seq(B)
    BY <1>3, <2>1
  <2> QED
    BY <2>3, <2>4
<1> QED
  BY <1>4, <1>5 DEF IsList

\* Where the child is found is a position of it, if it is found.
LEMMA FoundThere ==
  ASSUME NEW children, IsList(children), NEW id, NEW name, NEW was
  PROVE  FindChild(children, id, name, was) \in DOMAIN children \cup {0}
<1> DEFINE at == {i \in DOMAIN children : children[i].id = id}
           named == {i \in DOMAIN children : children[i].name = name /\ ~IsLocal(children[i].id)}
           first == CHOOSE i \in at : \A j \in at : i <= j
           only == CHOOSE i \in named : TRUE
<1>1. at # {} => first \in DOMAIN children
  <2>1. at # {} => \E i \in at : \A j \in at : i <= j
    <3>1. at \in SUBSET (1 .. Len(children)) /\ Len(children) \in Nat
      BY ListShape
    <3> HIDE DEF at
    <3> QED
      BY <3>1, FirstPosition
  <2>2. at \subseteq DOMAIN children
    OBVIOUS
  <2> HIDE DEF at
  <2> QED
    BY <2>1, <2>2
<1>2. Cardinality(named) = 1 => only \in DOMAIN children
  <2>1. Cardinality(named) = 1 => named # {}
    BY FS_EmptySet
  <2> QED
    BY <2>1
<1>3. was \in named => was \in DOMAIN children
  OBVIOUS
<1>4. FindChild(children, id, name, was) =
        CASE at # {} -> first
          [] at = {} /\ ~IsLocal(id) -> 0
          [] at = {} /\ IsLocal(id) /\ was \in named -> was
          [] at = {} /\ IsLocal(id) /\ was \notin named -> IF Cardinality(named) = 1 THEN only ELSE 0
  BY DEF FindChild
<1> HIDE DEF at, named, first, only
<1>5. IsLocal(id) \in BOOLEAN
  BY DEF IsLocal
<1> QED
  BY <1>1, <1>2, <1>3, <1>4, <1>5

\* What is in a list.

LEMMA InJoined ==
  ASSUME NEW S, NEW a \in Seq(S), NEW b \in Seq(S)
  PROVE  a \o b \in Seq(S) /\ ToSet(a \o b) = ToSet(a) \cup ToSet(b)
<1>1. DOMAIN a = 1 .. Len(a) /\ DOMAIN b = 1 .. Len(b) /\ Len(a) \in Nat /\ Len(b) \in Nat
  OBVIOUS
<1>2. DOMAIN (a \o b) = 1 .. (Len(a) + Len(b)) /\ a \o b \in Seq(S)
  OBVIOUS
<1>3. \A i \in 1 .. Len(a) : (a \o b)[i] = a[i] /\ i \in DOMAIN (a \o b)
  BY <1>1, <1>2
<1>4. \A i \in 1 .. Len(b) : (a \o b)[Len(a) + i] = b[i] /\ Len(a) + i \in DOMAIN (a \o b)
  BY <1>1, <1>2
<1>5. ToSet(a) \cup ToSet(b) \subseteq ToSet(a \o b)
  BY <1>1, <1>3, <1>4 DEF ToSet
<1>6. ASSUME NEW i \in DOMAIN (a \o b) PROVE (a \o b)[i] \in ToSet(a) \cup ToSet(b)
  <2>1. CASE i <= Len(a)
    <3>1. i \in DOMAIN a /\ (a \o b)[i] = a[i]
      BY <1>1, <1>2, <1>3, <2>1
    <3> QED
      BY <3>1 DEF ToSet
  <2>2. CASE ~(i <= Len(a))
    <3>1. i - Len(a) \in 1 .. Len(b) /\ i = Len(a) + (i - Len(a))
      BY <1>1, <1>2, <2>2
    <3>2. (a \o b)[i] = b[i - Len(a)]
      BY <1>4, <3>1
    <3> QED
      BY <1>1, <3>1, <3>2 DEF ToSet
  <2> QED
    BY <2>1, <2>2
<1>7. ToSet(a \o b) \subseteq ToSet(a) \cup ToSet(b)
  BY <1>6 DEF ToSet
<1> QED
  BY <1>2, <1>5, <1>7

\* The rows of a task.
LEMMA RowsShown ==
  ASSUME NEW task, IsList(task.step), IsList(task.file)
  PROVE  ToSet(DetailRows(task)) =
           {FieldRow, Heading("step"), LinkRow, Heading("file"), NotesRow}
             \cup {<<"step", i>> : i \in DOMAIN task.step} \cup {<<"file", i>> : i \in DOMAIN task.file}
<1> DEFINE steps == [i \in DOMAIN task.step |-> <<"step", i>>]
           files == [i \in DOMAIN task.file |-> <<"file", i>>]
           R == {FieldRow, Heading("step"), LinkRow, Heading("file"), NotesRow}
                  \cup {<<"step", i>> : i \in DOMAIN task.step} \cup {<<"file", i>> : i \in DOMAIN task.file}
           top == <<FieldRow, Heading("step")>>
           mid == <<LinkRow, Heading("file")>>
           end == <<NotesRow>>
<1>1. steps \in Seq(R) /\ ToSet(steps) = {<<"step", i>> : i \in DOMAIN task.step}
  <2>1. DOMAIN task.step = 1 .. Len(task.step) /\ Len(task.step) \in Nat
    BY ListShape
  <2>2. steps \in [1 .. Len(task.step) -> R]
    BY <2>1
  <2>3. steps \in Seq(R)
    <3> HIDE DEF steps, R
    <3> QED
      BY <2>1, <2>2
  <2> QED
    BY <2>3 DEF ToSet
<1>2. files \in Seq(R) /\ ToSet(files) = {<<"file", i>> : i \in DOMAIN task.file}
  <2>1. DOMAIN task.file = 1 .. Len(task.file) /\ Len(task.file) \in Nat
    BY ListShape
  <2>2. files \in [1 .. Len(task.file) -> R]
    BY <2>1
  <2>3. files \in Seq(R)
    <3> HIDE DEF files, R
    <3> QED
      BY <2>1, <2>2
  <2> QED
    BY <2>3 DEF ToSet
<1>3. FieldRow \in R /\ Heading("step") \in R /\ LinkRow \in R /\ Heading("file") \in R /\ NotesRow \in R
  OBVIOUS
<1>4. DetailRows(task) = top \o steps \o mid \o files \o end
  BY DEF DetailRows
<1>5. R = {FieldRow, Heading("step")} \cup ToSet(steps) \cup {LinkRow, Heading("file")} \cup ToSet(files) \cup {NotesRow}
  BY <1>1, <1>2
<1> HIDE DEF steps, files, R
<1>6. top \in Seq(R) /\ ToSet(top) = {FieldRow, Heading("step")}
  BY <1>3 DEF ToSet
<1>7. mid \in Seq(R) /\ ToSet(mid) = {LinkRow, Heading("file")}
  BY <1>3 DEF ToSet
<1>8. end \in Seq(R) /\ ToSet(end) = {NotesRow}
  BY <1>3 DEF ToSet
<1> HIDE DEF top, mid, end
<1> DEFINE to1 == top \o steps
           to2 == to1 \o mid
           to3 == to2 \o files
<1>9. to1 \in Seq(R) /\ ToSet(to1) = ToSet(top) \cup ToSet(steps)
  BY <1>1, <1>6, InJoined
<1> HIDE DEF to1
<1>10. to2 \in Seq(R) /\ ToSet(to2) = ToSet(to1) \cup ToSet(mid)
  BY <1>7, <1>9, InJoined
<1> HIDE DEF to2
<1>11. to3 \in Seq(R) /\ ToSet(to3) = ToSet(to2) \cup ToSet(files)
  BY <1>2, <1>10, InJoined
<1> HIDE DEF to3
<1>12. ToSet(to3 \o end) = ToSet(to3) \cup ToSet(end)
  BY <1>8, <1>11, InJoined
<1>13. ToSet(DetailRows(task)) = R
  <2>1. DetailRows(task) = to3 \o end
    BY <1>4 DEF to1, to2, to3
  <2> QED
    BY <2>1, <1>5, <1>6, <1>7, <1>8, <1>9, <1>10, <1>11, <1>12
<1> QED
  BY <1>13 DEF R

\* A row, on a task that may have fewer children: one it shows, and the same asked twice.
LEMMA RowFits ==
  ASSUME NEW task, IsList(task.step), IsList(task.file), NEW row \in Rows
  PROVE  /\ RowOn(row, task) \in Rows
         /\ RowOn(RowOn(row, task), task) = RowOn(row, task)
         /\ RowOn(row, task) \in ToSet(DetailRows(task))
<1> DEFINE n == Len(task.step)
           k == Len(task.file)
<1>1. n \in Nat /\ DOMAIN task.step = 1 .. n /\ k \in Nat /\ DOMAIN task.file = 1 .. k
  BY ListShape
<1>2. CASE row \in {FieldRow, NotesRow, LinkRow}
  <2>1. RowOn(row, task) = row
    BY <1>2 DEF RowOn, IsPlace, FieldRow, NotesRow, LinkRow
  <2> QED
    BY <1>2, <2>1, RowsShown
<1>3. CASE row \in {"step", "file"} \X Nat
  <2>1. PICK kind \in {"step", "file"}, i \in Nat : row = <<kind, i>>
    BY <1>3
  <2>2. Len(task[kind]) \in Nat /\ DOMAIN task[kind] = 1 .. Len(task[kind])
    BY <1>1
  <2>3. RowOn(row, task) = <<kind, IF i > Len(task[kind]) THEN Len(task[kind]) ELSE i>>
    BY <2>1, <2>2 DEF RowOn, IsPlace
  <2>4. PICK j \in Nat : RowOn(row, task) = <<kind, j>> /\ j <= Len(task[kind])
    BY <2>2, <2>3
  <2>5. RowOn(<<kind, j>>, task) = <<kind, j>>
    BY <2>2, <2>4 DEF RowOn, IsPlace
  <2>6. <<kind, j>> \in ToSet(DetailRows(task))
    <3>1. CASE j = 0
      BY <3>1, RowsShown DEF Heading
    <3>2. CASE j # 0 /\ kind = "step"
      BY <3>2, <2>2, <2>4, RowsShown
    <3>3. CASE j # 0 /\ kind = "file"
      BY <3>3, <2>2, <2>4, RowsShown
    <3> QED
      BY <3>1, <3>2, <3>3
  <2> QED
    BY <2>4, <2>5, <2>6 DEF Rows
<1> QED
  BY <1>2, <1>3 DEF Rows

\* An anchor names its task and what can be on a row.
LEMMA AnchorShape ==
  ASSUME NEW task, NEW row \in Rows, IsList(task.step), IsList(task.file)
  PROVE  ChildOK(AnchorFor(task, row).child) /\ AnchorFor(task, row).task = task.id
<1> DEFINE child == CASE IsPlace(row) /\ row[2] <= Len(task[row[1]]) ->
                           <<row[1], task[row[1]][row[2]].id, task[row[1]][row[2]].name>>
                      [] row = LinkRow -> <<"link", task.link>>
                      [] OTHER -> <<"nothing">>
<1>1. AnchorFor(task, row) = [task |-> task.id, child |-> child]
  BY DEF AnchorFor
<1>2. ChildOK(child)
  <2>1. CASE IsPlace(row) /\ row[2] <= Len(task[row[1]])
    <3>1. row # LinkRow
      BY <2>1 DEF IsPlace, LinkRow
    <3>2. child = <<row[1], task[row[1]][row[2]].id, task[row[1]][row[2]].name>>
      BY <2>1, <3>1
    <3>3. row[1] \in {"step", "file"}
      BY <2>1 DEF IsPlace
    <3> QED
      BY <3>2, <3>3 DEF ChildOK
  <2>2. CASE ~(IsPlace(row) /\ row[2] <= Len(task[row[1]])) /\ row = LinkRow
    <3>1. child = <<"link", task.link>>
      BY <2>2
    <3> QED
      BY <3>1 DEF ChildOK
  <2>3. CASE ~(IsPlace(row) /\ row[2] <= Len(task[row[1]])) /\ row # LinkRow
    <3>1. child = <<"nothing">>
      BY <2>3
    <3> QED
      BY <3>1 DEF ChildOK
  <2> QED
    BY <2>1, <2>2, <2>3
<1> HIDE DEF child
<1> QED
  BY <1>1, <1>2

\* A pane whose cursor is on `row`, with the anchor for what is there.
LEMMA AnchoredOn ==
  ASSUME NEW d, PaneOK(d), NEW e, NEW row \in Rows, d.tasks # <<>>,
         DOMAIN e = DOMAIN d, e.tasks = d.tasks, e.at = d.at, e.row = row, e.prompt = d.prompt,
         e.anchor = {AnchorFor(d.tasks[d.at], RowOn(row, d.tasks[d.at]))}
  PROVE  PaneOK(e) /\ Anchored(e)
<1> DEFINE task == d.tasks[d.at]
<1>1. IsList(task.step) /\ IsList(task.file) /\ d.at \in DOMAIN d.tasks
  BY DEF PaneOK, TasksOK
<1> HIDE DEF task
<1>2. RowOn(row, task) \in Rows /\ RowOn(row, task) \in ToSet(DetailRows(task))
  BY <1>1, RowFits
<1>3. ChildOK(AnchorFor(task, RowOn(row, task)).child)
  BY <1>1, <1>2, AnchorShape
<1>4. AnchorsOK(e.anchor)
  BY <1>3 DEF AnchorsOK, task
<1>5. PaneOK(e)
  BY <1>4 DEF PaneOK
<1>6. UnderCursor(e) = {task} /\ RowNow(e) = RowOn(row, task)
  BY DEF UnderCursor, RowNow, task
<1>7. e.anchor = {AnchorFor(task, RowNow(e))}
  BY <1>6 DEF task
<1>8. Anchored(e)
  BY <1>2, <1>6, <1>7 DEF Anchored, ToSet
<1> QED
  BY <1>5, <1>8

\* However the pane came to be, following the cursor anchors it.
LEMMA FollowAnchors ==
  ASSUME NEW d, PaneOK(d)
  PROVE  PaneOK(Follow(d)) /\ Anchored(Follow(d))
<1>1. CASE d.tasks = <<>>
  <2>1. Follow(d) = d
    BY <1>1 DEF Follow
  <2>2. UnderCursor(d) = {}
    BY <1>1 DEF UnderCursor
  <2> QED
    BY <2>1, <2>2 DEF Anchored
<1>2. CASE d.tasks # <<>>
  <2> DEFINE task == d.tasks[d.at]
             mine == {a \in d.anchor : a.task = task.id}
             child == (CHOOSE a \in mine : TRUE).child
  <2>1. IsList(task.step) /\ IsList(task.file) /\ d.at \in DOMAIN d.tasks /\ d.row \in Rows
    BY <1>2 DEF PaneOK, TasksOK
  <2>2. RowOn(d.row, task) \in Rows /\ RowOn(RowOn(d.row, task), task) = RowOn(d.row, task)
        /\ RowOn(d.row, task) \in ToSet(DetailRows(task))
    <3> HIDE DEF task
    <3> QED
      BY <2>1, RowFits
  <2>3. mine # {} => (CHOOSE a \in mine : TRUE) \in d.anchor
    OBVIOUS
  <2>4. mine # {} => ChildOK(child) /\ mine = {CHOOSE a \in mine : TRUE}
    BY <2>3 DEF PaneOK, AnchorsOK
  <2>5. mine # {} => child[1] \in {"nothing", "link", "step", "file"} /\ (child[1] = "nothing" => child = <<"nothing">>)
    <3> HIDE DEF child, mine
    <3> QED
      BY <2>4 DEF ChildOK
  <2>6. Follow(d) =
          CASE mine = {} -> SetRow(d, RowOn(d.row, task))
            [] mine # {} /\ child[1] = "nothing" -> d
            [] mine # {} /\ child[1] = "link" ->
                 [d EXCEPT !.row = LinkRow, !.anchor = {AnchorFor(task, LinkRow)}, !.stale = @ \/ child[2] # task.link]
            [] mine # {} /\ child[1] \in {"step", "file"} -> FollowChild(d, task, child[1], child[2], child[3])
    BY <1>2 DEF Follow
  <2>7. CASE mine = {}
    <3>1. Follow(d) = SetRow(d, RowOn(d.row, task))
      <4> HIDE DEF mine, child
      <4> QED
        BY <2>6, <2>7
    <3> DEFINE e == SetRow(d, RowOn(d.row, task))
    <3>2. DOMAIN e = DOMAIN d /\ e.tasks = d.tasks /\ e.at = d.at /\ e.row = RowOn(d.row, task) /\ e.prompt = d.prompt
          /\ e.anchor = {AnchorFor(task, RowOn(RowOn(d.row, task), task))}
      BY <1>2 DEF SetRow, PaneOK
    <3> HIDE DEF e
    <3>3. PaneOK(e) /\ Anchored(e)
      BY <1>2, <2>2, <3>2, AnchoredOn
    <3> QED
      BY <3>1, <3>3 DEF e
  <2>8. CASE mine # {} /\ child[1] = "nothing"
    <3>1. Follow(d) = d
      <4> HIDE DEF mine, child
      <4> QED
        BY <2>6, <2>8
    <3>2. \A a \in mine : a.child = <<"nothing">>
      BY <2>4, <2>5, <2>8
    <3>3. UnderCursor(d) = {task} /\ RowNow(d) = RowOn(d.row, task)
      BY <1>2 DEF UnderCursor, RowNow
    <3>4. Anchored(d)
      <4> HIDE DEF task
      <4> QED
        BY <2>2, <3>2, <3>3 DEF Anchored, ToSet
    <3> QED
      BY <3>1, <3>4
  <2>9. CASE mine # {} /\ child[1] = "link"
    <3> DEFINE e == [d EXCEPT !.row = LinkRow, !.anchor = {AnchorFor(task, LinkRow)}, !.stale = @ \/ child[2] # task.link]
    <3>1. Follow(d) = e
      <4> HIDE DEF mine, child
      <4> QED
        BY <2>6, <2>9
    <3>2. DOMAIN e = DOMAIN d /\ e.tasks = d.tasks /\ e.at = d.at /\ e.row = LinkRow /\ e.prompt = d.prompt
          /\ e.anchor = {AnchorFor(task, LinkRow)}
      BY DEF PaneOK
    <3>3. RowOn(LinkRow, task) = LinkRow /\ LinkRow \in Rows
      BY DEF RowOn, IsPlace, LinkRow, Rows
    <3> HIDE DEF e
    <3>4. PaneOK(e) /\ Anchored(e)
      BY <1>2, <3>2, <3>3, AnchoredOn
    <3> QED
      BY <3>1, <3>4
  <2>10. CASE mine # {} /\ child[1] \in {"step", "file"}
    <3> DEFINE kind == child[1]
               at == FindChild(task[kind], child[2], child[3], IF d.row[1] = kind THEN d.row[2] ELSE 0)
               row == IF at > 0 THEN <<kind, at>> ELSE RowOn(d.row, task)
               e == [d EXCEPT !.row = row, !.anchor = {AnchorFor(task, row)}, !.stale = @ \/ at = 0]
    <3>1. Follow(d) = e
      <4>1. Follow(d) = FollowChild(d, task, child[1], child[2], child[3])
        <5> HIDE DEF mine, child
        <5> QED
          BY <2>6, <2>10
      <4> QED
        BY <4>1 DEF FollowChild
    <3>2. IsList(task[kind]) /\ kind \in {"step", "file"}
      <4>1. CASE kind = "step"
        BY <2>1, <4>1
      <4>2. CASE kind = "file"
        BY <2>1, <4>2
      <4> QED
        BY <2>10, <4>1, <4>2
    <3>3. at \in DOMAIN task[kind] \cup {0}
      <4> HIDE DEF kind, task, child
      <4> QED
        BY <3>2, FoundThere
    <3>4. DOMAIN task[kind] = 1 .. Len(task[kind]) /\ Len(task[kind]) \in Nat
      <4> HIDE DEF kind, task, child
      <4> QED
        BY <3>2, ListShape
    <3>5. DOMAIN e = DOMAIN d /\ e.tasks = d.tasks /\ e.at = d.at /\ e.row = row /\ e.prompt = d.prompt
          /\ e.anchor = {AnchorFor(task, row)}
      BY DEF PaneOK
    <3> HIDE DEF e, at, kind
    <3>6. row \in Rows /\ RowOn(row, task) = row
      <4>1. CASE at > 0
        <5>1. at \in Nat /\ at <= Len(task[kind]) /\ row = <<kind, at>>
          BY <3>3, <3>4, <4>1
        <5> HIDE DEF task, row
        <5>2. row \in Rows
          BY <3>2, <5>1 DEF Rows
        <5>3. RowOn(row, task) = row
          BY <3>4, <5>1 DEF RowOn
        <5> QED
          BY <5>2, <5>3
      <4>2. CASE ~(at > 0)
        BY <2>2, <4>2
      <4> QED
        BY <4>1, <4>2
    <3> HIDE DEF row
    <3>7. PaneOK(e) /\ Anchored(e)
      BY <1>2, <3>5, <3>6, AnchoredOn
    <3> QED
      BY <3>1, <3>7
  <2> QED
    BY <2>5, <2>7, <2>8, <2>9, <2>10
<1> QED
  BY <1>1, <1>2

\* A key that opens or closes a prompt, or says what changed, leaves the cursor.
LEMMA PaneLeft ==
  ASSUME PaneOK(pane), NEW x
  PROVE  (PromptOK(x) => PaneOK([pane EXCEPT !.prompt = x])) /\ PaneOK([pane EXCEPT !.stale = x])
  BY DEF PaneOK

LEMMA Pressed ==
  ASSUME NEW d, PaneOK(d), KeyPressed(d)
  PROVE  PaneInv'
  BY FollowAnchors DEF KeyPressed, PaneInv

\* A refresh shows the tasks: the cursor is on the same one, or on one in its place.
LEMMA NowShown ==
  ASSUME PaneOK(pane), pane.tasks # <<>>, NEW tasks, TasksOK(tasks), ShowNow(tasks)
  PROVE  PaneInv'
<1> DEFINE keep == {i \in DOMAIN tasks : {tasks[i].id} = {t.id : t \in UnderCursor(pane)}}
           last == IF tasks = <<>> THEN 1 ELSE Len(tasks)
           at == IF keep # {} THEN CHOOSE i \in keep : TRUE ELSE IF pane.at <= last THEN pane.at ELSE last
           d == [pane EXCEPT !.tasks = tasks, !.at = at]
<1>1. pane' = Follow(d)
  BY DEF ShowNow
<1>2. tasks = <<>> \/ at \in DOMAIN tasks
  <2>1. DOMAIN tasks = 1 .. Len(tasks) /\ Len(tasks) \in Nat
    BY ListShape DEF TasksOK
  <2>2. tasks # <<>> => Len(tasks) >= 1
    BY <2>1 DEF TasksOK, IsList
  <2>3. pane.at \in Nat /\ pane.at >= 1
    <3>1. DOMAIN pane.tasks = 1 .. Len(pane.tasks) /\ Len(pane.tasks) \in Nat
      BY ListShape DEF PaneOK, TasksOK
    <3> QED
      BY <3>1 DEF PaneOK
  <2>4. keep # {} => (CHOOSE i \in keep : TRUE) \in DOMAIN tasks
    OBVIOUS
  <2> HIDE DEF keep
  <2> QED
    BY <2>1, <2>2, <2>3, <2>4
<1>3. DOMAIN d = DOMAIN pane /\ d.tasks = tasks /\ d.at = at /\ d.row = pane.row /\ d.anchor = pane.anchor /\ d.prompt = pane.prompt
  BY DEF PaneOK
<1> HIDE DEF d, at
<1>4. PaneOK(d)
  BY <1>2, <1>3 DEF PaneOK
<1>5. PaneOK(Follow(d)) /\ Anchored(Follow(d))
  BY <1>4, FollowAnchors
<1> QED
  BY <1>1, <1>5 DEF PaneInv

\* A refresh leaves a task's children a list, and the tasks the tasks they were.
LEMMA ChildrenListed ==
  ASSUME NEW d, NEW s, IsList(s), NEW t \in ChildChanged(d, s)
  PROVE  IsList(t)
<1>1. CASE t \in {Removed(s, i) : i \in DOMAIN s}
  BY <1>1, ListKept
<1>2. CASE t \in {[s EXCEPT ![i].id = GraphId(s[i].who)] : i \in {j \in DOMAIN s : IsLocal(s[j].id)}}
  <2>1. PICK i \in DOMAIN s : t = [s EXCEPT ![i] = [s[i] EXCEPT !.id = GraphId(s[i].who)]]
    BY <1>2
  <2> QED
    BY <2>1, ListKept
<1>3. CASE \E e : t \in {<<e>> \o s, Append(s, e)}
  BY <1>3, ListKept
<1> QED
  BY <1>1, <1>2, <1>3 DEF ChildChanged

LEMMA TasksKept ==
  ASSUME NEW tasks, TasksOK(tasks), NEW i \in DOMAIN tasks
  PROVE  /\ TasksOK(Removed(tasks, i))
         /\ \A x : TasksOK([tasks EXCEPT ![i].link = x])
         /\ \A kind \in {"step", "file"} : \A s : IsList(s) => TasksOK([tasks EXCEPT ![i][kind] = s])
<1> DEFINE TaskOK(t) == DOMAIN t = {"id", "step", "file", "link"} /\ IsList(t.step) /\ IsList(t.file)
<1>1. IsList(tasks) /\ \A j \in DOMAIN tasks : TaskOK(tasks[j])
  BY DEF TasksOK
<1>2. ASSUME NEW t, TaskOK(t) PROVE TasksOK([tasks EXCEPT ![i] = t])
  <2>1. IsList([tasks EXCEPT ![i] = t])
    BY <1>1, ListKept
  <2>2. \A j \in DOMAIN tasks : TaskOK([tasks EXCEPT ![i] = t][j])
    <3> HIDE DEF TaskOK
    <3> QED
      BY <1>1, <1>2
  <2> QED
    BY <2>1, <2>2 DEF TasksOK
<1>3. ASSUME NEW x PROVE TasksOK([tasks EXCEPT ![i].link = x])
  <2>1. TaskOK([tasks[i] EXCEPT !.link = x])
    BY <1>1
  <2> QED
    BY <1>2, <2>1
<1>4. ASSUME NEW kind \in {"step", "file"}, NEW s, IsList(s) PROVE TasksOK([tasks EXCEPT ![i][kind] = s])
  <2>1. TaskOK([tasks[i] EXCEPT ![kind] = s])
    BY <1>1, <1>4
  <2> QED
    BY <1>2, <2>1
<1>5. TasksOK(Removed(tasks, i))
  <2>1. PICK S : tasks \in Seq(S)
    BY <1>1 DEF IsList
  <2> DEFINE a == SubSeq(tasks, 1, i - 1)
             b == SubSeq(tasks, i + 1, Len(tasks))
  <2>2. i \in 1 .. Len(tasks) /\ Len(tasks) \in Nat /\ DOMAIN tasks = 1 .. Len(tasks)
    BY <2>1
  <2>3. a \in Seq(S) /\ ToSet(a) \subseteq ToSet(tasks)
    BY <2>1, <2>2 DEF ToSet
  <2>4. b \in Seq(S) /\ ToSet(b) \subseteq ToSet(tasks)
    BY <2>1, <2>2 DEF ToSet
  <2> HIDE DEF a, b
  <2>5. a \o b \in Seq(S) /\ ToSet(a \o b) \subseteq ToSet(tasks)
    BY <2>3, <2>4, InJoined
  <2>6. Removed(tasks, i) = a \o b
    BY DEF Removed, a, b
  <2>7. \A j \in DOMAIN (a \o b) : TaskOK((a \o b)[j])
    <3> HIDE DEF TaskOK
    <3> QED
      BY <1>1, <2>5 DEF ToSet
  <2> QED
    BY <2>5, <2>6, <2>7 DEF TasksOK, IsList
<1> QED
  BY <1>3, <1>4, <1>5

LEMMA PaneStarts == DetailInit => PaneInv
<1> SUFFICES ASSUME DetailInit PROVE PaneInv
  OBVIOUS
<1>1. PICK name \in ChildNames :
        LET child(who, id) == [id |-> id, name |-> name, who |-> who]
            task(n, steps, files, link) == [id |-> n, step |-> steps, file |-> files, link |-> link]
        IN  pane = [tasks |-> <<task(1, <<child(1, LocalId(1)), child(2, GraphId(2))>>, <<>>, 3),
                                task(2, <<>>, <<child(4, GraphId(4))>>, NoChild)>>,
                    at |-> 1, row |-> FieldRow, anchor |-> {}, stale |-> FALSE, prompt |-> NoPrompt]
  BY DEF DetailInit
<1> DEFINE c1 == [id |-> LocalId(1), name |-> name, who |-> 1]
           c2 == [id |-> GraphId(2), name |-> name, who |-> 2]
           c4 == [id |-> GraphId(4), name |-> name, who |-> 4]
           t1 == [id |-> 1, step |-> <<c1, c2>>, file |-> <<>>, link |-> 3]
           t2 == [id |-> 2, step |-> <<>>, file |-> <<c4>>, link |-> NoChild]
<1>2. pane = [tasks |-> <<t1, t2>>, at |-> 1, row |-> FieldRow, anchor |-> {}, stale |-> FALSE, prompt |-> NoPrompt]
  BY <1>1, Zenon
<1> HIDE DEF c1, c2, c4
<1>3. <<c1, c2>> \in Seq({c1, c2}) /\ <<c4>> \in Seq({c4}) /\ <<>> \in Seq({})
  OBVIOUS
<1>4. IsList(t1.step) /\ IsList(t1.file) /\ IsList(t2.step) /\ IsList(t2.file)
  BY <1>3 DEF IsList
<1>5. DOMAIN t1 = {"id", "step", "file", "link"} /\ DOMAIN t2 = {"id", "step", "file", "link"}
  OBVIOUS
<1> HIDE DEF t1, t2
<1>6. <<t1, t2>> \in Seq({t1, t2}) /\ DOMAIN <<t1, t2>> = {1, 2}
  OBVIOUS
<1>7. TasksOK(<<t1, t2>>)
  <2>1. IsList(<<t1, t2>>)
    BY <1>6 DEF IsList
  <2>2. <<t1, t2>>[1] = t1 /\ <<t1, t2>>[2] = t2
    OBVIOUS
  <2>3. \A i \in {1, 2} : <<t1, t2>>[i] \in {t1, t2}
    BY <2>2
  <2> DEFINE tasks == <<t1, t2>>
  <2> HIDE DEF tasks
  <2>4. IsList(tasks) /\ DOMAIN tasks = {1, 2} /\ \A i \in {1, 2} : tasks[i] \in {t1, t2}
    BY <1>6, <2>1, <2>3 DEF tasks
  <2>5. TasksOK(tasks)
    BY <1>4, <1>5, <2>4 DEF TasksOK
  <2> QED
    BY <2>5 DEF tasks
<1>8. AnchorsOK({}) /\ FieldRow \in Rows /\ PromptOK(NoPrompt)
  BY DEF AnchorsOK, Rows, PromptOK
<1>9. PaneOK(pane)
  BY <1>2, <1>6, <1>7, <1>8 DEF PaneOK
<1>10. Anchored(pane)
  BY <1>2 DEF Anchored
<1> QED
  BY <1>9, <1>10 DEF PaneInv

LEMMA PaneKept == PaneInv /\ [DetailNext]_detailVars => PaneInv'
<1> SUFFICES ASSUME PaneInv, [DetailNext]_detailVars PROVE PaneInv'
  OBVIOUS
<1>p. PaneOK(pane)
  BY DEF PaneInv
<1>1. CASE MoveRow
  <2>1. PICK i \in DOMAIN DetailRows(pane.tasks[pane.at]) :
          KeyPressed(SetRow(pane, DetailRows(pane.tasks[pane.at])[i])) /\ pane.tasks # <<>>
    BY <1>1 DEF MoveRow
  <2> DEFINE task == pane.tasks[pane.at]
             row == DetailRows(task)[i]
  <2>2. IsList(task.step) /\ IsList(task.file)
    BY <1>p, <2>1 DEF PaneOK, TasksOK
  <2>3. row \in ToSet(DetailRows(task))
    BY <2>1 DEF ToSet
  <2>4. row \in Rows
    <3>1. DOMAIN task.step \subseteq Nat /\ DOMAIN task.file \subseteq Nat
      <4> HIDE DEF task
      <4> QED
        BY <2>2, ListShape
    <3> HIDE DEF task, row
    <3> QED
      BY <2>2, <2>3, <3>1, RowsShown DEF Rows, Heading
  <2>5. PaneOK(SetRow(pane, row))
    <3> DEFINE e == SetRow(pane, row)
    <3>1. DOMAIN e = DOMAIN pane /\ e.tasks = pane.tasks /\ e.at = pane.at /\ e.row = row /\ e.prompt = pane.prompt
          /\ e.anchor = {AnchorFor(task, RowOn(row, task))}
      BY <1>p, <2>1 DEF SetRow, PaneOK
    <3> HIDE DEF e, row
    <3> QED
      BY <1>p, <2>1, <2>4, <3>1, AnchoredOn DEF e
  <2> QED
    BY <2>1, <2>5, Pressed
<1>2. CASE MoveTask
  <2>1. PICK i \in DOMAIN pane.tasks : KeyPressed([pane EXCEPT !.at = i])
    BY <1>2 DEF MoveTask
  <2>2. PaneOK([pane EXCEPT !.at = i])
    BY <1>p DEF PaneOK
  <2> QED
    BY <2>1, <2>2, Pressed
<1>3. CASE RefusedKey
  BY <1>p, <1>3, PaneLeft, Pressed DEF RefusedKey
<1>4. CASE ChildKey
  <2>1. KeyPressed(pane) \/ \E x : PromptOK(x) /\ KeyPressed([pane EXCEPT !.prompt = x])
    BY <1>4 DEF ChildKey, PromptOK
  <2> QED
    BY <1>p, <2>1, PaneLeft, Pressed
<1>5. CASE AddStepKey
  BY <1>p, <1>5, PaneLeft, Pressed DEF AddStepKey, PromptOK
<1>6. CASE SubmitPrompt
  <2>1. KeyPressed(pane) \/ KeyPressed([pane EXCEPT !.prompt = NoPrompt])
    <3> DEFINE p == pane.prompt
               gone == OnScreen(pane, p.task) = {}
    <3>p. p.kind \in {"delete", "edit", "link_form", "new_step"}
      BY <1>p, <1>6 DEF SubmitPrompt, PaneOK, PromptOK
    <3>1. CASE p.kind = "delete"
      BY <1>6, <3>1 DEF SubmitPrompt
    <3>2. CASE p.kind # "delete" /\ gone
      BY <1>6, <3>2 DEF SubmitPrompt
    <3>3. CASE p.kind = "edit" /\ ~gone
      BY <1>6, <3>3 DEF SubmitPrompt
    <3>4. CASE p.kind = "link_form" /\ ~gone
      BY <1>6, <3>4 DEF SubmitPrompt
    <3>5. CASE p.kind = "new_step" /\ ~gone
      BY <1>6, <3>5 DEF SubmitPrompt
    <3> QED
      BY <3>p, <3>1, <3>2, <3>3, <3>4, <3>5
  <2> QED
    BY <1>p, <2>1, PaneLeft, Pressed DEF PromptOK
<1>7. CASE CancelPrompt
  BY <1>p, <1>7, PaneLeft, Pressed DEF CancelPrompt, PromptOK
<1>8. CASE RefreshChildren
  <2>1. PICK i \in DOMAIN pane.tasks :
          \/ \E kind \in {"step", "file"} : \E s \in ChildChanged(pane, pane.tasks[i][kind]) :
               ShowNow([pane.tasks EXCEPT ![i][kind] = s])
          \/ \E x : ShowNow([pane.tasks EXCEPT ![i].link = x])
    BY <1>8 DEF RefreshChildren
  <2>2. TasksOK(pane.tasks) /\ pane.tasks # <<>> /\ IsList(pane.tasks[i].step) /\ IsList(pane.tasks[i].file)
    BY <1>p DEF PaneOK, TasksOK
  <2>3. ASSUME NEW kind \in {"step", "file"}, NEW s \in ChildChanged(pane, pane.tasks[i][kind]),
               ShowNow([pane.tasks EXCEPT ![i][kind] = s])
        PROVE  PaneInv'
    <3>1. IsList(pane.tasks[i][kind])
      BY <2>2
    <3>2. IsList(s)
      BY <2>3, <3>1, ChildrenListed
    <3>3. TasksOK([pane.tasks EXCEPT ![i][kind] = s])
      BY <2>2, <3>2, TasksKept
    <3> QED
      BY <1>p, <2>2, <2>3, <3>3, NowShown
  <2>4. ASSUME NEW x, ShowNow([pane.tasks EXCEPT ![i].link = x]) PROVE PaneInv'
    <3>1. TasksOK([pane.tasks EXCEPT ![i].link = x])
      BY <2>2, TasksKept
    <3> QED
      BY <1>p, <2>2, <2>4, <3>1, NowShown
  <2> QED
    BY <2>1, <2>3, <2>4
<1>9. CASE RefreshTasks
  <2>1. PICK i \in DOMAIN pane.tasks : ShowNow(Removed(pane.tasks, i))
    BY <1>9 DEF RefreshTasks
  <2>2. TasksOK(Removed(pane.tasks, i)) /\ pane.tasks # <<>>
    BY <1>p, TasksKept DEF PaneOK
  <2> QED
    BY <1>p, <2>1, <2>2, NowShown
<1>10. CASE UNCHANGED detailVars
  BY <1>10 DEF PaneInv, detailVars
<1> QED
  BY <1>1, <1>2, <1>3, <1>4, <1>5, <1>6, <1>7, <1>8, <1>9, <1>10 DEF DetailNext

\* The pane's cursor and its anchor never come apart, whatever keys and refreshes
\* came in between (follow_detail_row).
THEOREM CursorHolds == DetailSpec => []CursorAnchored
<1>1. PaneInv => CursorAnchored
  BY DEF PaneInv, PaneOK, Anchored, CursorAnchored
<1> QED
  BY <1>1, PaneStarts, PaneKept, PTL DEF DetailSpec

-----------------------------------------------------------------------------
(* What a key means in the terminal: its fields, and what a key may name.  *)

AppFields == {"mode", "focus", "row", "val", "rows", "cur", "picked", "loading", "ready", "seeded", "signIn", "list", "nags",
              "filter", "meaning", "drawn", "recent", "waiting", "scroll", "quit", "sent"}
ModeFields == {"kind", "ids", "field", "text", "wrong", "at", "form", "before"}
Choosing == {"ChoosingField", "ChoosingImportance"}
FirstModes == {"Normal", "Palette"}

\* What a key pressed now may name.
Named(a) == ModeTargets(a) \cup SelectedTask(a) \cup Overdue(a)
AimedAt == aimed.targets \cup aimed.cursor \cup aimed.overdue

WellMade(a) ==
  /\ DOMAIN a = AppFields /\ DOMAIN a.mode = ModeFields
  /\ a.loading \in BOOLEAN /\ a.picked \subseteq ToSet(a.rows)

ModeOn(m, S) == m.ids \subseteq S /\ (m.kind \in FirstModes => m.ids = {})
WriteOn(w, rows, S) == w.ids \subseteq S /\ (w.op = "Edit" /\ w.field \notin {"Due", "Assignee"} => w.ids \subseteq ToSet(rows))

\* The app holds and sends tasks of S only.
OnlyOn(a, S) ==
  /\ WellMade(a) /\ ModeOn(a.mode, S)
  /\ a.mode.kind \in Choosing => a.picked \subseteq S
  /\ \A w \in a.sent : WriteOn(w, a.rows, S)

\* An app a key comes to.
Ready(a, S) == OnlyOn(a, S) /\ a.sent = {} /\ (a.mode.kind \in FirstModes => Named(a) \subseteq S)

NamedInv == OnlyOn(tui, AimedAt)

-----------------------------------------------------------------------------

LEMMA ModeMade ==
  ASSUME NEW kind, NEW ids
  PROVE  /\ DOMAIN Mode(kind) = ModeFields /\ Mode(kind).kind = kind /\ Mode(kind).ids = {}
         /\ DOMAIN OnTask(kind, ids) = ModeFields /\ OnTask(kind, ids).kind = kind /\ OnTask(kind, ids).ids = ids
BY DEF Mode, OnTask, ModeFields

LEMMA Opens ==
  ASSUME NEW a, NEW S, NEW m, OnlyOn(a, S), DOMAIN m = ModeFields, ModeOn(m, S), m.kind \in Choosing => a.picked \subseteq S
  PROVE  OnlyOn(In(a, m), S) /\ In(a, m).sent = a.sent /\ In(a, m).picked = a.picked /\ In(a, m).rows = a.rows
BY DEF OnlyOn, In, WellMade, AppFields

LEMMA Closes ==
  ASSUME NEW a, NEW S, OnlyOn(a, S)
  PROVE  /\ OnlyOn(Done(a), S) /\ Done(a).sent = a.sent /\ Done(a).picked = a.picked /\ Done(a).rows = a.rows
         /\ Done(a).mode.kind = "Normal" /\ Done(a).mode.ids = {}
<1>1. DOMAIN BrowseKeys = ModeFields /\ BrowseKeys.kind = "Normal" /\ BrowseKeys.ids = {}
  BY ModeMade DEF BrowseKeys
<1>2. ModeOn(BrowseKeys, S)
  BY <1>1 DEF ModeOn, FirstModes
<1>3. BrowseKeys.kind \notin Choosing
  BY <1>1 DEF Choosing
<1>4. OnlyOn(In(a, BrowseKeys), S)
  BY <1>1, <1>2, <1>3, Opens
<1> QED
  BY <1>1, <1>4 DEF Done, In, OnlyOn, WellMade, AppFields

LEMMA OpensOn ==
  ASSUME NEW a, NEW S, NEW kind, NEW ids, OnlyOn(a, S), ids \subseteq S, kind \notin FirstModes,
         kind \in Choosing => a.picked \subseteq S
  PROVE  OnlyOn(In(a, OnTask(kind, ids)), S)
<1>1. ModeOn(OnTask(kind, ids), S)
  BY ModeMade DEF ModeOn
<1> QED
  BY <1>1, ModeMade, Opens

LEMMA OpensPlain ==
  ASSUME NEW a, NEW S, NEW kind, OnlyOn(a, S), kind \notin Choosing
  PROVE  OnlyOn(In(a, Mode(kind)), S)
<1>1. ModeOn(Mode(kind), S)
  BY ModeMade DEF ModeOn
<1> QED
  BY <1>1, ModeMade, Opens

LEMMA Sends ==
  ASSUME NEW a, NEW S, NEW w, OnlyOn(a, S), WriteOn(w, a.rows, S)
  PROVE  OnlyOn(Send(a, w), S)
BY DEF OnlyOn, Send, WellMade, AppFields

LEMMA SendsWrite ==
  ASSUME NEW a, NEW S, NEW op, NEW ids, NEW field, NEW value, OnlyOn(a, S), ids \subseteq S,
         op = "Edit" /\ field \notin {"Due", "Assignee"} => ids \subseteq ToSet(a.rows)
  PROVE  OnlyOn(Send(a, Write(op, ids, field, value)), S)
<1>1. WriteOn(Write(op, ids, field, value), a.rows, S)
  BY DEF WriteOn, Write
<1> QED
  BY <1>1, Sends

LEMMA SendsLink ==
  ASSUME NEW a, NEW S, NEW op, NEW ids, NEW parts, OnlyOn(a, S), ids \subseteq S, op # "Edit"
  PROVE  OnlyOn(Send(a, LinkWrite(op, ids, parts)), S)
<1>1. WriteOn(LinkWrite(op, ids, parts), a.rows, S)
  BY DEF WriteOn, Write, LinkWrite
<1> QED
  BY <1>1, Sends

\* A change of what is neither held nor sent.
LEMMA Else ==
  ASSUME NEW a, NEW S, NEW b, OnlyOn(a, S), DOMAIN b = AppFields, b.mode = a.mode, b.rows = a.rows, b.sent = a.sent,
         b.picked \subseteq a.picked, b.loading \in BOOLEAN
  PROVE  OnlyOn(b, S)
BY DEF OnlyOn, WellMade

LEMMA TypedOn ==
  ASSUME NEW a, NEW S, NEW b, OnlyOn(a, S), DOMAIN b = AppFields, DOMAIN b.mode = ModeFields,
         b.mode.kind = a.mode.kind, b.mode.ids = a.mode.ids, b.rows = a.rows, b.sent = a.sent,
         b.picked = a.picked, b.loading = a.loading
  PROVE  OnlyOn(b, S)
BY DEF OnlyOn, WellMade, ModeOn

\* The selection is part of what is named, once the list is loaded.
LEMMA PickedNamed ==
  ASSUME NEW a, NEW S, WellMade(a), ~a.loading, Named(a) \subseteq S
  PROVE  a.picked \subseteq S
<1>1. CASE a.picked = {}
  BY <1>1
<1>2. CASE a.picked # {}
  <2>1. ModeTargets(a) = a.picked \cap ToSet(a.rows)
    BY <1>2 DEF ModeTargets
  <2> QED
    BY <2>1 DEF WellMade, Named
<1> QED
  BY <1>1, <1>2


\* The selection let go of.
LEMMA LetsGo ==
  ASSUME NEW a, NEW S, OnlyOn(a, S)
  PROVE  OnlyOn([a EXCEPT !.picked = {}], S) /\ [a EXCEPT !.picked = {}].rows = a.rows
<1> DEFINE b == [a EXCEPT !.picked = {}]
<1>1. DOMAIN b = AppFields /\ b.mode = a.mode /\ b.rows = a.rows /\ b.sent = a.sent /\ b.picked = {} /\ b.loading = a.loading
  BY DEF OnlyOn, WellMade, AppFields
<1>2. a.loading \in BOOLEAN
  BY DEF OnlyOn, WellMade
<1> HIDE DEF b
<1>3. OnlyOn(b, S)
  BY <1>1, <1>2, Else
<1> QED
  BY <1>1, <1>3 DEF b

\* A prompt closed with a change sent.
LEMMA ClosesWith ==
  ASSUME NEW a, NEW S, NEW op, NEW ids, NEW field, NEW value, OnlyOn(a, S), ids \subseteq S,
         op = "Edit" /\ field \notin {"Due", "Assignee"} => ids \subseteq ToSet(a.rows)
  PROVE  /\ OnlyOn(Send(Done(a), Write(op, ids, field, value)), S)
         /\ OnlyOn(Send([Done(a) EXCEPT !.picked = {}], Write(op, ids, field, value)), S)
         /\ OnlyOn(Send([a EXCEPT !.picked = {}], Write(op, ids, field, value)), S)
<1>1. OnlyOn(Done(a), S) /\ Done(a).rows = a.rows
  BY Closes
<1>2. OnlyOn([Done(a) EXCEPT !.picked = {}], S) /\ [Done(a) EXCEPT !.picked = {}].rows = a.rows
  BY <1>1, LetsGo
<1>3. OnlyOn([a EXCEPT !.picked = {}], S) /\ [a EXCEPT !.picked = {}].rows = a.rows
  BY LetsGo
<1>4. OnlyOn(Send(Done(a), Write(op, ids, field, value)), S)
  BY <1>1, SendsWrite
<1>5. OnlyOn(Send([Done(a) EXCEPT !.picked = {}], Write(op, ids, field, value)), S)
  BY <1>2, SendsWrite
<1>6. OnlyOn(Send([a EXCEPT !.picked = {}], Write(op, ids, field, value)), S)
  BY <1>3, SendsWrite
<1> QED
  BY <1>4, <1>5, <1>6

LEMMA Rejects ==
  ASSUME NEW a, NEW S, OnlyOn(a, S)
  PROVE  OnlyOn([a EXCEPT !.mode.wrong = TRUE], S)
<1> DEFINE b == [a EXCEPT !.mode.wrong = TRUE]
<1>1. DOMAIN b = AppFields /\ DOMAIN b.mode = ModeFields /\ b.mode.kind = a.mode.kind /\ b.mode.ids = a.mode.ids
      /\ b.rows = a.rows /\ b.sent = a.sent /\ b.picked = a.picked /\ b.loading = a.loading
  BY DEF OnlyOn, WellMade, AppFields, ModeFields
<1> HIDE DEF b
<1>2. OnlyOn(b, S)
  BY <1>1, TypedOn
<1> QED
  BY <1>2 DEF b

LEMMA PickedIn ==
  ASSUME NEW a, NEW S, Ready(a, S), a.mode.kind \in {"Normal"} \cup Choosing, ~a.loading
  PROVE  a.picked \subseteq S
<1>1. CASE a.mode.kind = "Normal"
  BY <1>1, PickedNamed DEF Ready, OnlyOn, FirstModes
<1>2. CASE a.mode.kind \in Choosing
  BY <1>2 DEF Ready, OnlyOn
<1> QED
  BY <1>1, <1>2

-----------------------------------------------------------------------------

LEMMA OpenFieldOn ==
  ASSUME NEW a, NEW S, NEW ids, NEW field, Ready(a, S), a.mode.kind \in {"Normal"} \cup Choosing, ids \subseteq S
  PROVE  OnlyOn(OpenField(a, ids, field), S)
<1>0. OnlyOn(a, S)
  BY DEF Ready
<1>1. CASE ~InScope(a, ids)
  BY <1>0, <1>1, Closes DEF OpenField
<1>2. CASE InScope(a, ids)
  <2>1. a.picked \subseteq S
    BY <1>2, PickedIn DEF InScope
  <2> DEFINE m == IF field = "Importance" THEN OnTask("ChoosingImportance", ids)
                  ELSE [OnTask("Editing", ids) EXCEPT !.field = field, !.text = a.val[CHOOSE t \in ids : TRUE][field]]
  <2>2. DOMAIN m = ModeFields /\ m.ids = ids /\ m.kind \notin FirstModes
    BY ModeMade DEF ModeFields, FirstModes
  <2> DEFINE b == [a EXCEPT !.focus = "Detail", !.row = field, !.mode = m]
  <2>3. OpenField(a, ids, field) = b
    BY <1>2 DEF OpenField
  <2> HIDE DEF m
  <2>4. DOMAIN b = AppFields /\ b.mode = m /\ b.rows = a.rows /\ b.sent = a.sent /\ b.picked = a.picked /\ b.loading = a.loading
    BY <1>0 DEF OnlyOn, WellMade, AppFields
  <2> HIDE DEF b
  <2>5. OnlyOn(b, S)
    BY <1>0, <2>1, <2>2, <2>4 DEF OnlyOn, WellMade, ModeOn
  <2> QED
    BY <2>3, <2>5
<1> QED
  BY <1>1, <1>2

LEMMA SetImportanceOn ==
  ASSUME NEW a, NEW S, NEW ids, NEW level, OnlyOn(a, S), ids \subseteq S
  PROVE  OnlyOn(SetImportance(a, ids, level), S)
<1>1. CASE ~InScope(a, ids)
  BY <1>1, Closes DEF SetImportance
<1>2. CASE InScope(a, ids)
  <2> DEFINE b == [Done(a) EXCEPT !.row = "Importance"]
  <2>1. OnlyOn(Done(a), S) /\ Done(a).rows = a.rows
    BY Closes
  <2>2. DOMAIN b = AppFields /\ b.mode = Done(a).mode /\ b.rows = Done(a).rows /\ b.sent = Done(a).sent
        /\ b.picked = Done(a).picked /\ b.loading = Done(a).loading /\ Done(a).loading \in BOOLEAN
    BY <2>1 DEF OnlyOn, WellMade, AppFields
  <2>3. SetImportance(a, ids, level) = b \/ SetImportance(a, ids, level) = Send(b, Write("Edit", ids, "Importance", level))
    BY <1>2 DEF SetImportance
  <2> HIDE DEF b
  <2>4. OnlyOn(b, S)
    BY <2>1, <2>2, Else
  <2>5. ids \subseteq ToSet(b.rows)
    BY <1>2, <2>1, <2>2 DEF InScope
  <2>6. OnlyOn(Send(b, Write("Edit", ids, "Importance", level)), S)
    BY <2>4, <2>5, SendsWrite
  <2> QED
    BY <2>3, <2>4, <2>6
<1> QED
  BY <1>1, <1>2

LEMMA StartForOn ==
  ASSUME NEW a, NEW S, NEW kind, OnlyOn(a, S), ModeTargets(a) \subseteq S, kind \notin FirstModes \cup Choosing
  PROVE  OnlyOn(StartFor(a, kind), S)
BY OpensOn DEF StartFor

LEMMA StartAssignOn ==
  ASSUME NEW a, NEW S, OnlyOn(a, S), ModeTargets(a) \subseteq S
  PROVE  OnlyOn(StartAssign(a), S)
<1> DEFINE names == {a.val[t]["Assignee"] : t \in ModeTargets(a)}
           m == [OnTask("Assigning", ModeTargets(a)) EXCEPT !.text = IF Cardinality(names) = 1 THEN CHOOSE n \in names : TRUE ELSE ""]
<1>1. StartAssign(a) = a \/ StartAssign(a) = In(a, m)
  BY DEF StartAssign
<1>2. DOMAIN m = ModeFields /\ m.ids = ModeTargets(a) /\ m.kind = "Assigning"
  BY ModeMade DEF ModeFields
<1> HIDE DEF m
<1>3. ModeOn(m, S) /\ m.kind \notin Choosing
  BY <1>2 DEF ModeOn, FirstModes, Choosing
<1>4. OnlyOn(In(a, m), S)
  BY <1>2, <1>3, Opens
<1> QED
  BY <1>1, <1>4

LEMMA StartRescheduleOn ==
  ASSUME NEW a, NEW S, OnlyOn(a, S), Overdue(a) \subseteq S
  PROVE  OnlyOn(StartReschedule(a), S)
BY OpensOn DEF StartReschedule, FirstModes, Choosing

\* Closing a prompt leaves what is aimed at.
LEMMA StillAimed ==
  ASSUME NEW a, NEW S, OnlyOn(a, S)
  PROVE  ModeTargets(Done(a)) = ModeTargets(a)
BY DEF OnlyOn, WellMade, AppFields, Done, In, ModeTargets, SelectedTask

LEMMA FieldsAre == Fields = {"Title", "Due", "Start", "Reminder", "Importance", "Assignee", "Defer", "Repeat", "Notes"}
<1>1. DOMAIN FieldKeys = {"t", "d", "s", "r", "i", "a", "f", "p", "n"}
  BY DEF FieldKeys
<1> QED
  BY <1>1 DEF Fields, FieldKeys

LEMMA EditActionOn ==
  ASSUME NEW a, NEW S, NEW action, Ready(a, S), a.mode.kind \in {"Normal"} \cup Choosing,
         action \in {"Edit", "EditHere", "CycleImportance"} \cup Fields \cup LevelActions
  PROVE  OnlyOn(EditActionOf(a, action), S)
<1>0. OnlyOn(a, S)
  BY DEF Ready
<1> DEFINE ids == EditTarget(a)
           Several == action \in {"Due", "Assignee"} /\ a.picked # {}
<1>1. ids \subseteq S
  BY DEF EditTarget, Ready, OnlyOn, ModeOn, Named, FirstModes, Choosing
<1>2. CASE a.mode.kind = "Normal" /\ a.loading
  BY <1>0, <1>2 DEF EditActionOf
<1>3. CASE ~(a.mode.kind = "Normal" /\ a.loading) /\ Several
  <2>1. OnlyOn(Done(a), S)
    BY <1>0, Closes
  <2>2. ModeTargets(Done(a)) \subseteq S
    <3>1. ModeTargets(a) \subseteq a.picked
      BY <1>3 DEF ModeTargets
    <3>2. a.picked \subseteq S
      BY <1>3, PickedNamed DEF Ready, OnlyOn, FirstModes, WellMade
    <3> QED
      BY <1>0, <3>1, <3>2, StillAimed
  <2>3. OnlyOn(StartFor(Done(a), "SettingDue"), S) /\ OnlyOn(StartAssign(Done(a)), S)
    BY <2>1, <2>2, StartForOn, StartAssignOn DEF FirstModes, Choosing
  <2>4. EditActionOf(a, action) = StartFor(Done(a), "SettingDue") \/ EditActionOf(a, action) = StartAssign(Done(a))
    BY <1>3 DEF EditActionOf
  <2> QED
    BY <2>3, <2>4
<1>4. CASE ~(a.mode.kind = "Normal" /\ a.loading) /\ ~Several
  <2> HIDE DEF ids
  <2>1. a.picked \subseteq S
    BY <1>4, PickedNamed DEF Ready, OnlyOn, FirstModes, WellMade
  <2>2. OnlyOn(Done(a), S)
    BY <1>0, Closes
  <2>3. OnlyOn(In(a, OnTask("ChoosingField", ids)), S)
    BY <1>0, <1>1, <2>1, OpensOn DEF FirstModes
  <2>4. \A field : OnlyOn(OpenField(a, ids, field), S)
    BY <1>1, OpenFieldOn
  <2>5. \A level : OnlyOn(SetImportance(a, ids, level), S)
    BY <1>0, <1>1, SetImportanceOn
  <2> DEFINE Out == \/ EditActionOf(a, action) \in {a, Done(a), In(a, OnTask("ChoosingField", ids))}
                    \/ \E field : EditActionOf(a, action) = OpenField(a, ids, field)
                    \/ \E level : EditActionOf(a, action) = SetImportance(a, ids, level)
  <2>6. Out
    <3>1. CASE ids = {}
      BY <1>4, <3>1 DEF EditActionOf, ids
    <3>2. CASE ids # {} /\ action = "Edit"
      BY <1>4, <3>2 DEF EditActionOf, ids
    <3>3. CASE ids # {} /\ action = "EditHere"
      BY <1>4, <3>3 DEF EditActionOf, ids
    <3>4. CASE ids # {} /\ action \in Fields
      <4>1. action \notin {"Edit", "EditHere", "CycleImportance"} \cup LevelActions
        BY <3>4, FieldsAre DEF LevelActions
      <4>2. EditActionOf(a, action) = OpenField(a, ids, action)
        BY <1>4, <3>4, <4>1 DEF EditActionOf, ids
      <4> QED
        BY <4>2
    <3>5. CASE ids # {} /\ action = "CycleImportance"
      <4> DEFINE next == SetImportance(a, ids, NextLevel(a.val[CHOOSE t \in ids : TRUE]["Importance"]))
      <4>1. action \notin {"Edit", "EditHere"} \cup Fields \cup LevelActions
        BY <3>5, FieldsAre DEF LevelActions
      <4>2. EditActionOf(a, action) = Done(a) \/ EditActionOf(a, action) = next
        BY <1>4, <3>5, <4>1 DEF EditActionOf, ids
      <4> QED
        BY <4>2
    <3>6. CASE ids # {} /\ action \in LevelActions
      <4>1. action \notin {"Edit", "EditHere", "CycleImportance"} \cup Fields
        BY <3>6, FieldsAre DEF LevelActions
      <4>2. EditActionOf(a, action) = SetImportance(a, ids, LevelText[action])
        BY <1>4, <3>6, <4>1 DEF EditActionOf, ids
      <4> QED
        BY <4>2
    <3> QED
      BY <3>1, <3>2, <3>3, <3>4, <3>5, <3>6
  <2> QED
    BY <1>0, <2>2, <2>3, <2>4, <2>5, <2>6
<1> QED
  BY <1>2, <1>3, <1>4


-----------------------------------------------------------------------------

LEMMA ClosesWithLink ==
  ASSUME NEW a, NEW S, NEW op, NEW ids, NEW parts, OnlyOn(a, S), ids \subseteq S, op # "Edit"
  PROVE  OnlyOn(Send(Done(a), LinkWrite(op, ids, parts)), S)
BY Closes, SendsLink

LEMMA SubmitEditOn ==
  ASSUME NEW a, NEW S, OnlyOn(a, S)
  PROVE  OnlyOn(SubmitEdit(a), S)
<1> DEFINE sent == Send(Done(a), Write("Edit", a.mode.ids, a.mode.field, a.mode.text))
<1>1. CASE ~InScope(a, a.mode.ids)
  <2>1. SubmitEdit(a) = Done(a)
    BY <1>1 DEF SubmitEdit
  <2> QED
    BY <2>1, Closes
<1>2. CASE InScope(a, a.mode.ids)
  <2>1. SubmitEdit(a) \in {[a EXCEPT !.mode.wrong = TRUE], Done(a), sent}
    BY <1>2 DEF SubmitEdit
  <2>2. a.mode.ids \subseteq S /\ a.mode.ids \subseteq ToSet(a.rows)
    BY <1>2 DEF InScope, OnlyOn, ModeOn
  <2>3. OnlyOn(sent, S)
    BY <2>2, ClosesWith
  <2> QED
    BY <2>1, <2>3, Closes, Rejects
<1> QED
  BY <1>1, <1>2

LEMMA SubmitSetDueOn ==
  ASSUME NEW a, NEW S, OnlyOn(a, S)
  PROVE  OnlyOn(SubmitSetDue(a), S)
<1>1. a.mode.ids \subseteq S
  BY DEF OnlyOn, ModeOn
<1>2. OnlyOn(In(a, OnTask("ConfirmClearDue", a.mode.ids)), S)
  BY <1>1, OpensOn DEF FirstModes, Choosing
<1>3. OnlyOn(Send([Done(a) EXCEPT !.picked = {}], Write("Edit", PromptIds(a), "Due", a.mode.text)), S)
  BY <1>1, ClosesWith DEF PromptIds
<1> QED
  BY <1>2, <1>3, Rejects DEF SubmitSetDue

LEMMA PromptsOn ==
  ASSUME NEW a, NEW S, OnlyOn(a, S)
  PROVE  /\ OnlyOn(ConfirmClearDue(a), S) /\ OnlyOn(SubmitAssign(a), S) /\ OnlyOn(SubmitAttach(a), S)
         /\ OnlyOn(SubmitNewTask(a), S) /\ OnlyOn(SubmitListName(a), S) /\ OnlyOn(SubmitMoveTasks(a), S)
         /\ \A op, value : OnlyOn(ListWrite(a, op, value), S)
<1>1. a.mode.ids \subseteq S
  BY DEF OnlyOn, ModeOn
<1>2. OnlyOn(ConfirmClearDue(a), S)
  BY <1>1, ClosesWith DEF ConfirmClearDue
<1>3. OnlyOn(SubmitAssign(a), S)
  BY <1>1, ClosesWith DEF SubmitAssign
<1>4. OnlyOn(SubmitAttach(a), S)
  <2>1. OnlyOn(Send(Done(a), Write("Attach", a.mode.ids, "None", a.mode.text)), S)
    BY <1>1, ClosesWith
  <2> QED
    BY <2>1, Closes, Rejects DEF SubmitAttach
<1>5. OnlyOn(SubmitNewTask(a), S)
  <2>1. OnlyOn(Send(Done(a), Write("AddTask", {}, "None", a.mode.text)), S)
    BY ClosesWith
  <2>2. OnlyOn(Done(a), S)
    BY Closes
  <2>3. SubmitNewTask(a) \in {a, Done(a), Send(Done(a), Write("AddTask", {}, "None", a.mode.text))}
    <3>1. CASE a.mode.text = "" \/ a.loading
      BY <3>1 DEF SubmitNewTask
    <3>2. CASE ~(a.mode.text = "" \/ a.loading)
      BY <3>2 DEF SubmitNewTask
    <3> QED
      BY <3>1, <3>2
  <2> QED
    BY <2>1, <2>2, <2>3
<1>6. \A op, value : OnlyOn(ListWrite(a, op, value), S)
  BY ClosesWith DEF ListWrite
<1>7. OnlyOn(SubmitListName(a), S)
  <2>1. \A op : OnlyOn(Send(Done(a), Write(op, {}, "None", a.mode.text)), S)
    BY ClosesWith
  <2> QED
    BY <2>1, Closes DEF SubmitListName
<1>8. OnlyOn(SubmitMoveTasks(a), S)
  <2>1. OnlyOn(Send([Done(a) EXCEPT !.picked = {}], Write("Move", a.mode.ids, "None", "one")), S)
    BY <1>1, ClosesWith
  <2>2. SubmitMoveTasks(a) \in {Done(a), ListWrite(a, "MergeList", "one"),
                                Send([Done(a) EXCEPT !.picked = {}], Write("Move", a.mode.ids, "None", "one"))}
    <3>1. CASE a.mode.at >= MoveChoices(a.mode.text)
      BY <3>1 DEF SubmitMoveTasks
    <3>2. CASE ~(a.mode.at >= MoveChoices(a.mode.text))
      BY <3>2 DEF SubmitMoveTasks
    <3> QED
      BY <3>1, <3>2
  <2> QED
    BY <1>6, <2>1, <2>2, Closes
<1> QED
  BY <1>2, <1>3, <1>4, <1>5, <1>6, <1>7, <1>8

LEMMA ToggleNagOn ==
  ASSUME NEW a, NEW S, OnlyOn(a, S), ModeTargets(a) \subseteq S
  PROVE  OnlyOn(ToggleNag(a), S)
<1> DEFINE quiet == {t \in ModeTargets(a) : ~a.nags[t]}
<1>1. OnlyOn(Send([a EXCEPT !.picked = {}], Write("Nag", ModeTargets(a), "None", "")), S)
  BY ClosesWith
<1>2. OnlyOn(Send([a EXCEPT !.picked = {}], Write("Nag", quiet, "None", "one")), S)
  BY ClosesWith
<1> QED
  BY <1>1, <1>2 DEF ToggleNag

LEMMA StraightOn ==
  ASSUME NEW a, NEW S, NEW op, OnlyOn(a, S), ModeTargets(a) \subseteq S, op # "Edit"
  PROVE  OnlyOn(Straight(a, op), S)
BY ClosesWith DEF Straight

LEMMA NextLinkPartOn ==
  ASSUME NEW a, NEW S, OnlyOn(a, S), a.mode.kind \notin FirstModes
  PROVE  OnlyOn(NextLinkPart(a), S)
<1> DEFINE m == a.mode
           n == [m EXCEPT !.form[m.field] = m.text, !.field = NextPart(m.field), !.wrong = FALSE, !.text = m.form[NextPart(m.field)]]
<1>1. DOMAIN n = ModeFields /\ n.kind = m.kind /\ n.ids = m.ids
  BY DEF OnlyOn, WellMade, ModeFields
<1>2. NextLinkPart(a) = a \/ NextLinkPart(a) = In(a, n)
  BY DEF NextLinkPart
<1> HIDE DEF n
<1>3. ModeOn(n, S) /\ (n.kind \in Choosing => a.picked \subseteq S)
  BY <1>1 DEF OnlyOn, ModeOn
<1> QED
  BY <1>1, <1>2, <1>3, Opens

LEMMA LinkChangeOn ==
  ASSUME NEW a, NEW S, OnlyOn(a, S)
  PROVE  OnlyOn(LinkChange(a), S)
<1> DEFINE m == a.mode
           typed == [m.form EXCEPT ![m.field] = m.text]
           before == a.val[CHOOSE t \in m.ids : TRUE]
           changed == {part \in PartNames : typed[part] # before[part]}
           added == {part \in PartNames : typed[part] # ""}
<1>1. LinkChange(a) \in {[a EXCEPT !.mode.wrong = TRUE], Done(a), Send(Done(a), LinkWrite("AddLink", m.ids, added)),
                         Send(Done(a), LinkWrite("EditLink", m.ids, changed))}
  BY DEF LinkChange
<1>2. a.mode.ids \subseteq S
  BY DEF OnlyOn, ModeOn
<1> HIDE DEF changed, added
<1>3. /\ OnlyOn(Send(Done(a), LinkWrite("AddLink", m.ids, added)), S)
      /\ OnlyOn(Send(Done(a), LinkWrite("EditLink", m.ids, changed)), S)
  BY <1>2, ClosesWithLink
<1> QED
  BY <1>1, <1>3, Closes, Rejects

\* The step prompt, and the link's form, of some tasks.
LEMMA ChildForms ==
  ASSUME NEW a, NEW S, NEW ids, OnlyOn(a, S), ids \subseteq S
  PROVE  /\ OnlyOn(In(a, [OnTask("EditingChild", ids) EXCEPT !.field = "Step"]), S)
         /\ In(a, [OnTask("EditingChild", ids) EXCEPT !.field = "Step"]).rows = a.rows
<1> DEFINE m == [OnTask("EditingChild", ids) EXCEPT !.field = "Step"]
<1>1. DOMAIN m = ModeFields /\ m.kind = "EditingChild" /\ m.ids = ids
  BY ModeMade DEF ModeFields
<1> HIDE DEF m
<1>2. ModeOn(m, S) /\ m.kind \notin Choosing
  BY <1>1 DEF ModeOn, FirstModes, Choosing
<1> QED
  BY <1>1, <1>2, Opens DEF m

LEMMA LinkFormOn ==
  ASSUME NEW a, NEW S, NEW t, OnlyOn(a, S), t \in S
  PROVE  OnlyOn(In(a, LinkFormOf(a, t)), S)
<1>1. DOMAIN LinkFormOf(a, t) = ModeFields /\ LinkFormOf(a, t).kind = "EditingChild" /\ LinkFormOf(a, t).ids = {t}
  BY ModeMade DEF LinkFormOf, ModeFields
<1>2. ModeOn(LinkFormOf(a, t), S) /\ LinkFormOf(a, t).kind \notin Choosing
  BY <1>1 DEF ModeOn, FirstModes, Choosing
<1> QED
  BY <1>1, <1>2, Opens

LEMMA SubmitChildOn ==
  ASSUME NEW a, NEW S, OnlyOn(a, S)
  PROVE  OnlyOn(SubmitChild(a), S)
<1> DEFINE b == In(a, [OnTask("EditingChild", a.mode.ids) EXCEPT !.field = "Step"])
           sent == Send(b, Write("AddStep", a.mode.ids, "Step", a.mode.text))
<1>1. SubmitChild(a) \in {Done(a), LinkChange(a), sent}
  BY DEF SubmitChild
<1>2. a.mode.ids \subseteq S
  BY DEF OnlyOn, ModeOn
<1>3. OnlyOn(b, S)
  BY <1>2, ChildForms
<1> HIDE DEF b
<1>4. OnlyOn(sent, S)
  BY <1>2, <1>3, SendsWrite
<1> QED
  BY <1>1, <1>4, Closes, LinkChangeOn

LEMMA ChildActionOn ==
  ASSUME NEW a, NEW S, NEW action, OnlyOn(a, S), SelectedTask(a) # {}, SelectedTask(a) \subseteq S
  PROVE  OnlyOn(ChildAction(a, action), S)
<1> DEFINE t == CHOOSE t \in SelectedTask(a) : TRUE
<1>1. t \in S
  OBVIOUS
<1>2. ChildAction(a, action) \in {a, In(a, [OnTask("EditingChild", {t}) EXCEPT !.field = "Step"]), In(a, LinkFormOf(a, t)),
                                  In(a, OnTask("ConfirmDeleteChild", {t}))}
  BY DEF ChildAction
<1> HIDE DEF t
<1>3. OnlyOn(In(a, [OnTask("EditingChild", {t}) EXCEPT !.field = "Step"]), S)
  BY <1>1, ChildForms
<1>4. OnlyOn(In(a, OnTask("ConfirmDeleteChild", {t})), S)
  BY <1>1, OpensOn DEF FirstModes, Choosing
<1> QED
  BY <1>1, <1>2, <1>3, <1>4, LinkFormOn


-----------------------------------------------------------------------------

\* Where a prompt about lists, themes or the page opens, no task is named.
LEMMA OpensFree ==
  ASSUME NEW a, NEW S, NEW m, OnlyOn(a, S), DOMAIN m = ModeFields, m.ids = {}, m.kind \notin Choosing
  PROVE  OnlyOn(In(a, m), S)
<1>1. ModeOn(m, S)
  BY DEF ModeOn
<1> QED
  BY <1>1, Opens

LEMMA StartListOn ==
  ASSUME NEW a, NEW S, NEW kind, NEW field, NEW text, OnlyOn(a, S), kind \notin Choosing
  PROVE  OnlyOn(StartList(a, kind, field, text), S)
<1> DEFINE m == [Mode(kind) EXCEPT !.field = field, !.text = text]
<1>1. DOMAIN m = ModeFields /\ m.kind = kind /\ m.ids = {}
  BY ModeMade DEF ModeFields
<1>2. StartList(a, kind, field, text) = a \/ StartList(a, kind, field, text) = In(a, m)
  BY DEF StartList
<1> HIDE DEF m
<1>3. OnlyOn(In(a, m), S)
  BY <1>1, OpensFree
<1> QED
  BY <1>2, <1>3

LEMMA OpenThemesOn ==
  ASSUME NEW a, NEW S, OnlyOn(a, S)
  PROVE  OnlyOn(OpenThemes(a), S)
<1> DEFINE m == [Mode("Themes") EXCEPT !.at = a.drawn, !.before = a.drawn]
<1>1. DOMAIN m = ModeFields /\ m.ids = {} /\ m.kind = "Themes"
  BY ModeMade DEF ModeFields
<1>2. OpenThemes(a) = In(a, m)
  BY DEF OpenThemes
<1> HIDE DEF m
<1> QED
  BY <1>1, <1>2, OpensFree DEF Choosing

LEMMA StepThemeOn ==
  ASSUME NEW a, NEW S, NEW down, OnlyOn(a, S)
  PROVE  OnlyOn(StepTheme(a, down), S)
<1> DEFINE at == StepIn(a.mode.at, Themes, down)
           b == [a EXCEPT !.mode.at = at, !.drawn = at]
<1>1. StepTheme(a, down) = b
  BY DEF StepTheme
<1> HIDE DEF at
<1>2. DOMAIN b = AppFields /\ DOMAIN b.mode = ModeFields /\ b.mode.kind = a.mode.kind /\ b.mode.ids = a.mode.ids
      /\ b.rows = a.rows /\ b.sent = a.sent /\ b.picked = a.picked /\ b.loading = a.loading
  BY DEF OnlyOn, WellMade, AppFields, ModeFields
<1> HIDE DEF b
<1> QED
  BY <1>1, <1>2, TypedOn

LEMMA ScrolledOn ==
  ASSUME NEW a, NEW S, NEW at, OnlyOn(a, S)
  PROVE  OnlyOn([a EXCEPT !.mode.at = at], S)
<1> DEFINE b == [a EXCEPT !.mode.at = at]
<1>1. DOMAIN b = AppFields /\ DOMAIN b.mode = ModeFields /\ b.mode.kind = a.mode.kind /\ b.mode.ids = a.mode.ids
      /\ b.rows = a.rows /\ b.sent = a.sent /\ b.picked = a.picked /\ b.loading = a.loading
  BY DEF OnlyOn, WellMade, AppFields, ModeFields
<1> HIDE DEF b
<1>2. OnlyOn(b, S)
  BY <1>1, TypedOn
<1> QED
  BY <1>2 DEF b

\* A change of one part of the app that names no task.
LEMMA Others ==
  ASSUME NEW a, NEW S, NEW x, OnlyOn(a, S)
  PROVE  /\ OnlyOn([a EXCEPT !.drawn = x], S) /\ OnlyOn([a EXCEPT !.waiting = x], S) /\ OnlyOn([a EXCEPT !.scroll = x], S)
         /\ OnlyOn([a EXCEPT !.cur = x], S) /\ OnlyOn([a EXCEPT !.row = x], S) /\ OnlyOn([a EXCEPT !.focus = x], S)
         /\ OnlyOn([a EXCEPT !.filter = x], S) /\ OnlyOn([a EXCEPT !.quit = x], S) /\ OnlyOn([a EXCEPT !.meaning = x], S)
         /\ OnlyOn([a EXCEPT !.recent = x], S)
         /\ OnlyOn([a EXCEPT !.loading = TRUE, !.picked = {}], S)
<1>1. DOMAIN a = AppFields /\ a.loading \in BOOLEAN
  BY DEF OnlyOn, WellMade
<1>2. OnlyOn([a EXCEPT !.drawn = x], S) /\ OnlyOn([a EXCEPT !.waiting = x], S) /\ OnlyOn([a EXCEPT !.scroll = x], S)
  BY <1>1, Else DEF AppFields
<1>3. OnlyOn([a EXCEPT !.cur = x], S) /\ OnlyOn([a EXCEPT !.row = x], S) /\ OnlyOn([a EXCEPT !.focus = x], S)
  BY <1>1, Else DEF AppFields
<1>4. OnlyOn([a EXCEPT !.filter = x], S) /\ OnlyOn([a EXCEPT !.quit = x], S) /\ OnlyOn([a EXCEPT !.meaning = x], S)
  BY <1>1, Else DEF AppFields
<1>5. OnlyOn([a EXCEPT !.recent = x], S)
  BY <1>1, Else DEF AppFields
<1>6. OnlyOn([a EXCEPT !.loading = TRUE, !.picked = {}], S)
  BY <1>1, Else DEF AppFields
<1> QED
  BY <1>2, <1>3, <1>4, <1>5, <1>6

LEMMA PageOn ==
  ASSUME NEW a, NEW S, OnlyOn(a, S)
  PROVE  OnlyOn(RefreshPage(a), S) /\ OnlyOn(OpenDiagnostics(a), S) /\ \A down : OnlyOn(ScrollPage(a, down), S)
<1>1. ASSUME NEW b, OnlyOn(b, S) PROVE OnlyOn(RefreshPage(b), S)
  <2>1. OnlyOn([b EXCEPT !.waiting = 3], S)
    BY <1>1, Others
  <2> QED
    BY <2>1, SendsWrite DEF RefreshPage
<1>2. OnlyOn(In(a, Mode("Diagnostics")), S)
  BY OpensPlain DEF Choosing
<1>3. OnlyOn([In(a, Mode("Diagnostics")) EXCEPT !.scroll = 0], S)
  BY <1>2, Others
<1>4. OnlyOn(OpenDiagnostics(a), S)
  BY <1>1, <1>3 DEF OpenDiagnostics
<1>5. \A down : OnlyOn(ScrollPage(a, down), S)
  BY Others DEF ScrollPage
<1> QED
  BY <1>1, <1>4, <1>5

LEMMA NavigateOn ==
  ASSUME NEW a, NEW S, NEW action, OnlyOn(a, S)
  PROVE  OnlyOn(NavigateIn(a, action), S) /\ OnlyOn(Refocus(a, action), S)
<1>1. OnlyOn([a EXCEPT !.loading = TRUE, !.picked = {}], S) /\ OnlyOn([a EXCEPT !.cur = Moved(a.rows, a.cur, action)], S)
      /\ OnlyOn([a EXCEPT !.row = Moved(DetailOrder, a.row, action)], S)
  BY Others
<1>2. OnlyOn(NavigateIn(a, action), S)
  BY <1>1 DEF NavigateIn
<1>3. PICK x : Refocus(a, action) = [a EXCEPT !.focus = x]
  BY DEF Refocus
<1>4. OnlyOn(Refocus(a, action), S)
  <2>1. OnlyOn([a EXCEPT !.focus = x], S)
    BY Others
  <2> QED
    BY <1>3, <2>1
<1> QED
  BY <1>2, <1>4

-----------------------------------------------------------------------------

LEMMA BrowseTaskOn ==
  ASSUME NEW a, NEW S, NEW action, Ready(a, S), a.mode.kind = "Normal", action \in Loaded
  PROVE  OnlyOn(BrowseTask(a, action), S)
<1>0. OnlyOn(a, S) /\ ModeTargets(a) \subseteq S /\ SelectedTask(a) \subseteq S /\ Overdue(a) \subseteq S
  BY DEF Ready, FirstModes, Named
<1>1. CASE a.loading
  BY <1>0, <1>1 DEF BrowseTask
<1>2. CASE ~a.loading
  <2>1. CASE action = "Add"
    <3>1. OnlyOn(In(a, Mode("Adding")), S)
      BY <1>0, OpensPlain DEF Choosing
    <3> QED
      BY <1>0, <1>2, <2>1, <3>1 DEF BrowseTask
  <2>2. CASE action \in {"SetDue", "MoveTasks", "Delete"}
    <3>1. \A kind \in {"SettingDue", "MovingTasks", "ConfirmDelete"} : OnlyOn(StartFor(a, kind), S)
      BY <1>0, StartForOn DEF FirstModes, Choosing
    <3>2. \E kind \in {"SettingDue", "MovingTasks", "ConfirmDelete"} : BrowseTask(a, action) = StartFor(a, kind)
      BY <1>2, <2>2 DEF BrowseTask
    <3> QED
      BY <3>1, <3>2
  <2>3. CASE action = "RescheduleOverdue"
    BY <1>0, <1>2, <2>3, StartRescheduleOn DEF BrowseTask
  <2>4. CASE action \in {"ToggleComplete", "ToggleMyDay"}
    <3>1. OnlyOn(Straight(a, "Complete"), S) /\ OnlyOn(Straight(a, "MyDay"), S)
      BY <1>0, StraightOn
    <3> QED
      BY <1>2, <2>4, <3>1 DEF BrowseTask
  <2>5. CASE action = "ToggleNag"
    BY <1>0, <1>2, <2>5, ToggleNagOn DEF BrowseTask
  <2>6. CASE action = "Attach"
    <3>1. OnlyOn(In(a, OnTask("Attaching", SelectedTask(a))), S)
      BY <1>0, OpensOn DEF FirstModes, Choosing
    <3> QED
      BY <1>0, <1>2, <2>6, <3>1 DEF BrowseTask
  <2>7. CASE action = "Assign"
    BY <1>0, <1>2, <2>7, StartAssignOn DEF BrowseTask
  <2>8. CASE action \in {"ToggleSelect", "SelectAll"}
    <3>1. SelectedTask(a) \subseteq ToSet(a.rows)
      BY DEF SelectedTask
    <3>2. PICK picked \in SUBSET ToSet(a.rows) : BrowseTask(a, action) = [a EXCEPT !.picked = picked]
      <4>1. CASE action = "ToggleSelect"
        <5> DEFINE p == (a.picked \ SelectedTask(a)) \cup (SelectedTask(a) \ a.picked)
        <5>1. p \in SUBSET ToSet(a.rows)
          BY <1>0, <3>1 DEF OnlyOn, WellMade
        <5>2. BrowseTask(a, action) = [a EXCEPT !.picked = p]
          BY <1>2, <4>1 DEF BrowseTask
        <5> QED
          BY <5>1, <5>2
      <4>2. CASE action = "SelectAll"
        <5>1. BrowseTask(a, action) = [a EXCEPT !.picked = ToSet(a.rows)]
          BY <1>2, <4>2 DEF BrowseTask
        <5> QED
          BY <5>1
      <4> QED
        BY <2>8, <4>1, <4>2
    <3> DEFINE b == [a EXCEPT !.picked = picked]
    <3>3. DOMAIN b = AppFields /\ b.mode = a.mode /\ b.rows = a.rows /\ b.sent = a.sent /\ b.picked = picked /\ b.loading = a.loading
      BY <1>0 DEF OnlyOn, WellMade, AppFields
    <3> HIDE DEF b
    <3>4. OnlyOn(b, S)
      BY <1>0, <3>2, <3>3 DEF OnlyOn, WellMade, Choosing
    <3> QED
      BY <3>2, <3>4 DEF b
  <2> QED
    BY <2>1, <2>2, <2>3, <2>4, <2>5, <2>6, <2>7, <2>8 DEF Loaded
<1> QED
  BY <1>0, <1>1, <1>2 DEF OnlyOn, WellMade

LEMMA BrowseAppOn ==
  ASSUME NEW a, NEW S, NEW action, OnlyOn(a, S)
  PROVE  OnlyOn(BrowseApp(a, action), S)
<1>1. \A kind \in {"Palette", "Links", "NamingList", "Help"} : OnlyOn(In(a, Mode(kind)), S)
  BY OpensPlain DEF Choosing
<1>2. OnlyOn(In(a, [Mode("Triage") EXCEPT !.at = 2]), S)
  <2> DEFINE m == [Mode("Triage") EXCEPT !.at = 2]
  <2>1. DOMAIN m = ModeFields /\ m.ids = {} /\ m.kind = "Triage"
    BY ModeMade DEF ModeFields
  <2> HIDE DEF m
  <2>2. OnlyOn(In(a, m), S)
    BY <2>1, OpensFree DEF Choosing
  <2> QED
    BY <2>2 DEF m
<1>3. OnlyOn(In(a, [Mode("Filtering") EXCEPT !.text = a.filter]), S)
  <2> DEFINE m == [Mode("Filtering") EXCEPT !.text = a.filter]
  <2>1. DOMAIN m = ModeFields /\ m.ids = {} /\ m.kind = "Filtering"
    BY ModeMade DEF ModeFields
  <2> HIDE DEF m
  <2>2. OnlyOn(In(a, m), S)
    BY <2>1, OpensFree DEF Choosing
  <2> QED
    BY <2>2 DEF m
<1>4. \A kind \in {"MovingList", "NamingList", "MovingTasks"} : \A text : OnlyOn(StartList(a, kind, "List", text), S)
  BY StartListOn DEF Choosing
<1>5. OnlyOn(StartDeleteList(a), S)
  <2>1. OnlyOn(In(a, Mode("ConfirmDeleteList")), S)
    BY OpensPlain DEF Choosing
  <2> QED
    BY <2>1 DEF StartDeleteList
<1>6. OnlyOn(OpenDiagnostics(a), S)
  BY PageOn
<1>7. OnlyOn(Send(a, Write("Undo", {}, "None", "")), S)
  BY SendsWrite
<1>8. OnlyOn([a EXCEPT !.picked = {}], S)
  BY LetsGo
<1>9. OnlyOn([a EXCEPT !.filter = ""], S) /\ OnlyOn([a EXCEPT !.quit = TRUE], S) /\ OnlyOn(a, S)
  BY Others
<1> DEFINE b == BrowseApp(a, action)
<1>10. CASE action \in {"Palette", "OpenLink", "CopyLink", "NewList", "Help"}
  BY <1>1, <1>10 DEF BrowseApp, FollowLink
<1>11. CASE action \in {"MoveToFolder", "RenameList", "DeleteList", "MergeList"}
  BY <1>4, <1>5, <1>11 DEF BrowseApp
<1>12. CASE action \in {"Diagnostics", "TriageInbox", "Undo", "Filter", "Clear", "Quit"}
  BY <1>2, <1>3, <1>6, <1>7, <1>8, <1>9, <1>12 DEF BrowseApp
<1>13. CASE action \notin {"Palette", "OpenLink", "CopyLink", "NewList", "Help", "MoveToFolder", "RenameList", "DeleteList",
                           "MergeList", "Diagnostics", "TriageInbox", "Undo", "Filter", "Clear", "Quit"}
  <2>1. BrowseApp(a, action) = a
    <3>1. CASE action \in {"Open", "Sync", "ReorderUp", "ReorderDown", "ToggleDeferred", "NextContext"}
      BY <1>13, <3>1 DEF BrowseApp
    <3>2. CASE action = "ToggleStep" /\ a.loading
      BY <3>2 DEF BrowseApp
    <3>3. CASE action \notin {"Open", "Sync", "ReorderUp", "ReorderDown", "ToggleDeferred", "NextContext"}
               /\ ~(action = "ToggleStep" /\ a.loading)
      BY <1>13, <3>3 DEF BrowseApp
    <3> QED
      BY <3>1, <3>2, <3>3
  <2> QED
    BY <1>9, <2>1
<1> QED
  BY <1>10, <1>11, <1>12, <1>13


LEMMA BrowseActOn ==
  ASSUME NEW a, NEW S, NEW action, Ready(a, S), a.mode.kind = "Normal"
  PROVE  OnlyOn(BrowseAct(a, action), S)
<1>0. OnlyOn(a, S) /\ SelectedTask(a) \subseteq S
  BY DEF Ready, FirstModes, Named
<1>1. CASE IsChildKey(a, action)
  <2>1. OnlyOn(ChildAction(a, action), S)
    BY <1>0, <1>1, ChildActionOn DEF IsChildKey
  <2> QED
    BY <1>1, <2>1 DEF BrowseAct
<1>2. CASE ~IsChildKey(a, action) /\ action \in Movement
  <2>1. BrowseAct(a, action) = NavigateIn(a, action)
    BY <1>2 DEF BrowseAct, Movement, Loaded, Fields, FieldKeys
  <2> QED
    BY <1>0, <2>1, NavigateOn
<1>3. CASE ~IsChildKey(a, action) /\ action \in {"FocusLeft", "FocusRight", "FocusNext"}
  <2>1. BrowseAct(a, action) = Refocus(a, action)
    BY <1>3, FieldsAre DEF BrowseAct, Movement, Loaded
  <2> QED
    BY <1>0, <2>1, NavigateOn
<1>4. CASE ~IsChildKey(a, action) /\ action \in Loaded
  <2>1. BrowseAct(a, action) = BrowseTask(a, action)
    BY <1>4, FieldsAre DEF BrowseAct, Movement, Loaded
  <2> QED
    BY <1>4, <2>1, BrowseTaskOn
<1>5. CASE ~IsChildKey(a, action) /\ action \in {"Edit", "EditHere", "CycleImportance"} \cup Fields
  <2>1. BrowseAct(a, action) = EditActionOf(a, action)
    BY <1>5, FieldsAre DEF BrowseAct, Movement, Loaded
  <2> QED
    BY <1>5, <2>1, EditActionOn
<1>6. CASE ~IsChildKey(a, action) /\ action \notin Movement \cup {"FocusLeft", "FocusRight", "FocusNext"} \cup Loaded
                                     \cup {"Edit", "EditHere", "CycleImportance"} \cup Fields
  <2>1. BrowseAct(a, action) = BrowseApp(a, action)
    BY <1>6 DEF BrowseAct
  <2> QED
    BY <1>0, <2>1, BrowseAppOn
<1> QED
  BY <1>1, <1>2, <1>3, <1>4, <1>5, <1>6

LEMMA RunPaletteOn ==
  ASSUME NEW a, NEW S, Ready(a, S), a.mode.kind = "Palette"
  PROVE  OnlyOn(RunPalette(a), S)
<1> DEFINE items == PaletteItems(a, a.mode.text)
           label == items[a.mode.at + 1]
           recent == Remember(a.recent, label)
           focus == IF a.focus = "Sidebar" THEN "Tasks" ELSE a.focus
           d == Done(a)
           kept == [d EXCEPT !.recent = recent]
           off == [kept EXCEPT !.focus = focus]
           gone == [kept EXCEPT !.focus = "Tasks", !.loading = TRUE, !.picked = {}]
<1>1. RunPalette(a) \in {Done(a), OpenThemes(kept), kept, gone, BrowseAct(off, label)}
  <2> DEFINE past == a.mode.at >= Len(items)
  <2>1. CASE past
    BY <2>1 DEF RunPalette
  <2>2. CASE ~past
    BY <2>2 DEF RunPalette
  <2> QED
    BY <2>1, <2>2
<1>2. OnlyOn(Done(a), S)
  BY Closes DEF Ready
<1> HIDE DEF items, label, recent, focus
<1>3. Ready(kept, S) /\ kept.mode.kind = "Normal" /\ Ready(off, S) /\ off.mode.kind = "Normal"
  <2> DEFINE Same(b) == /\ b.rows = a.rows /\ b.loading = a.loading /\ b.picked = a.picked /\ b.cur = a.cur /\ b.val = a.val
                        /\ b.mode.kind = "Normal" /\ b.sent = {}
  <2>1. OnlyOn(d, S) /\ Same(d)
    <3>1. OnlyOn(d, S) /\ d.sent = {} /\ d.mode.kind = "Normal"
      BY Closes DEF Ready
    <3>2. d.rows = a.rows /\ d.loading = a.loading /\ d.picked = a.picked /\ d.cur = a.cur /\ d.val = a.val
      BY DEF Ready, OnlyOn, WellMade, AppFields, Done, In
    <3> QED
      BY <3>1, <3>2
  <2>2. DOMAIN d = AppFields
    BY <2>1 DEF OnlyOn, WellMade
  <2> HIDE DEF d
  <2>3. OnlyOn(kept, S)
    BY <2>1, Others
  <2>4. Same(kept) /\ DOMAIN kept = AppFields
    BY <2>1, <2>2 DEF AppFields
  <2> HIDE DEF kept
  <2>5. OnlyOn(off, S)
    BY <2>3, Others
  <2>6. Same(off)
    BY <2>4 DEF AppFields
  <2> HIDE DEF off
  <2>7. ASSUME NEW b, Same(b) PROVE Named(b) = Named(a)
    BY <2>7 DEF Named, ModeTargets, SelectedTask, Overdue
  <2>8. Named(a) \subseteq S
    BY DEF Ready, FirstModes
  <2>9. Ready(kept, S) /\ kept.mode.kind = "Normal"
    BY <2>3, <2>4, <2>7, <2>8 DEF Ready
  <2>10. Ready(off, S) /\ off.mode.kind = "Normal"
    BY <2>5, <2>6, <2>7, <2>8 DEF Ready
  <2> QED
    BY <2>9, <2>10
<1> HIDE DEF off
<1>4. OnlyOn(BrowseAct(off, label), S)
  BY <1>3, BrowseActOn
<1>5. OnlyOn(kept, S)
  BY <1>3 DEF Ready
<1>6. OnlyOn(gone, S)
  <2> HIDE DEF kept
  <2>1. DOMAIN kept = AppFields
    BY <1>5 DEF OnlyOn, WellMade
  <2>2. DOMAIN gone = AppFields /\ gone.mode = kept.mode /\ gone.rows = kept.rows /\ gone.sent = kept.sent /\ gone.picked = {}
        /\ gone.loading = TRUE
    BY <2>1 DEF AppFields
  <2> HIDE DEF gone
  <2> QED
    BY <1>5, <2>2, Else
<1> HIDE DEF kept, gone
<1>7. OnlyOn(OpenThemes(kept), S)
  BY <1>5, OpenThemesOn
<1> QED
  BY <1>1, <1>2, <1>4, <1>5, <1>6, <1>7

LEMMA SubmitOn ==
  ASSUME NEW a, NEW S, Ready(a, S)
  PROVE  OnlyOn(Submit(a), S)
<1> DEFINE kind == a.mode.kind
<1>0. OnlyOn(a, S)
  BY DEF Ready
<1>1. CASE kind = "Palette"
  BY <1>1, RunPaletteOn DEF Submit
<1>2. CASE kind = "Picker"
  <2>1. OnlyOn(Send(Done(a), Write("Undo", {}, "None", "one")), S)
    BY <1>0, ClosesWith
  <2> QED
    BY <1>2, <2>1 DEF Submit
<1>3. CASE kind \in {"Themes", "Links", "Triage", "Filtering"}
  <2>1. OnlyOn(Done(a), S)
    BY <1>0, Closes
  <2>2. OnlyOn([a EXCEPT !.mode.at = a.mode.at - 1], S)
    BY <1>0, ScrolledOn
  <2>3. OnlyOn([Done(a) EXCEPT !.focus = "Tasks"], S)
    BY <2>1, Others
  <2>4. [a EXCEPT !.mode.at = @ - 1] = [a EXCEPT !.mode.at = a.mode.at - 1]
    OBVIOUS
  <2> QED
    BY <1>3, <2>1, <2>2, <2>3, <2>4 DEF Submit
<1>4. CASE kind = "MovingTasks"
  BY <1>0, <1>4, PromptsOn DEF Submit
<1>5. CASE kind = "Editing"
  BY <1>0, <1>5, SubmitEditOn DEF Submit
<1>6. CASE kind = "EditingChild"
  BY <1>0, <1>6, SubmitChildOn DEF Submit
<1>7. CASE kind \in {"Attaching", "Assigning", "NamingList", "Adding", "MovingList"}
  BY <1>0, <1>7, PromptsOn DEF Submit
<1>8. CASE kind = "SettingDue"
  BY <1>0, <1>8, SubmitSetDueOn DEF Submit
<1>9. CASE kind \notin {"Palette", "Picker", "Themes", "Links", "Triage", "Filtering", "MovingTasks", "Editing", "EditingChild",
                        "Attaching", "Assigning", "NamingList", "Adding", "MovingList", "SettingDue"}
  <2>1. Submit(a) = a
    BY <1>9 DEF Submit
  <2>2. OnlyOn(a, S)
    BY <1>0, Others
  <2> QED
    BY <2>1, <2>2
<1> QED
  BY <1>1, <1>2, <1>3, <1>4, <1>5, <1>6, <1>7, <1>8, <1>9

LEMMA ConfirmOn ==
  ASSUME NEW a, NEW S, OnlyOn(a, S)
  PROVE  OnlyOn(Confirm(a), S)
<1>1. a.mode.ids \subseteq S
  BY DEF OnlyOn, ModeOn
<1>2. OnlyOn(Send(Done(a), LinkWrite("DeleteLink", a.mode.ids, {})), S)
  BY <1>1, ClosesWithLink
<1>3. OnlyOn(Send([Done(a) EXCEPT !.picked = {}], Write("Delete", a.mode.ids, "None", "")), S)
  BY <1>1, ClosesWith
<1>4. OnlyOn(a, S)
  BY Others
<1> QED
  BY <1>2, <1>3, <1>4, PromptsOn DEF Confirm

LEMMA ActInOn ==
  ASSUME NEW a, NEW S, NEW action, Ready(a, S)
  PROVE  OnlyOn(ActIn(a, action), S)
<1> DEFINE kind == a.mode.kind
<1>0. OnlyOn(a, S) /\ OnlyOn(Done(a), S)
  BY Closes DEF Ready
<1>1. \A at : OnlyOn([a EXCEPT !.mode.at = at], S)
  BY <1>0, ScrolledOn
<1>2. OnlyOn(a, S) /\ OnlyOn([a EXCEPT !.meaning = ~a.meaning], S)
  BY <1>0, Others
<1>3. CASE kind = "Normal"
  <2>1. ActIn(a, action) \in {a, BrowseAct(a, action)}
    BY <1>3 DEF ActIn, Picks
  <2> QED
    BY <1>0, <1>3, <2>1, BrowseActOn
<1>4. CASE kind \in Picks /\ action \in {"MoveDown", "MoveUp"}
  <2>1. ActIn(a, action) = [a EXCEPT !.mode.at = StepIn(a.mode.at, Offers(a), action = "MoveDown")]
    BY <1>4, FieldsAre DEF ActIn, Picks, LinkKeys, LevelActions
  <2> QED
    BY <1>1, <2>1
<1>5. CASE kind = "Themes"
  <2>1. ActIn(a, action) \in {StepTheme(a, TRUE), StepTheme(a, FALSE), RevertTheme(a), a, Submit(a), Confirm(a)}
    BY <1>5 DEF ActIn, Picks
  <2>2. OnlyOn(RevertTheme(a), S)
    BY <1>0, Others DEF RevertTheme
  <2> QED
    BY <1>0, <1>2, <2>1, <2>2, StepThemeOn, SubmitOn, ConfirmOn
<1>6. CASE kind \in {"Links", "Triage"} /\ ~(kind \in Picks /\ action \in {"MoveDown", "MoveUp"})
  <2>1. [a EXCEPT !.mode.at = @ - 1] = [a EXCEPT !.mode.at = a.mode.at - 1]
    OBVIOUS
  <2>2. ActIn(a, action) \in {Done(a), [a EXCEPT !.mode.at = @ - 1], a, Submit(a), Confirm(a)}
    BY <1>6 DEF ActIn
  <2> QED
    BY <1>0, <1>1, <1>2, <2>1, <2>2, SubmitOn, ConfirmOn
<1>7. CASE kind \in {"Help", "Diagnostics"}
  <2>1. OnlyOn(Scrolled(a, action), S)
    BY <1>1 DEF Scrolled
  <2>2. ActIn(a, action) \in {Scrolled(a, action), ScrollPage(a, TRUE), ScrollPage(a, FALSE), RefreshPage(a), Done(a), a,
                              Submit(a), Confirm(a)}
    BY <1>7 DEF ActIn, Picks
  <2>3. OnlyOn(ScrollPage(a, TRUE), S) /\ OnlyOn(ScrollPage(a, FALSE), S) /\ OnlyOn(RefreshPage(a), S)
    BY <1>0, PageOn
  <2>4. OnlyOn(Submit(a), S) /\ OnlyOn(Confirm(a), S)
    BY <1>0, SubmitOn, ConfirmOn
  <2> QED
    BY <1>0, <1>2, <2>1, <2>2, <2>3, <2>4
<1>8. CASE kind = "EditingChild"
  <2>1. OnlyOn(NextLinkPart(a), S)
    BY <1>0, <1>8, NextLinkPartOn DEF FirstModes
  <2>2. ActIn(a, action) \in {NextLinkPart(a), Done(a), a, Submit(a), Confirm(a)}
    BY <1>8 DEF ActIn, Picks
  <2> QED
    BY <1>0, <1>2, <2>1, <2>2, SubmitOn, ConfirmOn
<1>9. CASE kind \in Choosing /\ action \in Fields \cup LevelActions \cup {"CycleImportance"}
  <2>1. ActIn(a, action) = EditActionOf(a, action)
    BY <1>9, FieldsAre DEF ActIn, Picks, LevelActions, Choosing, LinkKeys
  <2>2. OnlyOn(EditActionOf(a, action), S)
    BY <1>9, EditActionOn
  <2> QED
    BY <2>1, <2>2
<1>10. CASE /\ kind \notin {"Normal", "Themes", "Links", "Triage", "Help", "Diagnostics", "EditingChild"}
            /\ ~(kind \in Picks /\ action \in {"MoveDown", "MoveUp"})
            /\ ~(kind \in Choosing /\ action \in Fields \cup LevelActions \cup {"CycleImportance"})
  <2>1. OnlyOn([Done(a) EXCEPT !.filter = ""], S)
    BY <1>0, Others
  <2>2. ActIn(a, action) \in {Done(a), a, [Done(a) EXCEPT !.filter = ""], [a EXCEPT !.meaning = ~a.meaning], Submit(a), Confirm(a),
                              a}
    BY <1>10 DEF ActIn, Choosing
  <2> QED
    BY <1>0, <1>2, <2>1, <2>2, SubmitOn, ConfirmOn
<1> QED
  BY <1>3, <1>4, <1>5, <1>6, <1>7, <1>8, <1>9, <1>10


LEMMA HandleActionOn ==
  ASSUME NEW a, NEW S, NEW action, Ready(a, S)
  PROVE  OnlyOn(HandleAction(a, action), S)
<1>1. OnlyOn(a, S)
  BY Others DEF Ready
<1> QED
  BY <1>1, ActInOn DEF HandleAction

LEMMA EditWithOn ==
  ASSUME NEW a, NEW S, NEW text, OnlyOn(a, S)
  PROVE  OnlyOn(EditWith(a, text), S)
<1> DEFINE at == IF a.mode.kind \in {"Palette", "MovingTasks"} THEN 0 ELSE a.mode.at
           m == [a.mode EXCEPT !.text = text, !.wrong = FALSE, !.at = at]
           filter == IF a.mode.kind = "Filtering" THEN text ELSE a.filter
           b == [a EXCEPT !.mode = m, !.filter = filter]
<1>1. EditWith(a, text) = b
  BY DEF EditWith
<1> HIDE DEF at, filter
<1>2. DOMAIN m = ModeFields /\ m.kind = a.mode.kind /\ m.ids = a.mode.ids
  BY DEF OnlyOn, WellMade, ModeFields
<1> HIDE DEF m
<1>3. DOMAIN b = AppFields /\ b.mode = m /\ b.rows = a.rows /\ b.sent = a.sent /\ b.picked = a.picked /\ b.loading = a.loading
  BY DEF OnlyOn, WellMade, AppFields
<1> HIDE DEF b
<1> QED
  BY <1>1, <1>2, <1>3, TypedOn

LEMMA KeyOn ==
  ASSUME NEW a, NEW S, NEW key, Ready(a, S)
  PROVE  \A b \in KeyMsg(a, key) : OnlyOn(b, S)
<1> DEFINE action == Resolve(Context(a), key)
<1>0. OnlyOn(a, S)
  BY DEF Ready
<1>1. \A text : OnlyOn(EditWith(a, text), S)
  BY <1>0, EditWithOn
<1>2. OnlyOn(HandleAction(a, action), S)
  BY HandleActionOn
<1>3. \A b \in KeyMsg(a, key) : b \in {a, HandleAction(a, action)} \/ \E text : b = EditWith(a, text)
  <2> HIDE DEF action
  <2> SUFFICES ASSUME NEW b \in KeyMsg(a, key)
               PROVE  b \in {a, HandleAction(a, action)} \/ \E text : b = EditWith(a, text)
    OBVIOUS
  <2>1. CASE action \in {"Backspace", "Newline"}
    <3>1. KeyMsg(a, key) = {EditWith(a, text) : text \in Hands[hand].types}
      BY <2>1 DEF KeyMsg, action
    <3> QED
      BY <3>1
  <2>2. CASE action = "None" /\ Typing(a)
    <3>1. KeyMsg(a, key) = {EditWith(a, text) : text \in IF a.mode.kind = "Palette" THEN Hands[hand].runs ELSE Hands[hand].types}
      BY <2>2 DEF KeyMsg, action
    <3> QED
      BY <3>1
  <2>3. CASE action = "None" /\ ~Typing(a)
    BY <2>3 DEF KeyMsg, action
  <2>4. CASE action \notin {"Backspace", "Newline", "None"}
    BY <2>4 DEF KeyMsg, action
  <2> QED
    BY <2>1, <2>2, <2>3, <2>4
<1> QED
  BY <1>0, <1>1, <1>2, <1>3

-----------------------------------------------------------------------------

\* An app with nothing sent yet names what it named.
LEMMA Quiet ==
  ASSUME NEW a, NEW S, OnlyOn(a, S)
  PROVE  /\ OnlyOn(Quietly(a), S) /\ Quietly(a).sent = {} /\ Quietly(a).mode = a.mode /\ Quietly(a).rows = a.rows
         /\ Quietly(a).picked = a.picked /\ Named(Quietly(a)) = Named(a)
<1>1. DOMAIN Quietly(a) = AppFields /\ Quietly(a).sent = {} /\ Quietly(a).mode = a.mode /\ Quietly(a).rows = a.rows
      /\ Quietly(a).picked = a.picked /\ Quietly(a).loading = a.loading /\ Quietly(a).cur = a.cur /\ Quietly(a).val = a.val
  BY DEF OnlyOn, WellMade, AppFields, Quietly
<1>2. Named(Quietly(a)) = Named(a)
  BY <1>1 DEF Named, ModeTargets, SelectedTask, Overdue
<1> QED
  BY <1>1, <1>2 DEF OnlyOn, WellMade

\* What names nothing is on any tasks; what is on some tasks is on more.
LEMMA IdleOn ==
  ASSUME NEW a, NEW S, OnlyOn(a, S), a.mode.kind = "Normal", a.sent = {}
  PROVE  OnlyOn(a, {})
BY DEF OnlyOn, ModeOn, FirstModes, Choosing

LEMMA FirstOn ==
  ASSUME NEW a, NEW S, NEW T, OnlyOn(a, S), a.mode.kind \in FirstModes, a.sent = {}
  PROVE  OnlyOn(a, T)
BY DEF OnlyOn, ModeOn, FirstModes, Choosing

LEMMA ModeInitOK == ModeInit => NamedInv
<1> SUFFICES ASSUME ModeInit PROVE NamedInv
  OBVIOUS
<1> DEFINE App(rows, cur, s, val, group, nags) ==
             [mode |-> BrowseKeys, focus |-> "Tasks", row |-> "Title", val |-> val, rows |-> rows, cur |-> cur,
              picked |-> {}, loading |-> FALSE, ready |-> s, seeded |-> s, signIn |-> FALSE, list |-> group,
              nags |-> nags, filter |-> "", meaning |-> FALSE, drawn |-> 0, recent |-> <<>>, waiting |-> 0,
              scroll |-> 0, quit |-> FALSE, sent |-> {}]
<1>0. PICK rows, cur, s, val, group, nags : tui = App(rows, cur, s, val, group, nags)
  BY ZenonT(60) DEF ModeInit
<1>1. tui.mode = BrowseKeys /\ tui.sent = {} /\ tui.picked = {} /\ tui.loading = FALSE /\ DOMAIN tui = AppFields
  BY <1>0 DEF AppFields
<1>2. DOMAIN BrowseKeys = ModeFields /\ BrowseKeys.kind = "Normal" /\ BrowseKeys.ids = {}
  BY ModeMade DEF BrowseKeys
<1> QED
  BY <1>1, <1>2 DEF NamedInv, OnlyOn, WellMade, ModeOn, Choosing

LEMMA PressKeyOn == NamedInv /\ PressKey => NamedInv'
<1> SUFFICES ASSUME NamedInv, PressKey PROVE NamedInv'
  OBVIOUS
<1> DEFINE q == Quietly(tui)
<1>1. PICK key, a : a \in KeyMsg(q, key) /\ tui' = a
  BY DEF PressKey
<1>2. OnlyOn(q, AimedAt) /\ q.sent = {} /\ q.mode = tui.mode /\ Named(q) = Named(tui)
  BY Quiet DEF NamedInv
<1> DEFINE Asked == ~(tui'.mode.kind = "Normal" /\ tui'.sent = {})
<1>3. ASSUME NEW S, Ready(q, S) PROVE OnlyOn(tui', S)
  <2>1. OnlyOn(a, S)
    BY <1>1, <1>3, KeyOn
  <2> HIDE DEF q
  <2> QED
    BY <1>1, <2>1
<1> HIDE DEF q
<1>4. CASE tui.mode.kind \in FirstModes
  <2>1. OnlyOn(tui', Named(tui))
    <3>1. OnlyOn(q, Named(tui))
      BY <1>2, <1>4, FirstOn
    <3>2. Ready(q, Named(tui))
      BY <1>2, <3>1 DEF Ready
    <3> QED
      BY <1>3, <3>2
  <2>2. CASE Asked
    <3>1. aimed' = [targets |-> ModeTargets(tui), cursor |-> SelectedTask(tui), overdue |-> Overdue(tui)]
      BY <1>4, <2>2 DEF PressKey, FirstModes
    <3>2. AimedAt' = Named(tui)
      BY <3>1 DEF AimedAt, Named
    <3> QED
      BY <2>1, <3>2 DEF NamedInv
  <2>3. CASE ~Asked
    <3>1. aimed' = Unaimed
      BY <2>3 DEF PressKey
    <3>2. AimedAt' = {}
      BY <3>1 DEF AimedAt, Unaimed
    <3>3. OnlyOn(tui', {})
      BY <2>1, <2>3, IdleOn
    <3> QED
      BY <3>2, <3>3 DEF NamedInv
  <2> QED
    BY <2>2, <2>3
<1>5. CASE tui.mode.kind \notin FirstModes
  <2>1. OnlyOn(tui', AimedAt)
    <3>1. Ready(q, AimedAt)
      BY <1>2, <1>5 DEF Ready
    <3> QED
      BY <1>3, <3>1
  <2>2. CASE Asked
    <3>1. aimed' = aimed
      BY <1>5, <2>2 DEF PressKey, FirstModes
    <3>2. AimedAt' = AimedAt
      BY <3>1 DEF AimedAt
    <3> QED
      BY <2>1, <3>2 DEF NamedInv
  <2>3. CASE ~Asked
    <3>1. aimed' = Unaimed
      BY <2>3 DEF PressKey
    <3>2. AimedAt' = {}
      BY <3>1 DEF AimedAt, Unaimed
    <3>3. OnlyOn(tui', {})
      BY <2>1, <2>3, IdleOn
    <3> QED
      BY <3>2, <3>3 DEF NamedInv
  <2> QED
    BY <2>2, <2>3
<1> QED
  BY <1>4, <1>5

LEMMA AnswersOn == NamedInv /\ (PageAnswered \/ UndoAnswered \/ SignInNeeded) => NamedInv'
<1> SUFFICES ASSUME NamedInv, PageAnswered \/ UndoAnswered \/ SignInNeeded PROVE NamedInv'
  OBVIOUS
<1> DEFINE q == Quietly(tui)
<1>1. OnlyOn(q, AimedAt)
  BY Quiet DEF NamedInv
<1>2. aimed' = aimed
  BY DEF PageAnswered, UndoAnswered, SignInNeeded
<1>3. AimedAt' = AimedAt
  BY <1>2 DEF AimedAt
<1> HIDE DEF q
<1>4. OnlyOn([q EXCEPT !.waiting = StepIn(q.waiting, 0, FALSE)], AimedAt)
  BY <1>1, Others
<1>5. OnlyOn(In(q, Mode("Picker")), AimedAt)
  BY <1>1, OpensPlain DEF Choosing
<1>6. OnlyOn([q EXCEPT !.signIn = TRUE], AimedAt)
  <2> DEFINE b == [q EXCEPT !.signIn = TRUE]
  <2>1. DOMAIN b = AppFields /\ b.mode = q.mode /\ b.rows = q.rows /\ b.sent = q.sent /\ b.picked = q.picked
        /\ b.loading = q.loading /\ q.loading \in BOOLEAN
    BY <1>1 DEF OnlyOn, WellMade, AppFields
  <2> HIDE DEF b
  <2>2. OnlyOn(b, AimedAt)
    BY <1>1, <2>1, Else
  <2> QED
    BY <2>2 DEF b
<1>7. tui' \in {q, [q EXCEPT !.waiting = StepIn(q.waiting, 0, FALSE)], In(q, Mode("Picker")), [q EXCEPT !.signIn = TRUE]}
  <2>1. CASE PageAnswered
    BY <2>1 DEF PageAnswered, Diagnosed, q
  <2>2. CASE UndoAnswered
    BY <2>2 DEF UndoAnswered, q
  <2>3. CASE SignInNeeded
    BY <2>3 DEF SignInNeeded, q
  <2> QED
    BY <2>1, <2>2, <2>3
<1>8. OnlyOn(tui', AimedAt)
  BY <1>1, <1>4, <1>5, <1>6, <1>7
<1> QED
  BY <1>3, <1>8 DEF NamedInv

LEMMA RereadOn == NamedInv /\ RereadLands => NamedInv'
<1> SUFFICES ASSUME NamedInv, RereadLands PROVE NamedInv'
  OBVIOUS
<1> DEFINE q == Quietly(tui)
<1>1. OnlyOn(q, AimedAt) /\ q.sent = {}
  BY Quiet DEF NamedInv
<1>2. aimed' = aimed
  BY DEF RereadLands
<1>3. AimedAt' = AimedAt
  BY <1>2 DEF AimedAt
<1> DEFINE Read(rows, changed, cur) ==
             [q EXCEPT !.rows = rows, !.val = changed, !.picked = @ \cap ToSet(rows), !.cur = cur,
                       !.loading = FALSE, !.ready = TRUE, !.seeded = TRUE, !.signIn = FALSE]
<1>4. PICK rows, changed, cur : tui' = Read(rows, changed, cur)
  <2>1. PICK kept, changed : tui' = Read(RowsLeft(kept), changed, CursorAfter(RowsLeft(kept)))
    BY Zenon DEF RereadLands
  <2> QED
    BY <2>1, Zenon
<1> HIDE DEF q
<1>5. /\ DOMAIN tui' = AppFields /\ tui'.mode = q.mode /\ tui'.sent = {} /\ tui'.rows = rows
      /\ tui'.picked = q.picked \cap ToSet(rows) /\ tui'.loading = FALSE
  BY <1>1, <1>4 DEF OnlyOn, WellMade, AppFields
<1>6. OnlyOn(tui', AimedAt)
  BY <1>1, <1>5 DEF OnlyOn, WellMade
<1> QED
  BY <1>3, <1>6 DEF NamedInv

\* A change goes only to tasks named when its key was pressed.
THEOREM SentAsNamed == ModeSpec => []NamedIsSent
<1>1. ModeInit => NamedInv
  BY ModeInitOK
<1>2. NamedInv /\ [ModeNext]_modeVars => NamedInv'
  <2>1. NamedInv /\ UNCHANGED modeVars => NamedInv'
    BY DEF modeVars, NamedInv, AimedAt
  <2> QED
    BY <2>1, PressKeyOn, AnswersOn, RereadOn DEF ModeNext
<1>3. NamedInv => NamedIsSent
  BY DEF NamedInv, NamedIsSent, OnlyOn, WriteOn, AimedAt
<1> QED
  BY <1>1, <1>2, <1>3, PTL DEF ModeSpec

=============================================================================
