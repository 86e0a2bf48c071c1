----------------------------- MODULE ChildWrite -----------------------------
(***************************************************************************)
(* The steps of a task, written by this machine through the outbox and by  *)
(* a phone directly: daemon/src/outbox/child_write.rs, the commands of     *)
(* task_children.rs and the cache's side in store/src/children.rs.  A      *)
(* link is written the same way.                                           *)
(*                                                                         *)
(* The task's etag guards its steps.  Its operations are sent one by one,  *)
(* each waiting for the one before; the request, a second one after a 412, *)
(* and the read back are steps of their own, and the phone writes between. *)
(***************************************************************************)
EXTENDS Integers, Sequences, SequencesExt

CONSTANTS
    StepTexts,      \* texts a step may have
    MaxStepCmds,    \* bound: commands
    MaxStepPhone,   \* bound: the phone's writes
    MaxStepFaults   \* bound: lost answers, failed reads and rejections

VARIABLES
    kg,     \* Graph's task: steps (each id, text, checked), etag, next (IDs)
    kc,     \* the cached task: steps, etag
    kq,     \* its child operations in order: verb, id, text, checked, keys
            \* (the fields changed), carried, before, refreshed
    kw,     \* the worker at the first: pc, etag
    kleft,  \* what the bounds still allow
    khist   \* history: the fields of each step the phone wrote last, what
            \* our requests overwrote, and a roll back of several operations

stepVars == <<kg, kc, kq, kw, kleft, khist>>

Ids(steps) == {steps[i].id : i \in DOMAIN steps}
StepOf(steps, id) == steps[CHOOSE i \in DOMAIN steps : steps[i].id = id]
NoStep == [id |-> 0, text |-> "", checked |-> FALSE]
Before(op) == IF op.id \in Ids(op.before) THEN StepOf(op.before, op.id) ELSE NoStep

ChildInit ==
    /\ \E two \in [1..2 -> StepTexts] :
         kg = [steps |-> <<[id |-> 1, text |-> two[1], checked |-> FALSE],
                           [id |-> 2, text |-> two[2], checked |-> FALSE]>>,
               etag |-> 0, next |-> 3]
    /\ kc = [steps |-> kg.steps, etag |-> kg.etag]
    /\ kq = <<>>
    /\ kw = [pc |-> "rest", etag |-> 0]
    /\ kleft = [cmds |-> MaxStepCmds, phone |-> MaxStepPhone, faults |-> MaxStepFaults]
    /\ khist = [theirs |-> {}, overwrote |-> FALSE, unticked |-> FALSE, cascaded |-> FALSE]

-----------------------------------------------------------------------------
(* store/src/children.rs: an operation's change in the cached task. *)

\* merge_fields: the fields an update sends over the step.
Merged(step, op) ==
    [step EXCEPT !.text = IF "text" \in op.keys THEN op.text ELSE @,
                 !.checked = IF "checked" \in op.keys \cup op.carried THEN op.checked ELSE @]

\* apply_child.
Applied(steps, op) ==
    CASE op.verb = "create" ->
           IF op.id \in Ids(steps) THEN steps
           ELSE Append(steps, [id |-> op.id, text |-> op.text, checked |-> FALSE])
      [] op.verb = "update" ->
           [i \in DOMAIN steps |-> IF steps[i].id = op.id THEN Merged(steps[i], op) ELSE steps[i]]
      [] op.verb = "delete" -> SelectSeq(steps, LAMBDA s : s.id # op.id)

\* revert_child: a deleted step goes back to its place.
PutBack(steps, at, was) == IF at <= Len(steps) THEN InsertAt(steps, at, was) ELSE Append(steps, was)

\* revert_child: only that step goes back to what it was.
Reverted(steps, op) ==
    LET was == Before(op)
    IN  CASE op.verb = "create" -> SelectSeq(steps, LAMBDA s : s.id # op.id)
          [] op.verb = "update" /\ was # NoStep ->
               [i \in DOMAIN steps |->
                   IF steps[i].id = op.id
                     THEN Merged(steps[i], [op EXCEPT !.text = was.text, !.checked = was.checked])
                     ELSE steps[i]]
          [] op.verb = "delete" /\ was # NoStep /\ op.id \notin Ids(steps) ->
               LET at == CHOOSE i \in DOMAIN op.before : op.before[i].id = op.id
               IN  PutBack(steps, at, was)
          [] OTHER -> steps

\* write_attributed: the task read from Graph, later operations on top.
WithLater(steps, later) == FoldLeft(Applied, steps, later)

-----------------------------------------------------------------------------
(* The commands. *)

\* find: a number from 1, or a text only one step has.
Numbered(n) == {kc.steps[i].id : i \in {n} \cap DOMAIN kc.steps}
Called(text) ==
    LET same == {i \in DOMAIN kc.steps : kc.steps[i].text = text}
    IN  {kc.steps[i].id : i \in {j \in same : same = {j}}}

\* change_children: the operation is queued behind the others of the task,
\* and the cache shows it at once.
QueueStep(op) ==
    /\ kleft.cmds > 0
    /\ kleft' = [kleft EXCEPT !.cmds = @ - 1]
    /\ kq' = Append(kq, [op EXCEPT !.before = kc.steps])
    /\ kc' = [kc EXCEPT !.steps = Applied(@, op)]
    /\ UNCHANGED <<kg, kw, khist>>

ChildOp(verb, id, text, checked, keys, carried) ==
    [verb |-> verb, id |-> id, text |-> text, checked |-> checked, keys |-> keys,
     carried |-> carried, before |-> <<>>, refreshed |-> FALSE]

\* CARRIED_ON_STEPS: Graph unchecks a step whose PATCH leaves the check out.
CarriedOnSteps == {"checked"}

\* plan: AddSteps, EditStep, CheckSteps and DeleteSteps; as asked already is
\* left out.  A new step has a placeholder for its ID.
AddStep(text) == QueueStep(ChildOp("create", -(1 + kleft.cmds), text, FALSE, {"text", "checked"}, {}))

EditStep(id, text) ==
    LET step == StepOf(kc.steps, id)
    IN  /\ step.text # text
        /\ QueueStep(ChildOp("update", id, text, step.checked, {"text"}, CarriedOnSteps))

CheckStep(id) ==
    LET step == StepOf(kc.steps, id)
    IN  QueueStep(ChildOp("update", id, "", ~step.checked, {"checked"}, {}))

DeleteStep(id) == QueueStep(ChildOp("delete", id, "", FALSE, {"text", "checked"}, {}))

StepCommands ==
    \/ \E text \in StepTexts : AddStep(text)
    \/ \E id \in UNION ({Numbered(n) : n \in DOMAIN kc.steps} \cup {Called(text) : text \in StepTexts}) :
            \/ \E text \in StepTexts : EditStep(id, text)
            \/ CheckStep(id)
            \/ DeleteStep(id)

-----------------------------------------------------------------------------
(* Graph. *)

\* create, update and delete of a step: a PATCH without the check unchecks.
GraphUpdated(step, op) ==
    [step EXCEPT !.text = IF "text" \in op.keys THEN op.text ELSE @,
                 !.checked = "checked" \in op.keys \cup op.carried /\ op.checked]

GraphSteps(op) ==
    CASE op.verb = "create" -> Append(kg.steps, [id |-> kg.next, text |-> op.text, checked |-> FALSE])
      [] op.verb = "update" -> [i \in DOMAIN kg.steps |->
                                   IF kg.steps[i].id = op.id THEN GraphUpdated(kg.steps[i], op)
                                                             ELSE kg.steps[i]]
      [] op.verb = "delete" -> SelectSeq(kg.steps, LAMBDA s : s.id # op.id)

\* What a request of ours overwrote: fields the phone was the last to write,
\* which the operation names, and a check it only carries.
TookEffect(op) ==
    LET step == IF op.id \in Ids(kg.steps) THEN StepOf(kg.steps, op.id) ELSE NoStep
        after == GraphUpdated(step, op)
        lost == {f \in op.keys : /\ <<op.id, f>> \in khist.theirs
                                 /\ step[f] # Before(op)[f]
                                 /\ op.verb = "update" => step[f] # after[f]}
    IN  [khist EXCEPT
           !.overwrote = @ \/ (lost # {} /\ ~op.refreshed /\ ~khist.cascaded),
           !.unticked = @ \/ (/\ op.verb = "update" /\ "checked" \notin op.keys /\ ~op.refreshed
                              /\ step.checked # after.checked),
           !.theirs = IF op.verb = "create" THEN @ ELSE @ \ {<<op.id, f>> : f \in op.keys}]

GraphDoes(op) ==
    /\ kg' = [steps |-> GraphSteps(op), etag |-> kg.etag + 1,
              next |-> IF op.verb = "create" THEN kg.next + 1 ELSE kg.next]
    /\ khist' = TookEffect(op)

-----------------------------------------------------------------------------
(* The worker. *)

Now == kq[1]
LaterOps == Tail(kq)

\* Attempt::Changed: the task read back is the cached one, later operations on
\* top; if it can't be read, the etag stays.
ReadBack(later) ==
    /\ kc' = [steps |-> WithLater(kg.steps, later), etag |-> kg.etag]
    /\ kq' = [i \in DOMAIN later |-> [later[i] EXCEPT !.refreshed = TRUE]]
    /\ kw' = [pc |-> "rest", etag |-> 0]
    /\ UNCHANGED <<kg, khist>>

\* reject: the operation fails with every one queued behind it; each is taken
\* out of the task, the first first and then the newest first.
RejectOp ==
    /\ kc' = [kc EXCEPT !.steps = FoldLeft(Reverted, Reverted(@, Now), Reverse(LaterOps))]
    /\ kq' = <<>>
    /\ kw' = [pc |-> "rest", etag |-> 0]
    /\ khist' = [khist EXCEPT !.cascaded = @ \/ LaterOps # <<>> \/ Now.refreshed]
    /\ UNCHANGED kg

\* send: a create is a POST, and the placeholder becomes Graph's ID in the
\* operations behind it and what they roll back to (record_child_created).
IdSwapped(x, from, to) == IF x = from THEN to ELSE x
Swapped(op, from, to) ==
    [op EXCEPT !.id = IdSwapped(@, from, to),
               !.before = [i \in DOMAIN @ |-> [@[i] EXCEPT !.id = IdSwapped(@, from, to)]]]

PostChild ==
    /\ kq # <<>> /\ kw.pc = "rest" /\ Now.verb = "create"
    /\ GraphDoes(Now)
    /\ kq' = <<[Now EXCEPT !.id = kg.next]>>
             \o [i \in DOMAIN LaterOps |-> Swapped(LaterOps[i], Now.id, kg.next)]
    /\ kc' = [kc EXCEPT !.steps = [i \in DOMAIN @ |-> [@[i] EXCEPT !.id = IdSwapped(@, Now.id, kg.next)]]]
    /\ kw' = [pc |-> "readback", etag |-> 0]
    /\ UNCHANGED kleft

\* precondition: If-Match is the task's etag.
StepMatches(etag) == etag = kg.etag

\* update_child and delete_child with the cached etag, or after a 412 with the
\* one just read; a step that is gone is a 404.
SendWrite ==
    /\ kq # <<>> /\ Now.verb # "create"
    /\ kw.pc \in {"rest", "again"}
    /\ StepMatches(IF kw.pc = "again" THEN kw.etag ELSE kc.etag)
    /\ IF Now.id \in Ids(kg.steps)
         THEN /\ GraphDoes(Now)
              /\ kw' = [pc |-> "readback", etag |-> 0]
              /\ UNCHANGED <<kq, kc>>
         ELSE /\ Now.verb = "update"
              /\ RejectOp
    /\ UNCHANGED kleft

DeletedAlready ==
    /\ kq # <<>> /\ Now.verb = "delete" /\ Now.id \notin Ids(kg.steps)
    /\ StepMatches(IF kw.pc = "again" THEN kw.etag ELSE kc.etag)
    /\ kw.pc \in {"rest", "again"}
    /\ ReadBack(LaterOps)
    /\ UNCHANGED kleft

\* The answer is lost and the client sends it again: Graph has it once more.
AnswerLost ==
    /\ kq # <<>> /\ Now.verb # "create" /\ kleft.faults > 0
    /\ kw.pc \in {"rest", "again"}
    /\ StepMatches(IF kw.pc = "again" THEN kw.etag ELSE kc.etag)
    /\ Now.id \in Ids(kg.steps)
    /\ GraphDoes(Now)
    /\ kleft' = [kleft EXCEPT !.faults = @ - 1]
    /\ UNCHANGED <<kq, kc, kw>>

HoldsFields(op, step) == \A f \in op.keys : step[f] = op[f]

NoConflict(op, step) == TRUE \* mutant
\* conflict_check: none of the fields moved since the operation was queued.
Unmoved(op, step) == \A f \in op.keys : Before(op)[f] = step[f]

\* with_carried: what is only carried is sent as Graph has it now.
WithCarried(op, step) == [op EXCEPT !.checked = IF "checked" \in op.carried THEN step.checked ELSE @]

\* send on a 412: the task is read, and the step is as asked or gone already,
\* in conflict, or sent once more with the new etag.
Precondition ==
    /\ kq # <<>> /\ Now.verb # "create" /\ kw.pc = "rest" /\ kc.etag # kg.etag
    /\ IF Now.id \notin Ids(kg.steps)
         THEN IF Now.verb = "delete" THEN ReadBack(LaterOps) ELSE RejectOp
         ELSE LET step == StepOf(kg.steps, Now.id)
              IN  IF Now.verb = "update" /\ HoldsFields(Now, step) THEN ReadBack(LaterOps)
                  ELSE IF ~Unmoved(Now, step) THEN RejectOp
                  ELSE /\ kw' = [pc |-> "again", etag |-> kg.etag]
                       /\ kq' = <<WithCarried(Now, step)>> \o LaterOps
                       /\ UNCHANGED <<kg, kc, khist>>
    /\ UNCHANGED kleft

\* A second 412 rejects it, and so does any other refusal.
SecondRefusal ==
    /\ kq # <<>> /\ kw.pc = "again" /\ kw.etag # kg.etag
    /\ RejectOp
    /\ UNCHANGED kleft

Refusal ==
    /\ kq # <<>> /\ kw.pc = "rest" /\ kleft.faults > 0
    /\ kleft' = [kleft EXCEPT !.faults = @ - 1]
    /\ RejectOp

\* done: the task is read back, or can't be and the next sync brings it.
DoneRead ==
    /\ kw.pc = "readback"
    /\ ReadBack(LaterOps)
    /\ UNCHANGED kleft

DoneUnread ==
    /\ kw.pc = "readback" /\ kleft.faults > 0
    /\ kleft' = [kleft EXCEPT !.faults = @ - 1]
    /\ kq' = LaterOps
    /\ kw' = [pc |-> "rest", etag |-> 0]
    /\ UNCHANGED <<kg, kc, khist>>

\* A sync brings the task when nothing of it is unresolved (after a rejection
\* the list is read whole, so whatever its etag).
SyncSteps ==
    /\ kq = <<>> /\ kc # [steps |-> kg.steps, etag |-> kg.etag]
    /\ kc' = [steps |-> kg.steps, etag |-> kg.etag]
    /\ khist' = [khist EXCEPT !.theirs = {}, !.cascaded = FALSE]
    /\ UNCHANGED <<kg, kq, kw, kleft>>

-----------------------------------------------------------------------------
\* The phone renames, checks or deletes a step.
PhoneStep ==
    /\ kleft.phone > 0
    /\ kleft' = [kleft EXCEPT !.phone = @ - 1]
    /\ \E i \in DOMAIN kg.steps : LET s == kg.steps[i] IN
         \/ \E text \in StepTexts : /\ text # s.text
                  /\ kg' = [kg EXCEPT !.steps[i].text = text, !.etag = @ + 1]
                  /\ khist' = [khist EXCEPT !.theirs = @ \cup {<<s.id, "text">>}]
         \/ /\ kg' = [kg EXCEPT !.steps[i].checked = ~@, !.etag = @ + 1]
            /\ khist' = [khist EXCEPT !.theirs = @ \cup {<<s.id, "checked">>}]
         \/ /\ kg' = [kg EXCEPT !.steps = RemoveAt(@, i), !.etag = @ + 1]
            /\ khist' = [khist EXCEPT !.theirs = {p \in @ : p[1] # s.id}]
    /\ UNCHANGED <<kc, kq, kw>>

ChildNext ==
    \/ StepCommands
    \/ PostChild \/ SendWrite \/ DeletedAlready \/ AnswerLost
    \/ Precondition \/ SecondRefusal \/ Refusal \/ DoneRead \/ DoneUnread
    \/ SyncSteps \/ PhoneStep

ChildSpec == ChildInit /\ [][ChildNext]_stepVars

-----------------------------------------------------------------------------
(* What a child write promises. *)

\* A field of a step the phone changed since an operation was queued is never
\* overwritten, by an edit or by a delete: it is a conflict.  (An operation
\* queued behind another takes the etag the first one's read back brings, and
\* with it loses that guard: `refreshed`.  And what is queued after several
\* were taken back together, or one behind a read back, and before the next
\* sync starts from steps that are neither Graph's nor the user's:
\* `cascaded`.)  send, conflict_check.
NothingOverwritten == ~khist.overwrote

=============================================================================
