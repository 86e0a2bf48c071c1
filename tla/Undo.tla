-------------------------------- MODULE Undo --------------------------------
(***************************************************************************)
(* Task commands and their undo.  A request is planned from the cache,     *)
(* then queued: one operation per change, each applied to the cache at     *)
(* once with the row before it as its record, in one transaction.  The     *)
(* worker sends the operations in order; a phone edits Graph meanwhile.    *)
(* An undo plans the inverse of a command from its operations and the      *)
(* cache as it is, and is a command itself.                                *)
(*                                                                         *)
(* Tasks are 1..NTasks.  A task's fields (Graph's and our extension's) are *)
(* a function of Fields, a step's a function of StepFields; a request's    *)
(* body is such a function on the fields it sets.  "none" is null.         *)
(***************************************************************************)
EXTENDS Integers, Sequences, FiniteSets, FiniteSetsExt, SequencesExt

CONSTANTS
  NTasks,       \* tasks, the last of which is still to be added
  Clients,
  Asks,         \* the commands a client may ask for: see AskNames
  Edits,        \* what the phone may do, <<field, value>>
  MaxCommands,  \* bound: commands queued
  MaxSteps,     \* bound: step IDs of a task
  MaxTrouble    \* bound: edits made on the phone, writes rejected or of unknown outcome

AskNames == {"complete", "reopen", "due", "remind", "assign", "clear", "delete", "add", "move",
             "step_add", "step_rename", "step_check", "step_delete", "undo"}

ASSUME UndoAssumption ==
  /\ NTasks \in Nat \ {0, 1} /\ Asks \subseteq AskNames
  /\ MaxCommands \in Nat /\ MaxSteps \in Nat \ {0} /\ MaxTrouble \in Nat

Tasks      == 1..NTasks
StepIds    == 1..MaxSteps
Ours       == {"who", "flag"}
Fields     == {"status", "on", "at", "due"} \cup Ours
StepFields == {"text", "chk"}
Nothing    == <<>>                       \* an empty body; a step that isn't there
NoSteps    == [s \in StepIds |-> Nothing]

VARIABLES
  rows,    \* the cache: each task's row
  graph,   \* Graph: how many tasks were made for each row, and the latest's content
  base,    \* each row's Graph fields as last read: what its etag stands for
  ops,     \* the outbox, in queue order
  req,     \* each client's planned request, not queued yet
  cmds,    \* history: each command: what it undoes, the cache before and after it, ...
  edits, faults

vars == <<rows, graph, base, ops, req, cmds, edits, faults>>

NoReq == [plan |-> <<>>, undoes |-> 0, whole |-> TRUE, calm |-> TRUE]

Ascending(S) == LET n == IF S = {} THEN 0 ELSE Max(S) IN SelectSeq([i \in 1..n |-> i], LAMBDA i : i \in S)
Live(t) == rows[t].st = "live"
Unresolved(i) == ops[i].st \in {"pending", "unknown"}
Over(f, body) == [k \in DOMAIN f |-> IF k \in DOMAIN body THEN body[k] ELSE f[k]]
Content(x) == [list |-> x.list, f |-> x.f,
               steps |-> [v \in {"yes", "no"} |-> Cardinality({s \in StepIds : x.steps[s] # Nothing /\ x.steps[s].chk = v})]]

\* What a new task has: Graph's defaults for what a create leaves out.
new_task_raw == [status |-> "notStarted", on |-> "no", at |-> "none", due |-> "none",
                 who |-> "none", flag |-> "none"]

Init ==
  /\ LET first(t) == [new_task_raw EXCEPT !.due = "d1", !.on = IF t = 1 THEN "yes" ELSE "no",
                                          !.at = IF t = 1 THEN "soon" ELSE "none"]
         steps(t) == IF t = 1 THEN [NoSteps EXCEPT ![1] = [text |-> "a", chk |-> "no"]] ELSE NoSteps
     IN /\ rows = [t \in Tasks |-> [st |-> IF t < NTasks THEN "live" ELSE "none", list |-> "l1",
                                    f |-> first(t), steps |-> steps(t)]]
        /\ graph = [t \in Tasks |-> [n |-> IF t < NTasks THEN 1 ELSE 0, list |-> "l1",
                                     f |-> first(t), steps |-> steps(t)]]
        /\ base = [t \in Tasks |-> first(t)]
  /\ ops = <<>> /\ req = [c \in Clients |-> NoReq] /\ cmds = <<>> /\ edits = 0 /\ faults = 0

-----------------------------------------------------------------------------
(* The operations a command plans.  `part` and `after` are positions in    *)
(* the command until it is queued.                                         *)

Op(t, kind, action) ==
  [t |-> t, kind |-> kind, action |-> action, body |-> Nothing, list |-> rows[t].list,
   verb |-> "none", step |-> 0, carried |-> {}, expect |-> "any", after |-> 0, part |-> 0]

update_op(t, action, body) == [Op(t, "Update", action) EXCEPT !.body = body]
task_extension_op(t, body) == [Op(t, "Extension", "edit") EXCEPT !.body = body]
delete_op(t)               == Op(t, "Delete", "delete")
move_op(t, to)             == [Op(t, "Move", "move") EXCEPT !.list = to]
ChildWrite(t, verb, s, body) ==
  [Op(t, "Child", "child") EXCEPT !.verb = verb, !.step = s, !.body = body]

resend_reminder(body, f) == [k \in DOMAIN body \cup {"on", "at"} |->
                               IF k = "on" THEN "yes" ELSE IF k = "at" THEN f.at ELSE body[k]]

\* A completion shows the reminder off at once, as Graph turns it off.
turn_reminder_off(f) == IF f.on = "yes" THEN [status |-> "completed", on |-> "no"] ELSE [status |-> "completed"]

\* A reopen turns it on again while its time is ahead, as every time here is.
turn_reminder_back_on(f) ==
  IF f.status = "completed" /\ f.at # "none" THEN resend_reminder([status |-> "notStarted"], f)
                                              ELSE [status |-> "notStarted"]

\* The assignee first, then the status while it's the one planned from, then the flag.
set_plan(t, name) ==
  LET f == rows[t].f
      changes == f.status \notin {"waitingOnOthers", "completed"}
      edit == [update_op(t, "edit", [status |-> "waitingOnOthers"]) EXCEPT !.expect = f.status, !.part = 1]
      flag == [task_extension_op(t, [flag |-> "set"]) EXCEPT !.after = 2, !.part = 1]
  IN IF f.who = name THEN <<>>
     ELSE <<task_extension_op(t, [who |-> name])>>
          \o (IF changes THEN <<edit>> ELSE <<>>)
          \o (IF changes /\ f.flag = "none" THEN <<flag>> ELSE <<>>)

clear_plan(t) ==
  LET f == rows[t].f
      had == {k \in Ours : f[k] # "none"}
      back == [update_op(t, "edit", [status |-> "notStarted"]) EXCEPT !.expect = f.status, !.part = 1]
  IN IF had = {} THEN <<>>
     ELSE <<task_extension_op(t, [k \in had |-> "none"])>>
          \o (IF f.flag = "set" /\ f.status = "waitingOnOthers" THEN <<back>> ELSE <<>>)

\* A step ID never used on the task.
Used(t, plan) ==
  {s \in StepIds : rows[t].steps[s] # Nothing \/ graph[t].steps[s] # Nothing}
  \cup {ops[i].step : i \in {j \in DOMAIN ops : ops[j].t = t}}
  \cup {plan[i].step : i \in {j \in DOMAIN plan : plan[j].t = t}}
Fresh(t, plan) == IF Used(t, plan) \subseteq {0} THEN 1 ELSE Max(Used(t, plan)) + 1

step_create(t, text) == ChildWrite(t, "Create", Fresh(t, <<>>), [text |-> text, chk |-> "no"])

\* History: the cache holds what Graph does, but for what is queued.
InStep == \/ edits = 0 /\ faults = 0
          \/ \A t \in Tasks : rows[t].st = "live" => graph[t].n = 1 /\ Content(rows[t]) = Content(graph[t])

-----------------------------------------------------------------------------
(* Asking: the plan is made from the cache as the request finds it.        *)

Free(c) == req[c] = NoReq /\ Len(cmds) < MaxCommands

Ask(c, name, plan) ==
  /\ name \in Asks /\ plan # <<>>
  /\ \A i \in DOMAIN plan : plan[i].step <= MaxSteps
  /\ req' = [req EXCEPT ![c] = [plan |-> plan, undoes |-> 0, whole |-> TRUE, calm |-> InStep]]
  /\ UNCHANGED <<rows, graph, base, ops, cmds, edits, faults>>

Each(S, P(_)) == [i \in 1..Cardinality(S) |-> P(Ascending(S)[i])]
Targets == {S \in SUBSET {t \in Tasks : Live(t)} : S # {}}

AskComplete(c) == Free(c) /\ \E S \in Targets : Ask(c, "complete", Each(S, LAMBDA t : update_op(t, "complete", turn_reminder_off(rows[t].f))))
AskReopen(c)   == Free(c) /\ \E S \in Targets : Ask(c, "reopen", Each(S, LAMBDA t : update_op(t, "reopen", turn_reminder_back_on(rows[t].f))))
AskDue(c)      == Free(c) /\ \E S \in Targets : Ask(c, "due", Each(S, LAMBDA t : update_op(t, "edit", [due |-> "d2"])))
AskRemind(c)   == Free(c) /\ \E t \in Tasks, at \in {"none", "later"} : Live(t) /\
                    Ask(c, "remind", <<update_op(t, "edit", [on |-> IF at = "none" THEN "no" ELSE "yes", at |-> at])>>)
AskAssign(c)   == Free(c) /\ \E t \in Tasks : Live(t) /\ Ask(c, "assign", set_plan(t, "sam"))
AskClear(c)    == Free(c) /\ \E t \in Tasks : Live(t) /\ Ask(c, "clear", clear_plan(t))
AskDelete(c)   == Free(c) /\ \E t \in Tasks : Live(t) /\ Ask(c, "delete", <<delete_op(t)>>)
AskMove(c)     == Free(c) /\ \E t \in Tasks : Live(t) /\ rows[t].list = "l1" /\ Ask(c, "move", <<move_op(t, "l2")>>)
AskAdd(c)      == Free(c) /\ rows[NTasks].st = "none" /\
                    Ask(c, "add", <<[Op(NTasks, "Create", "add") EXCEPT !.body = new_task_raw], step_create(NTasks, "a")>>)
Renamed(text) == IF text = "a" THEN "b" ELSE "c"
AskStep(c) == Free(c) /\ \E t \in Tasks : Live(t) /\
  \/ Ask(c, "step_add", <<step_create(t, "a")>>)
  \/ \E s \in StepIds : rows[t].steps[s] # Nothing /\
       \/ Ask(c, "step_rename", <<[ChildWrite(t, "Update", s, [rows[t].steps[s] EXCEPT !.text = Renamed(@)]) EXCEPT !.carried = {"chk"}]>>)
       \/ rows[t].steps[s].chk = "no" /\ Ask(c, "step_check", <<ChildWrite(t, "Update", s, [chk |-> "yes"])>>)
       \/ Ask(c, "step_delete", <<ChildWrite(t, "Delete", s, Nothing)>>)

-----------------------------------------------------------------------------
(* Undo: the inverse of a command's operations.                            *)

command_ops(n) == {i \in DOMAIN ops : ops[i].cmd = n}
undone_by(n)   == {i \in DOMAIN ops : ops[i].undoes = n}

Mutant_fields_not_holding(body, now, carried) == {}   \* mutant
\* The fields of `body` that don't hold the value it set any more.
fields_not_holding(body, now, carried) == {k \in DOMAIN body \ carried : now[k] # body[k]}
inverse_fields(o) == [k \in DOMAIN o.body |-> o.before.f[k]]

Mutant_restore_reminder(body, before, now) == body   \* mutant
restore_reminder(body, before, now) ==
  IF before.on = "yes" /\ before.at = now.at THEN resend_reminder(body, before) ELSE body
Without(body, k) == [x \in DOMAIN body \ {k} |-> body[x]]

inverse_update(o, now) ==
  LET body == inverse_fields(o) IN
  IF o.action = "complete" THEN update_op(o.t, "reopen", restore_reminder(body, o.before.f, now))
  ELSE IF o.action = "reopen"
       THEN update_op(o.t, "complete", IF o.before.f.on = "no" THEN Without(body, "at") ELSE body)
       ELSE update_op(o.t, "edit", body)

\* A create of the deleted task from what it was: its fields, not its children.
recreate(o) == [Op(o.t, "Create", "add") EXCEPT !.body = o.before.f]

moved_since(o) == rows[o.t].list # o.list \/ Content(rows[o.t]) # o.copy

\* The writes that undo a step's write; none when it's left alone.
child_inverse(o, plan) ==
  LET now == rows[o.t].steps[o.step]
      before == o.before.steps[o.step]
      moved == now = Nothing \/ fields_not_holding(o.body, now, o.carried) # {}
      back == [k \in DOMAIN o.body |-> IF k \in o.carried THEN now[k] ELSE before[k]]
  IN CASE o.verb = "Create" -> IF moved THEN <<>> ELSE <<ChildWrite(o.t, "Delete", o.step, Nothing)>>
       [] o.verb = "Update" ->
            IF moved \/ before = Nothing THEN <<>>
            ELSE <<[ChildWrite(o.t, "Update", o.step, back) EXCEPT !.carried = o.carried]>>
       [] o.verb = "Delete" ->
            IF before = Nothing THEN <<>> ELSE <<ChildWrite(o.t, "Create", Fresh(o.t, plan), before)>>

Start == [plan |-> <<>>, refused |-> {}, left |-> {}, created |-> {}, error |-> FALSE]

Put(s, o)      == [s EXCEPT !.plan = Append(@, o)]
Refuse(s, i)   == [s EXCEPT !.refused = @ \cup {ops[i].t}, !.left = @ \cup {i}]
UndoFields(s, i) == IF fields_not_holding(ops[i].body, rows[ops[i].t].f, {}) = {}
                    THEN Put(s, IF ops[i].kind = "Update" THEN inverse_update(ops[i], rows[ops[i].t].f)
                                ELSE task_extension_op(ops[i].t, inverse_fields(ops[i])))
                    ELSE Refuse(s, i)
UndoMove(s, i) == IF ops[i].st # "done" THEN [s EXCEPT !.error = TRUE]
                  ELSE IF moved_since(ops[i]) THEN Refuse(s, i)
                       ELSE Put(s, move_op(ops[i].t, ops[i].before.list))
UndoChild(s, i) == LET w == child_inverse(ops[i], s.plan) IN
                   IF w = <<>> THEN Refuse(s, i) ELSE [s EXCEPT !.plan = @ \o w]

\* What the i-th operation adds to the undo.
UndoOp(s, i) ==
  LET o == ops[i] IN
  IF s.error \/ o.t \in s.created THEN s
  ELSE IF o.st = "unknown" THEN [s EXCEPT !.error = TRUE]
  ELSE IF o.st = "failed" \/ o.skipped THEN s
  ELSE IF o.part \in s.left THEN [s EXCEPT !.left = @ \cup {i}]
  ELSE IF (o.kind = "Delete") # (rows[o.t].st = "gone") THEN [s EXCEPT !.error = TRUE]
  ELSE CASE o.kind = "Delete" -> Put(s, recreate(o))
         [] o.kind = "Create" -> [Put(s, delete_op(o.t)) EXCEPT !.created = @ \cup {o.t}]
         [] o.kind \in {"Update", "Extension"} -> UndoFields(s, i)
         [] o.kind = "Move" -> UndoMove(s, i)
         [] o.kind = "Child" -> UndoChild(s, i)

\* Left out: a recurring completion, whose copy --copy may name (undo.rs:152-163),
\* links to related tasks (236-247), a move from a list deleted since (215-233),
\* and a merge's delete being sent (89-100): no command here makes one of these.
UndoPlan(n) == FoldLeft(UndoOp, Start, Ascending(command_ops(n)))

\* History: what the request would plan now.
StillPlanned(r) == r.undoes = 0 \/ UndoPlan(r.undoes).plan = r.plan

AskUndo(c) ==
  /\ "undo" \in Asks /\ Free(c)
  /\ \E n \in DOMAIN cmds :
       /\ command_ops(n) # {} /\ undone_by(n) = {}
       /\ LET u == UndoPlan(n) IN
          /\ ~u.error /\ u.plan # <<>> /\ \A i \in DOMAIN u.plan : u.plan[i].step <= MaxSteps
          /\ req' = [req EXCEPT ![c] = [plan |-> u.plan, undoes |-> n, whole |-> u.refused = {}, calm |-> InStep]]
  /\ UNCHANGED <<rows, graph, base, ops, cmds, edits, faults>>

-----------------------------------------------------------------------------
(* Queueing: every operation's local change and its record.                *)

ApplyChild(row, o) ==
  CASE o.verb = "Create" -> [row EXCEPT !.steps[o.step] = o.body]
    [] o.verb = "Update" -> IF row.steps[o.step] = Nothing THEN row
                            ELSE [row EXCEPT !.steps[o.step] = Over(@, o.body)]
    [] o.verb = "Delete" -> [row EXCEPT !.steps[o.step] = Nothing]

LocalChange(row, o) ==
  CASE o.kind = "Create" -> [row EXCEPT !.st = "live", !.list = o.list, !.f = o.body]
    [] o.kind \in {"Update", "Extension"} -> [row EXCEPT !.f = Over(@, o.body)]
    [] o.kind = "Delete" -> [row EXCEPT !.st = "gone"]
    [] o.kind = "Move" -> [row EXCEPT !.list = o.list]
    [] o.kind = "Child" -> ApplyChild(row, o)

Absolute(n, first) == IF n = 0 THEN 0 ELSE first + n

\* The op as insert_op records it: q is the rows and the queue so far.
InsertOp(q, o, n, undoes) ==
  LET queued == [t |-> o.t, kind |-> o.kind, action |-> o.action, body |-> o.body, list |-> o.list,
                 verb |-> o.verb, step |-> o.step, carried |-> o.carried, expect |-> o.expect,
                 after |-> Absolute(o.after, Len(ops)), part |-> Absolute(o.part, Len(ops)),
                 cmd |-> n, undoes |-> undoes, before |-> q.rows[o.t], copy |-> Nothing,
                 st |-> "pending", skipped |-> FALSE]
  IN [rows |-> [q.rows EXCEPT ![o.t] = LocalChange(@, o)], ops |-> Append(q.ops, queued)]

Enqueue(c) ==
  /\ req[c] # NoReq
  /\ LET r == req[c]
         n == Len(cmds) + 1
         q == FoldLeft(LAMBDA s, o : InsertOp(s, o, n, r.undoes), [rows |-> rows, ops |-> ops], r.plan)
     IN /\ rows' = q.rows /\ ops' = q.ops
        /\ cmds' = Append([m \in DOMAIN cmds |-> [cmds[m] EXCEPT !.alone = FALSE]],
                          [undoes |-> r.undoes, before |-> rows, after |-> q.rows, alone |-> InStep /\ r.calm, prompt |-> StillPlanned(r),
                           exact |-> r.undoes # 0 /\ r.whole /\ cmds[r.undoes].alone])
  /\ req' = [req EXCEPT ![c] = NoReq]
  /\ UNCHANGED <<graph, base, edits, faults>>

-----------------------------------------------------------------------------
(* The worker, and Graph.                                                  *)

\* History: something else than a command happened.
Disturb ==
  /\ cmds' = [m \in DOMAIN cmds |-> [cmds[m] EXCEPT !.alone = FALSE]]
  /\ req' = [c \in Clients |-> IF req[c] = NoReq THEN NoReq ELSE [req[c] EXCEPT !.calm = FALSE]]

\* Waits for the earlier unresolved writes of its task; a delete not for child writes.
Ready(i) ==
  /\ ops[i].st = "pending"
  /\ \A j \in 1..(i - 1) : ops[j].t = ops[i].t /\ Unresolved(j) => ops[i].kind = "Delete" /\ ops[j].kind = "Child"

\* Graph derives the reminder's flag: a time written turns it on, completing off.
GraphPatch(f, body) ==
  LET sent == [k \in DOMAIN f |-> IF k \in DOMAIN body \ {"on"} THEN body[k] ELSE f[k]]
      completes == sent.status = "completed" /\ f.status # "completed"
  IN [sent EXCEPT !.on = IF "at" \in DOMAIN body THEN (IF body.at = "none" THEN "no" ELSE "yes")
                         ELSE IF completes THEN "no" ELSE f.on]

\* Graph's answer, with the later unresolved operations on top.
Later(row, o) == IF o.kind \in {"Create", "Move"} THEN row ELSE LocalChange(row, o)
Record(i, g) ==
  LET t == ops[i].t
      later == Ascending({j \in DOMAIN ops : j > i /\ ops[j].t = t /\ Unresolved(j)})
      read == [st |-> "live", list |-> rows[t].list, f |-> g.f, steps |-> g.steps]
  IN /\ rows' = [rows EXCEPT ![t] = FoldLeft(LAMBDA r, j : Later(r, ops[j]), read, later)]
     /\ base' = [base EXCEPT ![t] = g.f]

Done(i)        == ops' = [ops EXCEPT ![i].st = "done"]
Skip(i)        == ops' = [ops EXCEPT ![i].st = "done", ![i].skipped = TRUE]
Landed(i, g)   == graph' = [graph EXCEPT ![ops[i].t] = g] /\ Record(i, g)
Calm           == UNCHANGED <<req, cmds, edits, faults>>
Faulty         == edits + faults < MaxTrouble /\ faults' = faults + 1 /\ Disturb /\ UNCHANGED edits

\* What another device changed under the PATCH since the row was read.
Touched(i) == LET g == graph[ops[i].t].f IN
  {k \in DOMAIN ops[i].body \ {"on"} : g[k] # ops[i].before.f[k] /\ g[k] # ops[i].body[k]}

SendUpdate(i) ==
  LET o == ops[i]  g == graph[o.t] IN
  /\ Ready(i) /\ o.kind = "Update" /\ g.n > 0
  /\ LET stale == g.f # base[o.t]
         applied == \A k \in DOMAIN o.body \ {"on"} : g.f[k] = o.body[k]
         sent == [g EXCEPT !.f = GraphPatch(@, o.body)]
     IN \/ ~stale /\ Done(i) /\ Landed(i, sent) /\ Calm
        \/ stale /\ applied /\ Landed(i, g) /\ Calm
           /\ IF o.expect = "any" THEN Done(i) ELSE Skip(i)
        \/ /\ stale /\ ~applied /\ (Touched(i) = {} \/ o.expect = "any")
           /\ ops' = [ops EXCEPT ![i].st = "done",
                                 ![i].before = IF Touched(i) = {} THEN @ ELSE [@ EXCEPT !.f = g.f]]
           /\ Landed(i, sent) /\ Calm

SendExtension(i) ==
  LET o == ops[i]  g == graph[o.t] IN
  /\ Ready(i) /\ o.kind = "Extension" /\ g.n > 0
  /\ IF o.after # 0 /\ ops[o.after].skipped
     THEN Skip(i) /\ Landed(i, g)
     ELSE Done(i) /\ Landed(i, [g EXCEPT !.f = Over(@, o.body)])
  /\ Calm

\* A create that Graph ran: the reminder is on if it has a time.
Created(g, o) == [n |-> g.n + 1, list |-> o.list, steps |-> NoSteps,
                  f |-> [o.body EXCEPT !.on = IF o.body.at = "none" THEN "no" ELSE "yes"]]
SendCreate(i) == Ready(i) /\ ops[i].kind = "Create" /\ Done(i) /\ Landed(i, Created(graph[ops[i].t], ops[i])) /\ Calm

\* The child writes queued before a delete that is done are moot.
SendDelete(i) ==
  LET t == ops[i].t IN
  /\ Ready(i) /\ ops[i].kind = "Delete"
  /\ graph' = [graph EXCEPT ![t].n = IF @ = 0 THEN 0 ELSE @ - 1, ![t].steps = NoSteps]
  /\ ops' = [j \in DOMAIN ops |->
       IF j = i THEN [ops[j] EXCEPT !.st = "done"]
       ELSE IF j < i /\ ops[j].t = t /\ ops[j].kind = "Child" /\ Unresolved(j)
            THEN [ops[j] EXCEPT !.st = "done", !.skipped = TRUE] ELSE ops[j]]
  /\ UNCHANGED <<rows, base>> /\ Calm

SendMove(i) ==
  LET o == ops[i]  g == [graph[o.t] EXCEPT !.list = o.list] IN
  /\ Ready(i) /\ o.kind = "Move" /\ graph[o.t].n > 0
  /\ graph' = [graph EXCEPT ![o.t] = g] /\ UNCHANGED <<rows, base>>
  /\ ops' = [ops EXCEPT ![i].st = "done", ![i].copy = Content(g)] /\ Calm

SendChild(i) ==
  LET o == ops[i] IN
  /\ Ready(i) /\ o.kind = "Child" /\ graph[o.t].n > 0
  /\ o.verb = "Update" => graph[o.t].steps[o.step] # Nothing
  /\ Done(i) /\ Landed(i, ApplyChild(graph[o.t], o)) /\ Calm

\* A step with a write of it taken back: an update's own fields, no others.
revert_child(now, o) ==
  LET was == o.before.steps[o.step] IN
  CASE o.verb = "Create" -> Nothing
    [] o.verb = "Update" -> IF now = Nothing \/ was = Nothing THEN now
                            ELSE Over(now, [k \in DOMAIN o.body |-> was[k]])
    [] o.verb = "Delete" -> IF now = Nothing THEN was ELSE now

\* The row with the operation's local change taken back.
undo_local(row, o) ==
  CASE o.kind = "Create" -> [row EXCEPT !.st = "gone"]
    [] o.kind = "Update" -> [row EXCEPT !.st = "live", !.f = Over(@, inverse_fields(o))]
    [] o.kind = "Extension" -> [row EXCEPT !.f = Over(@, inverse_fields(o))]
    [] o.kind = "Delete" -> [o.before EXCEPT !.st = "live"]
    [] o.kind = "Move" -> [row EXCEPT !.list = o.before.list]
    [] o.kind = "Child" -> IF row.st = "live" THEN [row EXCEPT !.steps[o.step] = revert_child(@, o)] ELSE row

\* What waits for it fails with it; a child write among them is taken out again, newest first.
Waiting(i) == {j \in DOMAIN ops : j > i /\ ops[j].t = ops[i].t /\ Unresolved(j)
                                  /\ ~(ops[i].kind = "Child" /\ ops[j].kind = "Delete")}
Cascaded(row, i) ==
  FoldRight(LAMBDA j, r : IF ops[j].kind = "Child" THEN undo_local(r, ops[j]) ELSE r,
            Ascending(Waiting(i)), row)

Fail(i) ==
  LET o == ops[i] IN
  /\ ops' = [j \in DOMAIN ops |-> IF j = i \/ j \in Waiting(i) THEN [ops[j] EXCEPT !.st = "failed"] ELSE ops[j]]
  /\ rows' = [rows EXCEPT ![o.t] = LET r == Cascaded(undo_local(@, o), i) IN
                                   IF o.kind = "Create" THEN [r EXCEPT !.st = "gone"] ELSE r]

\* What Graph has leaves no other answer: a conflict, or nothing to write to.
Refused(i) ==
  LET o == ops[i]  g == graph[o.t] IN
  \/ o.kind \notin {"Create", "Delete"} /\ g.n = 0
  \/ o.kind = "Update" /\ o.expect # "any" /\ g.f # base[o.t] /\ Touched(i) # {}
  \/ o.kind = "Child" /\ o.verb = "Update" /\ g.steps[o.step] = Nothing
Reject(i) ==
  /\ Ready(i)
  /\ \/ Faulty
     \/ Refused(i) /\ Disturb /\ UNCHANGED <<edits, faults>>
  /\ Fail(i) /\ UNCHANGED <<graph, base>>

\* A create whose answer is lost, and what a look at Graph later finds.
Lose(i) ==
  /\ Ready(i) /\ ops[i].kind = "Create" /\ ops' = [ops EXCEPT ![i].st = "unknown"]
  /\ \/ graph' = [graph EXCEPT ![ops[i].t] = Created(@, ops[i])]
     \/ UNCHANGED graph
  /\ UNCHANGED <<rows, base>> /\ Faulty
Attribute(i) ==
  /\ ops[i].st = "unknown"
  /\ IF graph[ops[i].t].n > 0 THEN Done(i) /\ Record(i, graph[ops[i].t]) ELSE Fail(i) /\ UNCHANGED base
  /\ UNCHANGED graph /\ Calm

Worker == \E i \in DOMAIN ops :
  \/ SendUpdate(i) \/ SendExtension(i) \/ SendCreate(i) \/ SendDelete(i) \/ SendMove(i) \/ SendChild(i)
  \/ Reject(i) \/ Lose(i) \/ Attribute(i)

\* A task with a write not resolved is left out of a pass; any other takes Graph's copy.
Sync(t) ==
  LET g == graph[t]
      read == [st |-> IF g.n > 0 THEN "live" ELSE "gone", list |-> g.list, f |-> g.f, steps |-> g.steps]
  IN /\ rows[t].st # "none" /\ (g.n > 0 \/ rows[t].st = "live")
     /\ rows[t] # read /\ \A i \in DOMAIN ops : ops[i].t = t => ~Unresolved(i)
     /\ rows' = [rows EXCEPT ![t] = IF g.n > 0 THEN read ELSE [@ EXCEPT !.st = "gone"]]
     /\ base' = [base EXCEPT ![t] = g.f]
     /\ UNCHANGED <<graph, ops, req, cmds, edits, faults>>

PhoneEdit(t) ==
  /\ edits + faults < MaxTrouble /\ edits' = edits + 1 /\ graph[t].n > 0
  /\ \E e \in Edits :
       IF e[1] = "step" THEN graph' = [graph EXCEPT ![t].steps = [s \in StepIds |-> IF @[s] = Nothing THEN @[s] ELSE [@[s] EXCEPT !.chk = e[2]]]]
       ELSE graph' = [graph EXCEPT ![t].f = GraphPatch(@, [k \in {e[1]} |-> e[2]])]
  /\ graph'[t] # graph[t]
  /\ Disturb /\ UNCHANGED <<rows, base, ops, faults>>

Client(c) ==
  \/ AskComplete(c) \/ AskReopen(c) \/ AskDue(c) \/ AskRemind(c) \/ AskAssign(c) \/ AskClear(c)
  \/ AskDelete(c) \/ AskMove(c) \/ AskAdd(c) \/ AskStep(c) \/ AskUndo(c) \/ Enqueue(c)

Next == (\E c \in Clients : Client(c)) \/ Worker \/ \E t \in Tasks : Sync(t) \/ PhoneEdit(t)
Spec == Init /\ [][Next]_vars

-----------------------------------------------------------------------------
(* Properties.                                                             *)

TypeOK ==
  /\ \A t \in Tasks : rows[t].st \in {"none", "live", "gone"} /\ DOMAIN rows[t].f = Fields
                      /\ DOMAIN graph[t].f = Fields /\ graph[t].n \in Nat
                      /\ rows[t].f.on \in {"yes", "no"} /\ graph[t].f.on \in {"yes", "no"}
  /\ \A i \in DOMAIN ops : /\ ops[i].after \in 0..(i - 1) /\ ops[i].part \in 0..(i - 1)
                            /\ ops[i].cmd \in DOMAIN cmds /\ ops[i].undoes \in 0..(ops[i].cmd - 1)
                            /\ ops[i].st \in {"pending", "unknown", "done", "failed"}

Idle == \A i \in DOMAIN ops : ~Unresolved(i)
Took(n) == \A i \in command_ops(n) : ops[i].st = "done" /\ ~ops[i].skipped
Back(n) == \A t \in Tasks : IF cmds[n].before[t].st = "live"
                            THEN graph[t].n = 1 /\ Content(graph[t]) = Content(cmds[n].before[t])
                            ELSE graph[t].n = 0
Restored(u) == /\ cmds[u].exact /\ cmds[u].alone /\ Idle /\ Took(u) /\ Took(cmds[u].undoes)

\* What an inverse can't put back: a deleted task's steps, and a reminder that had a time
\* but was off, which writing the time turns on.
CantPutBack(o) ==
  LET f == o.before.f  off == f.on = "no" /\ f.at # "none" IN
  \/ o.kind = "Delete" /\ (off \/ o.before.steps # NoSteps)
  \/ o.kind = "Update" /\ o.action = "edit" /\ "at" \in DOMAIN o.body /\ off

\* When nothing else happened since a command, once its undo has been sent Graph has every
\* task as it was before the command: fields, reminder, steps, list; and an undo's undo
\* does the same (undo.rs's inverses, S17's rules for the reminder).
UndoRestores ==
  \A u \in DOMAIN cmds :
    Restored(u) /\ (\A i \in command_ops(cmds[u].undoes) : ~CantPutBack(ops[i])) => Back(cmds[u].undoes)

\* An undo that is still what it would plan never overwrites a later change: what it
\* changes held what the command had left there (the reminder's flag aside: Graph derives
\* it).  A deleted task comes back as it was when the delete was queued.
UndoKeepsLater == [][
  \A c \in Clients : req[c].undoes # 0 /\ req'[c] = NoReq /\ StillPlanned(req[c]) =>
    LET left == cmds[req[c].undoes].after IN
    \A t \in {x \in Tasks : Live(x)} :
      /\ \A k \in Fields \ {"on"} : rows'[t].f[k] # rows[t].f[k] => rows[t].f[k] = left[t].f[k]
      /\ \A s \in StepIds : LET a == rows[t].steps[s]  b == rows'[t].steps[s] IN
           a # Nothing /\ b # Nothing => \A k \in StepFields : a[k] # b[k] => a[k] = left[t].steps[s][k]
  ]_vars

=============================================================================
