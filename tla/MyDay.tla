------------------------------- MODULE MyDay --------------------------------
(***************************************************************************)
(* My Day (crates/daemon/src/my_day) and the conditional writes it queues  *)
(* (outbox/extension_write.rs, outbox/send.rs).  A day is a number, 0 is   *)
(* none.  A task holds its due date, and in our extension the day it is in *)
(* My Day for and whether ms-todo set its due date for that.               *)
(*                                                                         *)
(* Graph's content stands for its etag.  Graph is also changed by a phone, *)
(* which knows nothing of the extension, and by ms-todo elsewhere.         *)
(***************************************************************************)
EXTENDS Naturals, Sequences, FiniteSets

CONSTANTS DayTasks,       \* tasks, 1..n: commands name them in this order
          FirstRows,      \* what a task may hold at the start
          LastDay,        \* bound: the clock stops there
          MaxDayAsks,     \* bound: My Day commands by users
          MaxDayEdits,    \* bound: changes on the phone and elsewhere
          MaxDayTrouble   \* bound: writes rejected and stops of the daemon

VARIABLES dayRows,    \* the cache
          dayGraph,
          dayOps,     \* the outbox, in order
          reading,    \* the write the worker has read Graph for, and what it read
          planned,    \* a user's command between its reads and its queueing
          rolling,    \* the rollover: what it planned and how far it is
          clock,      \* today, as My Day counts it
          lastRollover,
          ourDate,       \* history: the due date ms-todo's own edit last gave each task
          daySpent

dayVars == <<dayRows, dayGraph, dayOps, reading, planned, rolling, clock, lastRollover, ourDate, daySpent>>

NoDay == 0
AnyDay == 99                              \* nothing is expected
NoWrite == [op |-> 0, seen |-> <<>>]
NoCommand == [step |-> "idle", ops |-> <<>>, from |-> <<>>, on |-> 0]
Merge(row, f) == [k \in DOMAIN row |-> IF k \in DOMAIN f THEN f[k] ELSE row[k]]

DayInit ==
  /\ dayGraph \in [DayTasks -> FirstRows] /\ dayRows = dayGraph
  /\ ourDate = [t \in DayTasks |-> IF dayGraph[t].flag THEN dayGraph[t].day ELSE NoDay]
  /\ dayOps = <<>> /\ reading = NoWrite /\ planned = NoCommand /\ rolling = NoCommand
  /\ clock = 2 /\ lastRollover = 1
  /\ daySpent = [asks |-> 0, edits |-> 0, added |-> 0, trouble |-> 0]

-----------------------------------------------------------------------------
(* Plans.                                                                  *)

\* The due date is ms-todo's own: the flag, on the very day, and no series.
OwnDate(row) == row.flag /\ row.due # NoDay /\ row.due = row.day /\ ~row.recurs

NoPlan == [to |-> NoDay, due |-> NoDay, dates |-> FALSE, expect |-> AnyDay, none |-> TRUE]

add_plan(row) ==
  IF row.day = clock THEN NoPlan
  ELSE [to |-> clock, due |-> clock, dates |-> row.due = NoDay \/ OwnDate(row), expect |-> AnyDay, none |-> FALSE]

remove_plan(row) ==
  IF row.day = NoDay THEN NoPlan
  ELSE [to |-> NoDay, due |-> NoDay, dates |-> OwnDate(row) /\ ~row.done, expect |-> AnyDay, none |-> FALSE]

rollover_plan(row) ==
  IF row.day \in 1..(clock - 1) THEN [remove_plan(row) EXCEPT !.expect = row.day] ELSE NoPlan

DayOp(t, f) == [t |-> t, f |-> f, expect |-> AnyDay, expectDue |-> AnyDay, after |-> 0, was |-> <<>>, prompt |-> TRUE, st |-> "pending"]

\* The extension first; the due date, if it is still the one planned from; then the flag.
plan_ops(t, row, plan, first) ==
  LET fields == IF row.flag THEN [day |-> plan.to, flag |-> FALSE] ELSE [day |-> plan.to]
      extension == [DayOp(t, fields) EXCEPT !.expect = plan.expect]
      edit == [DayOp(t, [due |-> plan.due]) EXCEPT !.expectDue = row.due]
      flag == [DayOp(t, [flag |-> TRUE]) EXCEPT !.after = first + 1]
  IN <<extension>> \o (IF plan.dates THEN <<edit>> ELSE <<>>)
                   \o (IF plan.dates /\ plan.to # NoDay THEN <<flag>> ELSE <<>>)

\* One command: `after` is a position in it until it is queued.
command_ops(Plan(_), targets) ==
  LET upTo[n \in 0..Cardinality(DayTasks)] ==
        IF n = 0 THEN <<>>
        ELSE LET row == dayRows[n]
                 plan == IF n \in targets THEN Plan(row) ELSE NoPlan
             IN upTo[n - 1] \o (IF plan.none THEN <<>> ELSE plan_ops(n, row, plan, Len(upTo[n - 1]) + 1))
  IN upTo[Cardinality(DayTasks)]

-----------------------------------------------------------------------------
(* Commands: planned from the cache, then queued in one transaction.       *)

DayChange(targets, add) ==
  LET ops == IF add THEN command_ops(add_plan, targets) ELSE command_ops(remove_plan, targets) IN
  /\ planned = NoCommand /\ daySpent.asks < MaxDayAsks /\ ops # <<>>
  /\ planned' = [NoCommand EXCEPT !.step = "planned", !.ops = ops, !.from = dayRows]
  /\ daySpent' = [daySpent EXCEPT !.asks = @ + 1]
  /\ UNCHANGED <<dayRows, dayGraph, dayOps, reading, rolling, clock, lastRollover, ourDate>>

AppliedTo(rows, ops) ==
  LET upTo[n \in 0..Len(ops)] ==
        IF n = 0 THEN rows ELSE [upTo[n - 1] EXCEPT ![ops[n].t] = Merge(@, ops[n].f)]
  IN upTo[Len(ops)]

QueueAll(command) == LET ops == command.ops IN
  /\ dayRows' = AppliedTo(dayRows, ops)
  /\ dayOps' = dayOps \o [i \in DOMAIN ops |->
       [ops[i] EXCEPT !.after = IF @ = 0 THEN 0 ELSE Len(dayOps) + @,
                      !.prompt = command.from = dayRows /\ \A j \in DOMAIN dayOps : dayOps[j].t = ops[i].t => dayOps[j].st \in {"done", "skipped"},   \* history
                      !.was = AppliedTo(dayRows, SubSeq(ops, 1, i - 1))[ops[i].t]]]

QueueChange ==
  /\ planned # NoCommand /\ QueueAll(planned) /\ planned' = NoCommand
  /\ UNCHANGED <<dayGraph, reading, rolling, clock, lastRollover, ourDate, daySpent>>

rollover_due == lastRollover < clock

\* The daily run at a tick, or `myday rollover`.
Rollover(by) ==
  /\ rolling = NoCommand
  /\ IF by = "auto" THEN rollover_due /\ UNCHANGED daySpent
     ELSE daySpent.asks < MaxDayAsks /\ daySpent' = [daySpent EXCEPT !.asks = @ + 1]
  /\ rolling' = [step |-> "planned", from |-> dayRows, on |-> clock, ops |-> command_ops(rollover_plan, DayTasks)]
  /\ UNCHANGED <<dayRows, dayGraph, dayOps, reading, planned, clock, lastRollover, ourDate>>

QueueRollover ==
  /\ rolling.step = "planned" /\ QueueAll(rolling)
  /\ rolling' = [rolling EXCEPT !.step = "queued", !.ops = <<>>, !.from = <<>>]
  /\ UNCHANGED <<dayGraph, reading, planned, clock, lastRollover, ourDate, daySpent>>

Recorded == rolling.step = "queued"
RecordRollover ==
  /\ Recorded /\ lastRollover' = rolling.on
  /\ rolling' = NoCommand
  /\ UNCHANGED <<dayRows, dayGraph, dayOps, reading, planned, clock, ourDate, daySpent>>

-----------------------------------------------------------------------------
(* The worker.                                                             *)

Open(i) == dayOps[i].st = "pending"
Turn(i) == Open(i) /\ \A j \in 1..(i - 1) : dayOps[j].t = dayOps[i].t => ~Open(j)

\* mutant: whatever the due date is now
MutantNoDue(o, row) == (o.expect = AnyDay \/ row.day = o.expect) /\ (o.after = 0 \/ dayOps[o.after].st = "done")
DayHolds(o, row) ==
  /\ o.expect = AnyDay \/ row.day = o.expect
  /\ o.expectDue = AnyDay \/ row.due = o.expectDue
  /\ o.after = 0 \/ dayOps[o.after].st = "done"

\* Graph's copy, with what is still queued for the task on top.
RecordDay(i, row) ==
  dayRows' = [dayRows EXCEPT ![dayOps[i].t] =
    AppliedTo([t \in DayTasks |-> row],
              SelectSeq(SubSeq(dayOps, i + 1, Len(dayOps)), LAMBDA o : o.t = dayOps[i].t /\ o.st = "pending"))[dayOps[i].t]]
DayEnded(i, st) == dayOps' = [dayOps EXCEPT ![i].st = st] /\ reading' = NoWrite
DayStill == UNCHANGED <<planned, rolling, clock, lastRollover, daySpent>>

ReadFor(i) ==
  /\ reading = NoWrite /\ Turn(i)
  /\ LET row == dayGraph[dayOps[i].t] IN
     IF DayHolds(dayOps[i], row)
     THEN reading' = [op |-> i, seen |-> row] /\ UNCHANGED <<dayOps, dayRows>>
     ELSE DayEnded(i, "skipped") /\ RecordDay(i, row)
  /\ UNCHANGED <<dayGraph, ourDate>> /\ DayStill

Write(i) ==
  LET o == dayOps[i]  now == Merge(dayGraph[o.t], o.f) IN
  /\ dayGraph' = [dayGraph EXCEPT ![o.t] = now] /\ RecordDay(i, now) /\ DayEnded(i, "done")
  /\ ourDate' = [ourDate EXCEPT ![o.t] = IF "due" \in DOMAIN o.f THEN o.f.due ELSE @]

\* What waits for a failed write fails too; the row takes its change back.
WriteFails(i) ==
  LET t == dayOps[i].t  was == dayOps[i].was IN
  /\ dayOps' = [j \in DOMAIN dayOps |-> IF j >= i /\ dayOps[j].t = t /\ Open(j)
                                         THEN [dayOps[j] EXCEPT !.st = "failed"] ELSE dayOps[j]]
  /\ dayRows' = [dayRows EXCEPT ![t] = [k \in DOMAIN @ |-> IF k \in DOMAIN dayOps[i].f THEN was[k] ELSE @[k]]]
  /\ reading' = NoWrite

DayMatches(i) == dayGraph[dayOps[i].t] = reading.seen

SendRead(i) ==
  /\ reading.op = i /\ DayMatches(i) /\ Write(i) /\ DayStill

\* A 412 on the extension's write reads again; on the due date's, it looks at what changed.
Refused(i) ==
  LET o == dayOps[i]  now == dayGraph[o.t] IN
  /\ reading.op = i /\ ~DayMatches(i)
  /\ \/ /\ "due" \notin DOMAIN o.f /\ reading' = NoWrite
        /\ UNCHANGED <<dayRows, dayGraph, dayOps, ourDate>>
     \/ /\ "due" \in DOMAIN o.f /\ now.due = o.f.due
        /\ DayEnded(i, "skipped") /\ RecordDay(i, now) /\ UNCHANGED <<dayGraph, ourDate>>
     \/ /\ "due" \in DOMAIN o.f /\ now.due \notin {o.f.due, o.was.due}
        /\ WriteFails(i) /\ UNCHANGED <<dayGraph, ourDate>>
     \/ /\ "due" \in DOMAIN o.f /\ now.due # o.f.due /\ now.due = o.was.due
        /\ Write(i)
  /\ DayStill

Trouble == daySpent.trouble < MaxDayTrouble /\ daySpent' = [daySpent EXCEPT !.trouble = @ + 1]

RejectDay(i) ==
  /\ reading.op = i /\ Trouble /\ WriteFails(i)
  /\ UNCHANGED <<dayGraph, planned, rolling, clock, lastRollover, ourDate>>

\* The daemon stops: its queue and its settings are kept.
StopDay ==
  /\ Trouble /\ reading' = NoWrite /\ planned' = NoCommand /\ rolling' = NoCommand
  /\ reading # NoWrite \/ planned # NoCommand \/ rolling # NoCommand
  /\ UNCHANGED <<dayRows, dayGraph, dayOps, clock, lastRollover, ourDate>>

-----------------------------------------------------------------------------
(* Everything else.                                                        *)

OtherMachine(t, row) ==
  /\ daySpent.edits < MaxDayEdits /\ row # dayGraph[t]
  /\ dayGraph' = [dayGraph EXCEPT ![t] = row]
  /\ UNCHANGED <<dayRows, dayOps, reading, planned, rolling, clock, lastRollover>>

DayPhone(t) ==
  /\ \/ \E d \in 0..LastDay : OtherMachine(t, [dayGraph[t] EXCEPT !.due = d])
     \/ OtherMachine(t, [dayGraph[t] EXCEPT !.done = ~@])
  /\ daySpent' = [daySpent EXCEPT !.edits = @ + 1] /\ UNCHANGED ourDate

\* Put in My Day by ms-todo on another machine, its writes together.
AddElsewhere(t) ==
  LET row == dayGraph[t]  dates == row.due = NoDay \/ OwnDate(row) IN
  /\ row.day # clock
  /\ OtherMachine(t, [row EXCEPT !.day = clock, !.due = IF dates THEN clock ELSE @, !.flag = dates])
  /\ daySpent' = [daySpent EXCEPT !.edits = @ + 1, !.added = @ + 1]
  /\ ourDate' = [ourDate EXCEPT ![t] = IF dates THEN clock ELSE @]

\* A pass of the sync: a task with no write waiting takes Graph's content.
SyncDay(t) ==
  /\ dayRows[t] # dayGraph[t] /\ \A i \in DOMAIN dayOps : dayOps[i].t = t => ~Open(i)
  /\ dayRows' = [dayRows EXCEPT ![t] = dayGraph[t]]
  /\ UNCHANGED <<dayGraph, dayOps, reading, planned, rolling, clock, lastRollover, ourDate, daySpent>>

NextDay ==
  /\ clock < LastDay /\ clock' = clock + 1
  /\ UNCHANGED <<dayRows, dayGraph, dayOps, reading, planned, rolling, lastRollover, ourDate, daySpent>>

DayNext ==
  \/ \E targets \in SUBSET DayTasks, add \in BOOLEAN : DayChange(targets, add)
  \/ QueueChange \/ \E by \in {"auto", "user"} : Rollover(by)
  \/ QueueRollover \/ RecordRollover \/ StopDay \/ NextDay
  \/ \E i \in DOMAIN dayOps : ReadFor(i) \/ SendRead(i) \/ Refused(i) \/ RejectDay(i)
  \/ \E t \in DayTasks : DayPhone(t) \/ AddElsewhere(t) \/ SyncDay(t)

-----------------------------------------------------------------------------
(* Properties.                                                             *)

TakesTheirDate(i) ==
  LET t == dayOps[i].t IN
  /\ dayOps'[i].st # dayOps[i].st /\ dayGraph'[t].due # dayGraph[t].due
  /\ dayGraph[t].due \notin {NoDay, ourDate[t]}

\* The phone's date is kept (add_plan, remove_plan, the expect_due of send.rs
\* and the etags of its writes): no write of a command that was queued from
\* the very rows it was planned from, with no earlier write of the task's
\* waiting, replaces or clears a due date ms-todo didn't set itself; and one
\* of any other command takes only a date that the cache showed when the
\* command was planned or queued.  Not told apart: the phone giving back the
\* very day ms-todo had set, after another machine moved it.
TheirDateKept == [][\A i \in DOMAIN dayOps : TakesTheirDate(i) /\ daySpent.added = 0 =>
   ~dayOps[i].prompt /\ dayGraph[dayOps[i].t].due \in {dayOps[i].expectDue, dayOps[i].was.due}]_dayVars

\* "ms-todo takes that due date away again when the task leaves My Day, unless
\* it's completed or someone has changed it since" (my_day/mod.rs:4): said of
\* every command, and false of one queued behind another (send.rs skips the
\* first one's date as theirs; the second still expects it).
TheirDateNeverTaken == [][\A i \in DOMAIN dayOps : TakesTheirDate(i) => daySpent.added > 0]_dayVars

=============================================================================
