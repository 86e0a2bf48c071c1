---------------------------- MODULE OutboxProofs ----------------------------
(* The outbox's types, then WaitersAlive and BuiltOnDone by the invariant  *)
(* Inductive; OncePerChoice, NoGhostDone, OutcomesFinal, DoneWasApplied    *)
(* and, while SQLite takes every answer, InQueueOrder, by the invariants   *)
(* SentOK, GhostOK and RanOK, BirthOK, TurnOK and Orderly: for every       *)
(* number of operations, tasks, lists and clients.                         *)
EXTENDS Outbox, TLAPS

Rows == {"absent", "live", "gone"}

\* Every row change keeps each row one of the three it can be.
LEMMA RowChanges ==
  ASSUME TypeOK
  PROVE  /\ \A e, r : r \in Rows => WithRow(e, r) \in [Entities -> Rows]
         /\ \A l : TombstoneList(l) \in [Entities -> Rows]
         /\ \A k, e : LocalChange(k, e) \in [Entities -> Rows]
         /\ \A o : UndoLocal(o) \in [Entities -> Rows]
         /\ \A o : RedoLocal(o) \in [Entities -> Rows]
         /\ \A o : Record(o) \in [Entities -> Rows]
<1>1. row \in [Entities -> Rows]
  BY DEF TypeOK, CacheTypes, Rows
<1>2. \A e, r : r \in Rows => WithRow(e, r) \in [Entities -> Rows]
  BY <1>1 DEF WithRow
<1>3. \A l : TombstoneList(l) \in [Entities -> Rows]
  BY <1>1 DEF TombstoneList, Rows
<1>4. \A k, e : LocalChange(k, e) \in [Entities -> Rows]
  BY <1>1, <1>2, <1>3 DEF LocalChange, Rows
<1>5. \A o : UndoLocal(o) \in [Entities -> Rows]
  <2> TAKE o
  <2>1. [e \in Entities |-> IF e = ent[o] \/ e \in back[o] THEN "live" ELSE row[e]]
           \in [Entities -> Rows]
    BY <1>1 DEF Rows
  <2> QED
    BY <1>1, <1>2, <1>3, <2>1 DEF UndoLocal, Rows
<1>6. \A o : RedoLocal(o) \in [Entities -> Rows]
  BY <1>1, <1>2 DEF RedoLocal, Rows
<1>7. \A o : Record(o) \in [Entities -> Rows]
  BY <1>2 DEF Record, Rows
<1> QED
  BY <1>2, <1>3, <1>4, <1>5, <1>6, <1>7

\* Recording an answer keeps the types.
LEMMA SettleTypes ==
  ASSUME TypeOK, NEW o \in Ops, Settle(o)
  PROVE  TypeOK'
<1> USE ConstantsAssumption DEF Ops, NoOp, States
<1>0. QueueTypes /\ CacheTypes /\ GraphTypes /\ WorkerTypes /\ ClientTypes
  BY DEF TypeOK
<1>1. GraphTypes' /\ ClientTypes'
  BY <1>0 DEF Settle, RecordCreated, RecordChanged, RecordSent, RecordList, RecordSkipped, Defer, Reject,
     MarkUnknown, NotRecorded, Settling, GraphTypes, ClientTypes, graph, clients, Targets
<1>2. CASE RecordCreated(o)
  <2>1. QueueTypes'
    BY <1>2, <1>0 DEF RecordCreated, Settling, QueueTypes, queue, facts, cache, graph, worker, clients
  <2>2. CacheTypes'
    BY <1>2, <1>0, RowChanges DEF RecordCreated, Settling, CacheTypes, GraphTypes, Rows, queue, facts, cache, graph, worker, clients
  <2>3. WorkerTypes'
    BY <1>2, <1>0 DEF RecordCreated, Settling, WorkerTypes, queue, facts, cache, graph, worker, clients
  <2> QED BY <1>1, <2>1, <2>2, <2>3 DEF TypeOK
<1>3. CASE RecordChanged(o)
  <2>1. QueueTypes'
    BY <1>3, <1>0 DEF RecordChanged, Settling, QueueTypes, queue, facts, cache, graph, worker, clients
  <2>2. CacheTypes'
    BY <1>3, <1>0, RowChanges DEF RecordChanged, Settling, CacheTypes, GraphTypes, Rows, queue, facts, cache, graph, worker, clients
  <2>3. WorkerTypes'
    BY <1>3, <1>0 DEF RecordChanged, Settling, WorkerTypes, queue, facts, cache, graph, worker, clients
  <2> QED BY <1>1, <2>1, <2>2, <2>3 DEF TypeOK
<1>4. CASE RecordSent(o)
  <2>1. QueueTypes'
    BY <1>4, <1>0 DEF RecordSent, MarkDone, Moot, Settled, Settling, QueueTypes, queue, facts, cache, graph, worker, clients
  <2>2. CacheTypes'
    BY <1>4, <1>0, RowChanges DEF RecordSent, MarkDone, Settled, Settling, CacheTypes, GraphTypes, Rows, queue, facts, cache, graph, worker, clients
  <2>3. WorkerTypes'
    BY <1>4, <1>0 DEF RecordSent, Settling, WorkerTypes, queue, facts, cache, graph, worker, clients
  <2> QED BY <1>1, <2>1, <2>2, <2>3 DEF TypeOK
<1>5. CASE RecordList(o)
  <2>1. QueueTypes'
    BY <1>5, <1>0 DEF RecordList, Settling, QueueTypes, queue, facts, cache, graph, worker, clients
  <2>2. CacheTypes'
    BY <1>5, <1>0, RowChanges DEF RecordList, Settling, CacheTypes, QueueTypes, ListKinds, Rows, queue, facts, cache, graph, worker, clients
  <2>3. WorkerTypes'
    BY <1>5, <1>0 DEF RecordList, Settling, WorkerTypes, queue, facts, cache, graph, worker, clients
  <2> QED BY <1>1, <2>1, <2>2, <2>3 DEF TypeOK
<1>6. CASE RecordSkipped(o)
  <2>1. QueueTypes'
    BY <1>6, <1>0 DEF RecordSkipped, Settling, QueueTypes, queue, facts, cache, graph, worker, clients
  <2>2. CacheTypes'
    BY <1>6, <1>0, RowChanges DEF RecordSkipped, Settling, CacheTypes, GraphTypes, Rows, queue, facts, cache, graph, worker, clients
  <2>3. WorkerTypes'
    BY <1>6, <1>0 DEF RecordSkipped, Settling, WorkerTypes, queue, facts, cache, graph, worker, clients
  <2> QED BY <1>1, <2>1, <2>2, <2>3 DEF TypeOK
<1>7. CASE Defer(o)
  <2>1. QueueTypes'
    BY <1>7, <1>0 DEF Defer, Settling, QueueTypes, queue, facts, cache, graph, worker, clients
  <2>2. CacheTypes'
    BY <1>7, <1>0, RowChanges DEF Defer, Settling, CacheTypes, GraphTypes, Rows, queue, facts, cache, graph, worker, clients
  <2>3. WorkerTypes'
    BY <1>7, <1>0 DEF Defer, Settling, WorkerTypes, queue, facts, cache, graph, worker, clients
  <2> QED BY <1>1, <2>1, <2>2, <2>3 DEF TypeOK
<1>8. CASE Reject(o)
  <2>1. QueueTypes'
    BY <1>8, <1>0 DEF Reject, FailOp, Settled, Settling, QueueTypes, queue, facts, cache, graph, worker, clients
  <2>2. CacheTypes'
    BY <1>8, <1>0, RowChanges DEF Reject, FailOp, Settled, Settling, CacheTypes, GraphTypes, Rows, queue, facts, cache, graph, worker, clients
  <2>3. WorkerTypes'
    BY <1>8, <1>0 DEF Reject, Settling, WorkerTypes, queue, facts, cache, graph, worker, clients
  <2> QED BY <1>1, <2>1, <2>2, <2>3 DEF TypeOK
<1>9. CASE MarkUnknown(o)
  <2>1. QueueTypes'
    BY <1>9, <1>0 DEF MarkUnknown, Settling, QueueTypes, queue, facts, cache, graph, worker, clients
  <2>2. CacheTypes'
    BY <1>9, <1>0, RowChanges DEF MarkUnknown, Settling, CacheTypes, GraphTypes, Rows, queue, facts, cache, graph, worker, clients
  <2>3. WorkerTypes'
    BY <1>9, <1>0 DEF MarkUnknown, Settling, WorkerTypes, queue, facts, cache, graph, worker, clients
  <2> QED BY <1>1, <2>1, <2>2, <2>3 DEF TypeOK
<1>10. ASSUME NEW a, NotRecorded(o, a)
      PROVE  TypeOK'
  <2>1. QueueTypes'
    BY <1>10, <1>0 DEF NotRecorded, Settling, QueueTypes, queue, facts, cache, graph, worker, clients
  <2>2. CacheTypes' /\ WorkerTypes'
    BY <1>10, <1>0 DEF NotRecorded, Settling, CacheTypes, WorkerTypes, queue, facts, cache, graph, worker, clients
  <2> QED BY <1>1, <2>1, <2>2 DEF TypeOK
<1> QED
  BY <1>2, <1>3, <1>4, <1>5, <1>6, <1>7, <1>8, <1>9, <1>10 DEF Settle

\* Every step keeps every variable in its type.
LEMMA TypeStep ==
  ASSUME TypeOK, [Next]_vars
  PROVE  TypeOK'
<1> USE ConstantsAssumption DEF Ops, NoOp, States
<1>0. QueueTypes /\ CacheTypes /\ GraphTypes /\ WorkerTypes /\ ClientTypes
  BY DEF TypeOK
<1>1. ASSUME NEW k \in Kinds, NEW e \in Entities, Plan(k, e)
      PROVE  TypeOK'
  <2>1. ClientTypes'
    BY <1>1, <1>0 DEF ClientTypes, Plan, vars, queue, facts, cache, graph, worker, clients
  <2>2. QueueTypes' /\ CacheTypes' /\ GraphTypes' /\ WorkerTypes'
    BY <1>1, <1>0 DEF QueueTypes, CacheTypes, GraphTypes, WorkerTypes, Plan, vars, queue, facts, cache, graph, worker, clients
  <2> QED BY <2>1, <2>2 DEF TypeOK
<1>2. ASSUME NEW k \in Kinds, NEW e \in Entities, Enqueue(k, e)
      PROVE  TypeOK'
  <2>0. /\ k \in TaskKinds => e \in Tasks
        /\ k \in ListKinds => e \in Lists
    BY <1>2, <1>0 DEF Enqueue, ClientTypes, Targets, TaskKinds, ListKinds
  <2>a. next \in Ops /\ next \in Nat
    BY <1>2, <1>0 DEF Enqueue, QueueTypes
  <2>b. /\ st' \in [Ops -> States] /\ kind' \in [Ops -> Kinds \cup {"none"}]
        /\ ent' \in [Ops -> Entities \cup {"none"}] /\ dep' \in [Ops -> Ops \cup {NoOp}]
    BY <1>2, <1>0 DEF Enqueue, QueueTypes
  <2>c. back' \in [Ops -> SUBSET Tasks]
    BY <1>2, <1>0 DEF Enqueue, QueueTypes, TasksIn
  <2>d. \A x \in Ops : (kind'[x] \in TaskKinds => ent'[x] \in Tasks) /\ (kind'[x] \in ListKinds => ent'[x] \in Lists)
    BY <1>2, <1>0, <2>0, <2>a DEF Enqueue, QueueTypes
  <2>1. QueueTypes'
    BY <1>2, <1>0, <2>a, <2>b, <2>c, <2>d DEF QueueTypes, Enqueue
  <2>2. CacheTypes'
    BY <1>2, RowChanges, <1>0 DEF CacheTypes, Rows, Enqueue, vars, queue, facts, cache, graph, worker, clients
  <2>3. ClientTypes'
    BY <1>2, <1>0 DEF ClientTypes, Enqueue, QueueTypes, vars, queue, facts, cache, graph, worker, clients
  <2>4. GraphTypes' /\ WorkerTypes'
    BY <1>2, <1>0 DEF GraphTypes, WorkerTypes, Enqueue, vars, queue, facts, cache, graph, worker, clients
  <2> QED BY <2>1, <2>2, <2>3, <2>4 DEF TypeOK
<1>3. ASSUME NEW do \in {"retry", "discard"}, NEW o \in Ops, Ask(do, o)
      PROVE  TypeOK'
  <2>1. ClientTypes'
    BY <1>3, <1>0 DEF ClientTypes, Ask, QueueTypes, vars, queue, facts, cache, graph, worker, clients
  <2>2. QueueTypes' /\ CacheTypes' /\ GraphTypes' /\ WorkerTypes'
    BY <1>3, <1>0 DEF QueueTypes, CacheTypes, GraphTypes, WorkerTypes, Ask, vars, queue, facts, cache, graph, worker, clients
  <2> QED BY <2>1, <2>2 DEF TypeOK
<1>4. ASSUME NEW o \in Ops, NEW saw \in States, Retry(o, saw)
      PROVE  TypeOK'
  <2>1. QueueTypes'
    BY <1>4, <1>0 DEF QueueTypes, Retry, vars, queue, facts, cache, graph, worker, clients
  <2>2. CacheTypes'
    BY <1>4, RowChanges, <1>0 DEF CacheTypes, Rows, Retry, vars, queue, facts, cache, graph, worker, clients
  <2>3. ClientTypes'
    BY <1>4, <1>0 DEF ClientTypes, Retry, vars, queue, facts, cache, graph, worker, clients
  <2>4. GraphTypes' /\ WorkerTypes'
    BY <1>4, <1>0 DEF GraphTypes, WorkerTypes, Retry, vars, queue, facts, cache, graph, worker, clients
  <2> QED BY <2>1, <2>2, <2>3, <2>4 DEF TypeOK
<1>5. ASSUME NEW o \in Ops, NEW saw \in States, Discard(o, saw)
      PROVE  TypeOK'
  <2>1. QueueTypes'
    BY <1>5, <1>0 DEF QueueTypes, Discard, Settled, vars, queue, facts, cache, graph, worker, clients
  <2>2. CacheTypes'
    BY <1>5, RowChanges, <1>0 DEF CacheTypes, Rows, Discard, vars, queue, facts, cache, graph, worker, clients
  <2>3. ClientTypes'
    BY <1>5, <1>0 DEF ClientTypes, Discard, vars, queue, facts, cache, graph, worker, clients
  <2>4. GraphTypes' /\ WorkerTypes'
    BY <1>5, <1>0 DEF GraphTypes, WorkerTypes, Discard, vars, queue, facts, cache, graph, worker, clients
  <2> QED BY <2>1, <2>2, <2>3, <2>4 DEF TypeOK
<1>6. CASE ReadReady
  <2>1. WorkerTypes'
    BY <1>6, <1>0 DEF WorkerTypes, ReadReady, vars, queue, facts, cache, graph, worker, clients
  <2>2. QueueTypes' /\ CacheTypes' /\ GraphTypes' /\ ClientTypes'
    BY <1>6, <1>0 DEF QueueTypes, CacheTypes, GraphTypes, ClientTypes, ReadReady, vars, queue, facts, cache, graph, worker, clients
  <2> QED BY <2>1, <2>2 DEF TypeOK
<1>7. CASE Claim
  <2>1. QueueTypes'
    BY <1>7, <1>0 DEF QueueTypes, Claim, WorkerTypes, vars, queue, facts, cache, graph, worker, clients
  <2>2. WorkerTypes'
    BY <1>7, <1>0 DEF WorkerTypes, Claim, vars, queue, facts, cache, graph, worker, clients
  <2>3. CacheTypes' /\ GraphTypes' /\ ClientTypes'
    BY <1>7, <1>0 DEF CacheTypes, GraphTypes, ClientTypes, Claim, vars, queue, facts, cache, graph, worker, clients
  <2> QED BY <2>1, <2>2, <2>3 DEF TypeOK
<1>8. CASE EndRound
  <2>1. WorkerTypes'
    BY <1>8, <1>0 DEF WorkerTypes, EndRound, vars, queue, facts, cache, graph, worker, clients
  <2>2. QueueTypes' /\ CacheTypes' /\ GraphTypes' /\ ClientTypes'
    BY <1>8, <1>0 DEF QueueTypes, CacheTypes, GraphTypes, ClientTypes, EndRound, vars, queue, facts, cache, graph, worker, clients
  <2> QED BY <2>1, <2>2 DEF TypeOK
<1>9. CASE NextRound
  <2>1. WorkerTypes'
    BY <1>9, <1>0 DEF WorkerTypes, NextRound, vars, queue, facts, cache, graph, worker, clients
  <2>2. QueueTypes' /\ CacheTypes' /\ GraphTypes' /\ ClientTypes'
    BY <1>9, <1>0 DEF QueueTypes, CacheTypes, GraphTypes, ClientTypes, NextRound, vars, queue, facts, cache, graph, worker, clients
  <2> QED BY <2>1, <2>2 DEF TypeOK
<1>10. CASE NothingReady
  <2>1. WorkerTypes'
    BY <1>10, <1>0 DEF WorkerTypes, NothingReady, vars, queue, facts, cache, graph, worker, clients
  <2>2. QueueTypes' /\ CacheTypes' /\ GraphTypes' /\ ClientTypes'
    BY <1>10, <1>0 DEF QueueTypes, CacheTypes, GraphTypes, ClientTypes, NothingReady, vars, queue, facts, cache, graph, worker, clients
  <2> QED BY <2>1, <2>2 DEF TypeOK
<1>11. CASE Look
  <2>1. WorkerTypes'
    BY <1>11, <1>0 DEF WorkerTypes, Look, vars, queue, facts, cache, graph, worker, clients
  <2>2. QueueTypes' /\ CacheTypes' /\ GraphTypes' /\ ClientTypes'
    BY <1>11, <1>0 DEF QueueTypes, CacheTypes, GraphTypes, ClientTypes, Look, vars, queue, facts, cache, graph, worker, clients
  <2> QED BY <2>1, <2>2 DEF TypeOK
<1>12. CASE Looked
  <2>1. WorkerTypes'
    BY <1>12, <1>0 DEF WorkerTypes, Looked, vars, queue, facts, cache, graph, worker, clients
  <2>2. QueueTypes' /\ CacheTypes' /\ GraphTypes' /\ ClientTypes'
    BY <1>12, <1>0 DEF QueueTypes, CacheTypes, GraphTypes, ClientTypes, Looked, vars, queue, facts, cache, graph, worker, clients
  <2> QED BY <2>1, <2>2 DEF TypeOK
<1>13. ASSUME NEW o \in Ops, Exchange(o)
      PROVE  TypeOK'
  <2>1. GraphTypes'
    <3>1. ASSUME Runs(o)
          PROVE  GraphTypes'
      BY <1>0, <3>1 DEF Runs, GraphTypes, QueueTypes, ListKinds
    <3>2. ASSUME UNCHANGED graph
          PROVE  GraphTypes'
      BY <1>0, <3>2 DEF GraphTypes, graph
    <3> QED BY <1>13, <3>1, <3>2 DEF Exchange, Accepted, Refused, LeftAlone, Deferred, Lost
  <2>2. WorkerTypes'
    BY <1>13, <1>0 DEF WorkerTypes, Exchange, Accepted, Refused, LeftAlone, Deferred, Lost, Answers, vars, queue, facts, cache, graph, worker, clients
  <2>3. QueueTypes' /\ CacheTypes' /\ ClientTypes'
    BY <1>13, <1>0 DEF QueueTypes, CacheTypes, ClientTypes, Exchange, Answers, Accepted, Refused, LeftAlone, Deferred, Lost, vars, queue, facts, cache, graph, worker, clients
  <2> QED BY <2>1, <2>2, <2>3 DEF TypeOK
<1>14. ASSUME NEW o \in Ops, Settle(o)
      PROVE  TypeOK'
  BY <1>14, SettleTypes
<1>15. ASSUME NEW o \in Ops, Confirm(o)
      PROVE  TypeOK'
  <2>1. QueueTypes'
    <3>1. st' \in [Ops -> States] /\ skipped' \subseteq Ops
      <4>1. CASE MarkDone(o)
        BY <1>0, <4>1 DEF QueueTypes, MarkDone, Moot, Settled
      <4>2. CASE FailOp(o) /\ UNCHANGED skipped
        BY <1>0, <4>2 DEF QueueTypes, FailOp, Settled
      <4>3. CASE st' = [st EXCEPT ![o] = "unknown"] /\ UNCHANGED skipped
        BY <1>0, <4>3 DEF QueueTypes
      <4>4. CASE UNCHANGED <<st, skipped>>
        BY <1>0, <4>4 DEF QueueTypes
      <4> QED BY <1>15, <4>1, <4>2, <4>3, <4>4 DEF Confirm
    <3> QED BY <1>15, <1>0, <3>1 DEF QueueTypes, Confirm, facts
  <2>2. CacheTypes'
    BY <1>15, RowChanges, <1>0 DEF CacheTypes, Rows, Confirm, FailOp, vars, queue, facts, cache, graph, worker, clients
  <2>3. WorkerTypes'
    BY <1>15, <1>0 DEF WorkerTypes, Confirm, vars, queue, facts, cache, graph, worker, clients
  <2>4. GraphTypes' /\ ClientTypes'
    BY <1>15, <1>0 DEF GraphTypes, ClientTypes, Confirm, vars, queue, facts, cache, graph, worker, clients
  <2> QED BY <2>1, <2>2, <2>3, <2>4 DEF TypeOK
<1>16. ASSUME NEW o \in Ops, Attribute(o)
      PROVE  TypeOK'
  <2>1. QueueTypes'
    BY <1>16, <1>0 DEF QueueTypes, Attribute, Adopt, AdoptNothing, FailOp, Settled, vars, queue, facts, cache, graph, worker, clients
  <2>2. CacheTypes'
    BY <1>16, RowChanges, <1>0 DEF CacheTypes, Rows, Attribute, Adopt, AdoptNothing, FailOp, WorkerTypes, vars, queue, facts, cache, graph, worker, clients
  <2>3. WorkerTypes'
    BY <1>16, <1>0 DEF WorkerTypes, Attribute, vars, queue, facts, cache, graph, worker, clients
  <2>4. GraphTypes' /\ ClientTypes'
    BY <1>16, <1>0 DEF GraphTypes, ClientTypes, Attribute, Adopt, AdoptNothing, vars, queue, facts, cache, graph, worker, clients
  <2> QED BY <2>1, <2>2, <2>3, <2>4 DEF TypeOK
<1>17. ASSUME NEW a \in {"live", "gone", "error"}, NEW l \in Lists, GetList(l, a)
      PROVE  TypeOK'
  <2>1. WorkerTypes'
    BY <1>17, <1>0 DEF WorkerTypes, GetList, vars, queue, facts, cache, graph, worker, clients
  <2>2. QueueTypes' /\ CacheTypes' /\ GraphTypes' /\ ClientTypes'
    BY <1>17, <1>0 DEF QueueTypes, CacheTypes, GraphTypes, ClientTypes, GetList, vars, queue, facts, cache, graph, worker, clients
  <2> QED BY <2>1, <2>2 DEF TypeOK
<1>18. ASSUME NEW a \in {"live", "gone", "error"}, NEW o \in Ops, LookAt(o, a)
      PROVE  TypeOK'
  <2>1. WorkerTypes'
    BY <1>18, <1>0 DEF WorkerTypes, LookAt, Found, CacheTypes, QueueTypes, TaskKinds, vars, queue, facts, cache, graph, worker, clients
  <2>2. QueueTypes' /\ CacheTypes' /\ GraphTypes' /\ ClientTypes'
    BY <1>18, <1>0 DEF QueueTypes, CacheTypes, GraphTypes, ClientTypes, LookAt, vars, queue, facts, cache, graph, worker, clients
  <2> QED BY <2>1, <2>2 DEF TypeOK
<1>19. CASE BackoffEnds
  <2>1. QueueTypes'
    BY <1>19, <1>0 DEF QueueTypes, BackoffEnds, vars, queue, facts, cache, graph, worker, clients
  <2>2. CacheTypes' /\ GraphTypes' /\ WorkerTypes' /\ ClientTypes'
    BY <1>19, <1>0 DEF CacheTypes, GraphTypes, WorkerTypes, ClientTypes, BackoffEnds, vars, queue, facts, cache, graph, worker, clients
  <2> QED BY <2>1, <2>2 DEF TypeOK
<1>20. ASSUME NEW o \in Ops, Prune(o)
      PROVE  TypeOK'
  <2>1. QueueTypes'
    BY <1>20, <1>0 DEF QueueTypes, Prune, vars, queue, facts, cache, graph, worker, clients
  <2>2. CacheTypes' /\ GraphTypes' /\ WorkerTypes' /\ ClientTypes'
    BY <1>20, <1>0 DEF CacheTypes, GraphTypes, WorkerTypes, ClientTypes, Prune, vars, queue, facts, cache, graph, worker, clients
  <2> QED BY <2>1, <2>2 DEF TypeOK
<1>21. ASSUME NEW o \in Ops, NEW k \in 1 .. MaxChosen, SyncSees(o, k)
      PROVE  TypeOK'
  <2>1. CacheTypes'
    BY <1>21, <1>0 DEF CacheTypes, SyncSees, vars, queue, facts, cache, graph, worker, clients
  <2>2. QueueTypes' /\ GraphTypes' /\ WorkerTypes' /\ ClientTypes'
    BY <1>21, <1>0 DEF QueueTypes, GraphTypes, WorkerTypes, ClientTypes, SyncSees, vars, queue, facts, cache, graph, worker, clients
  <2> QED BY <2>1, <2>2 DEF TypeOK
<1>22. ASSUME NEW l \in Lists, PhoneDeletesList(l)
      PROVE  TypeOK'
  <2>1. GraphTypes'
    BY <1>22, <1>0 DEF GraphTypes, PhoneDeletesList, vars, queue, facts, cache, graph, worker, clients
  <2>2. QueueTypes' /\ CacheTypes' /\ WorkerTypes' /\ ClientTypes'
    BY <1>22, <1>0 DEF QueueTypes, CacheTypes, WorkerTypes, ClientTypes, PhoneDeletesList, vars, queue, facts, cache, graph, worker, clients
  <2> QED BY <2>1, <2>2 DEF TypeOK
<1>23. ASSUME NEW l \in Lists, NEW kept \in SUBSET TasksIn(l), RemoveList(l, kept)
      PROVE  TypeOK'
  <2>1. QueueTypes'
    BY <1>23, <1>0 DEF QueueTypes, RemoveList, Settled, vars, queue, facts, cache, graph, worker, clients
  <2>2. CacheTypes'
    BY <1>23, <1>0 DEF CacheTypes, RemoveList, vars, queue, facts, cache, graph, worker, clients
  <2>3. GraphTypes' /\ WorkerTypes' /\ ClientTypes'
    BY <1>23, <1>0 DEF GraphTypes, WorkerTypes, ClientTypes, RemoveList, vars, queue, facts, cache, graph, worker, clients
  <2> QED BY <2>1, <2>2, <2>3 DEF TypeOK
<1>24. CASE Crash
  <2>1. WorkerTypes'
    BY <1>24, <1>0 DEF WorkerTypes, Crash, vars, queue, facts, cache, graph, worker, clients
  <2>2. ClientTypes'
    BY <1>24, <1>0 DEF ClientTypes, Crash, vars, queue, facts, cache, graph, worker, clients
  <2>3. QueueTypes' /\ CacheTypes' /\ GraphTypes'
    BY <1>24, <1>0 DEF QueueTypes, CacheTypes, GraphTypes, Crash, vars, queue, facts, cache, graph, worker, clients
  <2> QED BY <2>1, <2>2, <2>3 DEF TypeOK
<1>25. CASE Start
  <2>1. QueueTypes'
    BY <1>25, <1>0 DEF QueueTypes, Start, vars, queue, facts, cache, graph, worker, clients
  <2>2. WorkerTypes'
    BY <1>25, <1>0 DEF WorkerTypes, Start, vars, queue, facts, cache, graph, worker, clients
  <2>3. CacheTypes' /\ GraphTypes' /\ ClientTypes'
    BY <1>25, <1>0 DEF CacheTypes, GraphTypes, ClientTypes, Start, vars, queue, facts, cache, graph, worker, clients
  <2> QED BY <2>1, <2>2, <2>3 DEF TypeOK
<1>26. CASE UNCHANGED vars
  <2>1. QueueTypes' /\ CacheTypes'
    BY <1>26, <1>0 DEF QueueTypes, CacheTypes, vars, queue, facts, cache
  <2>2. GraphTypes' /\ ClientTypes'
    BY <1>26, <1>0 DEF GraphTypes, ClientTypes, vars, facts, graph, clients
  <2>3. WorkerTypes'
    BY <1>26, <1>0 DEF WorkerTypes, Targets, vars, queue, facts, worker
  <2> QED BY <2>1, <2>2, <2>3 DEF TypeOK
<1> QED
  BY <1>1, <1>2, <1>3, <1>4, <1>5, <1>6, <1>7, <1>8, <1>9, <1>10, <1>11, <1>12, <1>13, <1>14,
     <1>15, <1>16, <1>17, <1>18, <1>19, <1>20, <1>21, <1>22, <1>23, <1>24, <1>25, <1>26
     DEF Next, Client, Worker, Around

\* Whatever the clients, the worker, Graph and the phone do, every variable
\* keeps its type.
THEOREM TypeCorrect == Spec => []TypeOK
<1>1. Init => TypeOK
  <2> USE ConstantsAssumption DEF Init, Ops, NoOp
  <2>1. Init => QueueTypes
    BY DEF QueueTypes, States, TaskKinds, ListKinds
  <2>2. Init => CacheTypes
    BY DEF CacheTypes
  <2>3. Init => GraphTypes
    BY DEF GraphTypes
  <2>5. Init => WorkerTypes
    <3>1. Init => deferred \in BOOLEAN
      BY Zenon DEF Init
    <3>2. Init => /\ pc = "top" /\ answer = "none" /\ cur = 0 /\ seen = 0
                  /\ todo = {} /\ made = {}
      OBVIOUS
    <3> QED BY <3>1, <3>2 DEF WorkerTypes
  <2>4. Init => ClientTypes
    BY DEF ClientTypes
  <2> QED BY <2>1, <2>2, <2>3, <2>4, <2>5 DEF TypeOK
<1>2. TypeOK /\ [Next]_vars => TypeOK'
  BY TypeStep
<1> QED
  BY <1>1, <1>2, PTL DEF Spec

-----------------------------------------------------------------------------
(* The queue.                                                              *)

\* What waits on something that waits on roots, waits on roots.
LEMMA WaitingClosed ==
  ASSUME NEW roots, NEW x \in Ops, st[x] \notin GoneStates, dep[x] \in roots \cup Waiting(roots)
  PROVE  x \in Waiting(roots)
<1>1. ASSUME NEW S \in SUBSET Ops,
             \A y \in Ops : (st[y] \notin GoneStates /\ dep[y] \in roots \cup S) => y \in S
      PROVE  x \in S
  <2>1. dep[x] \in Waiting(roots) => dep[x] \in S
    BY <1>1 DEF Waiting
  <2> QED BY <1>1, <2>1
<1> QED BY <1>1 DEF Waiting

\* Operations fail or are dropped, and what waits on them fails: nothing
\* pending is left behind one that failed.
LEMMA Sinking ==
  ASSUME TypeOK, TypeOK', DepOK, NEW R \in SUBSET Ops,
         \A r \in R : st[r] \in Unsettled,
         \A x \in R : st'[x] \in {"failed", "dropped"},
         \A x \in Cascaded(R) \ R : st'[x] = "failed",
         \A x \in Ops \ (R \cup Cascaded(R)) : st'[x] = st[x],
         UNCHANGED <<dep, next, applied>>
  PROVE  /\ DepOK'
         /\ \A o \in Ops : Based(o) => Based(o)'
<1>0. /\ st \in [Ops -> States] /\ dep \in [Ops -> Ops \cup {NoOp}] /\ next \in Nat
      /\ st' \in [Ops -> States]
  BY ConstantsAssumption DEF TypeOK, QueueTypes
<1>1. \A x \in Cascaded(R) : x \in Ops /\ x \in Waiting(R) /\ st[x] \in {"pending", "unknown"}
  BY DEF Cascaded, Waiting, NotSent
<1>2. \A x \in Ops : st[x] = "pending" /\ dep[x] \in R \cup Cascaded(R) => st'[x] \in {"failed", "dropped"}
  <2> SUFFICES ASSUME NEW x \in Ops, st[x] = "pending", dep[x] \in R \cup Cascaded(R)
               PROVE  st'[x] \in {"failed", "dropped"}
    OBVIOUS
  <2>1. x \in Waiting(R)
    BY <1>1, WaitingClosed DEF GoneStates
  <2>2. x \in Cascaded(R)
    BY <2>1 DEF Cascaded, NotSent
  <2> QED BY <2>2
<1>3. \A x \in Ops : st[x] \in {"done", "pruned", "free"} => st'[x] = st[x]
  BY <1>1 DEF Unsettled
<1>4. \A x \in Ops : st'[x] # st[x] => st[x] \in Unsettled /\ st'[x] \in {"failed", "dropped"}
  BY <1>1 DEF Unsettled
<1>5. \A o \in Ops : Based(o) => Based(o)'
  BY <1>0, <1>3 DEF Based, NoOp
<1>6. DepOK'
  <2> SUFFICES ASSUME NEW o \in Ops
               PROVE  /\ (o >= next) <=> (st'[o] = "free")
                      /\ dep[o] < o
                      /\ st'[o] = "free" => dep[o] = NoOp /\ applied[o] = 0
                      /\ st'[o] = "pending" => dep[o] = NoOp \/ st'[dep[o]] \in UnresolvedStates \cup {"done"}
                      /\ st'[o] \in {"inflight", "unknown"} => Based(o)'
                      /\ applied[o] > 0 => dep[o] = NoOp \/ st'[dep[o]] \in {"done", "pruned"}
    BY DEF DepOK
  <2>1. /\ (o >= next) <=> (st[o] = "free")
        /\ dep[o] < o
        /\ st[o] = "free" => dep[o] = NoOp /\ applied[o] = 0
        /\ st[o] = "pending" => dep[o] = NoOp \/ st[dep[o]] \in UnresolvedStates \cup {"done"}
        /\ st[o] \in {"inflight", "unknown"} => Based(o)
        /\ applied[o] > 0 => dep[o] = NoOp \/ st[dep[o]] \in {"done", "pruned"}
    BY DEF DepOK
  <2>2. (st'[o] = "free") <=> (st[o] = "free")
    BY <1>3, <1>4 DEF Unsettled
  <2>3. st'[o] = "pending" => dep[o] = NoOp \/ st'[dep[o]] \in UnresolvedStates \cup {"done"}
    BY <1>0, <1>2, <1>4, <2>1 DEF NoOp
  <2>4. st'[o] \in {"inflight", "unknown"} => Based(o)'
    BY <1>4, <1>5, <2>1
  <2>5. applied[o] > 0 => dep[o] = NoOp \/ st'[dep[o]] \in {"done", "pruned"}
    BY <1>0, <1>3, <2>1 DEF NoOp
  <2> QED BY <2>1, <2>2, <2>3, <2>4, <2>5
<1> QED BY <1>5, <1>6

\* Operations move among pending, inflight, unknown and done, each with its
\* dependency done unless it becomes done itself.
LEMMA Moving ==
  ASSUME TypeOK, TypeOK', DepOK, NEW R \in SUBSET Ops,
         \A r \in R : st[r] \in Unsettled,
         \A r \in R : \/ st'[r] = "done"
                      \/ st'[r] \in UnresolvedStates /\ Based(r),
         \A x \in Ops \ R : st'[x] = st[x],
         UNCHANGED <<dep, next, applied>>
  PROVE  /\ DepOK'
         /\ \A o \in Ops : Based(o) => Based(o)'
<1>0. /\ st \in [Ops -> States] /\ dep \in [Ops -> Ops \cup {NoOp}] /\ next \in Nat
      /\ st' \in [Ops -> States]
  BY ConstantsAssumption DEF TypeOK, QueueTypes
<1>3. \A x \in Ops : st[x] \in {"done", "pruned", "free"} => st'[x] = st[x]
  BY DEF Unsettled
<1>4. \A x \in Ops : st'[x] # st[x] => st'[x] \in UnresolvedStates \cup {"done"}
  OBVIOUS
<1>5. \A o \in Ops : Based(o) => Based(o)'
  BY <1>0, <1>3 DEF Based, NoOp
<1>6. DepOK'
  <2> SUFFICES ASSUME NEW o \in Ops
               PROVE  /\ (o >= next) <=> (st'[o] = "free")
                      /\ dep[o] < o
                      /\ st'[o] = "free" => dep[o] = NoOp /\ applied[o] = 0
                      /\ st'[o] = "pending" => dep[o] = NoOp \/ st'[dep[o]] \in UnresolvedStates \cup {"done"}
                      /\ st'[o] \in {"inflight", "unknown"} => Based(o)'
                      /\ applied[o] > 0 => dep[o] = NoOp \/ st'[dep[o]] \in {"done", "pruned"}
    BY DEF DepOK
  <2>1. /\ (o >= next) <=> (st[o] = "free")
        /\ dep[o] < o
        /\ st[o] = "free" => dep[o] = NoOp /\ applied[o] = 0
        /\ st[o] = "pending" => dep[o] = NoOp \/ st[dep[o]] \in UnresolvedStates \cup {"done"}
        /\ st[o] \in {"inflight", "unknown"} => Based(o)
        /\ applied[o] > 0 => dep[o] = NoOp \/ st[dep[o]] \in {"done", "pruned"}
    BY DEF DepOK
  <2>2. (st'[o] = "free") <=> (st[o] = "free")
    BY <1>3, <1>4 DEF UnresolvedStates
  <2>3. st'[o] = "pending" => dep[o] = NoOp \/ st'[dep[o]] \in UnresolvedStates \cup {"done"}
    <3>1. CASE o \in R
      BY <1>0, <1>3, <3>1 DEF Based, NoOp
    <3>2. CASE o \notin R
      BY <1>0, <1>4, <2>1, <3>2 DEF NoOp
    <3> QED BY <3>1, <3>2
  <2>4. st'[o] \in {"inflight", "unknown"} => Based(o)'
    BY <1>5, <2>1
  <2>5. applied[o] > 0 => dep[o] = NoOp \/ st'[dep[o]] \in {"done", "pruned"}
    BY <1>0, <1>3, <2>1 DEF NoOp
  <2> QED BY <2>1, <2>2, <2>3, <2>4, <2>5
<1> QED BY <1>5, <1>6

-----------------------------------------------------------------------------
(* What a step must keep for the invariant's three parts.                  *)

\* A step that moves no operation keeps what the queue promises.
LEMMA Same ==
  ASSUME DepOK, UNCHANGED <<st, dep, next, applied>>
  PROVE  /\ DepOK'
         /\ \A o \in Ops : Based(o) <=> Based(o)'
BY DEF DepOK, Based

\* What a client read stays true of its operation, until it acts.
LEMMA AskedKept ==
  ASSUME AskedOK, asked' \subseteq asked,
         \A o \in Ops : st[o] # "free" =>
            /\ st'[o] # "free"
            /\ st'[o] \in Unsettled => st[o] \in Unsettled
            /\ st[o] \in Unsettled /\ Based(o) => Based(o)'
  PROVE  AskedOK'
<1> SUFFICES ASSUME NEW o \in Ops, NEW saw \in States
             PROVE  /\ <<"retry", o, saw>> \in asked' =>
                         saw \in {"unknown", "failed"} /\ st'[o] # "free" /\ (st'[o] \in Unsettled => Based(o)')
                    /\ <<"discard", o, saw>> \in asked' => saw \in {"pending", "unknown", "failed"}
  BY DEF AskedOK
<1> QED
  BY DEF AskedOK

\* What the worker holds stays true while others act.
LEMMA WorkerKept ==
  ASSUME TypeOK, WorkerOK, UNCHANGED worker,
         \A o \in Ops :
            /\ st[o] = "inflight" => st'[o] = "inflight"
            /\ st'[o] \in {"inflight", "done", "free"} => st[o] = st'[o]
            /\ st[o] # "free" /\ st'[o] = "pending" =>
                  \/ Based(o)'
                  \/ st[o] = "pending" /\ (Based(o) => Based(o)')
  PROVE  WorkerOK'
<1>1. todo \subseteq Ops /\ made \subseteq Ops
  BY DEF TypeOK, WorkerTypes
<1>2. UNCHANGED <<pc, todo, cur, made>>
  BY DEF worker
<1> QED
  BY <1>1, <1>2 DEF WorkerOK

-----------------------------------------------------------------------------
(* The steps.                                                              *)

\* Queueing a write, behind the latest unresolved one it concerns.
LEMMA EnqueueStep ==
  ASSUME TypeOK, TypeOK', Inductive, NEW k \in Kinds, NEW e \in Entities, Enqueue(k, e)
  PROVE  Inductive'
<1> USE DEF NoOp, Inductive
<1>0. /\ st \in [Ops -> States] /\ dep \in [Ops -> Ops \cup {NoOp}] /\ next \in Nat
      /\ applied \in [Ops -> Nat] /\ Ops \subseteq Nat \ {0}
  BY ConstantsAssumption DEF TypeOK, QueueTypes, GraphTypes, Ops
<1>1. next \in Ops /\ st[next] = "free"
  BY <1>0, ConstantsAssumption DEF Enqueue, DepOK, Ops, TypeOK, QueueTypes
<1>2. PICK d \in Ops \cup {NoOp} : DependsOn(k, e, d) /\ dep' = [dep EXCEPT ![next] = d]
  BY DEF Enqueue
<1>3. d = NoOp \/ st[d] \in UnresolvedStates
  BY <1>2 DEF DependsOn, Ahead, ListCreates, Unresolved
<1>4. d # NoOp => d \in Ops /\ d # next /\ d < next
  BY <1>0, <1>1, <1>2, <1>3 DEF DepOK, UnresolvedStates
<1>5. /\ next' = next + 1 /\ st' = [st EXCEPT ![next] = "pending"]
      /\ UNCHANGED <<applied, pc, todo, cur, made, asked>>
  BY DEF Enqueue, graph, worker
<1>6. \A o \in Ops : st[o] # "free" => o # next /\ st'[o] = st[o] /\ dep'[o] = dep[o]
  BY <1>0, <1>1, <1>2, <1>5
<1>7. \A o \in Ops : dep[o] # NoOp => st'[dep[o]] = st[dep[o]]
  <2> SUFFICES ASSUME NEW o \in Ops, dep[o] # NoOp, dep[o] = next
               PROVE  FALSE
    BY <1>0, <1>1, <1>5
  <2>1. o > next
    BY <1>0 DEF DepOK
  <2>2. st[o] = "free"
    BY <1>0, <2>1 DEF DepOK
  <2> QED BY <2>2 DEF DepOK
<1>8. \A o \in Ops : st[o] # "free" => (Based(o) <=> Based(o)')
  BY <1>6, <1>7 DEF Based
<1>9. DepOK'
  <2> SUFFICES ASSUME NEW o \in Ops
               PROVE  /\ (o >= next') <=> (st'[o] = "free")
                      /\ dep'[o] < o
                      /\ st'[o] = "free" => dep'[o] = NoOp /\ applied'[o] = 0
                      /\ st'[o] = "pending" => dep'[o] = NoOp \/ st'[dep'[o]] \in UnresolvedStates \cup {"done"}
                      /\ st'[o] \in {"inflight", "unknown"} => Based(o)'
                      /\ applied'[o] > 0 => dep'[o] = NoOp \/ st'[dep'[o]] \in {"done", "pruned"}
    BY DEF DepOK
  <2>1. CASE o = next
    <3>1. dep'[o] = d /\ st'[o] = "pending" /\ (d # NoOp => st'[d] = st[d])
      BY <1>0, <1>1, <1>2, <1>4, <1>5, <2>1
    <3>2. applied'[o] = 0
      BY <1>1, <1>5, <2>1 DEF DepOK
    <3>3. dep'[o] < o /\ ~(o >= next')
      BY <1>0, <1>1, <1>4, <1>5, <2>1, <3>1
    <3>4. dep'[o] = NoOp \/ st'[dep'[o]] \in UnresolvedStates
      BY <1>3, <3>1
    <3>5. ~(applied'[o] > 0)
      BY <3>2
    <3> QED BY <3>1, <3>2, <3>3, <3>4, <3>5
  <2>2. CASE o # next
    <3>1. st'[o] = st[o] /\ dep'[o] = dep[o] /\ applied'[o] = applied[o]
      BY <1>0, <1>2, <1>5, <2>2
    <3>2. (o >= next') <=> (st'[o] = "free")
      BY <1>0, <1>5, <2>2, <3>1 DEF DepOK
    <3>3. st'[o] \in {"inflight", "unknown"} => Based(o)'
      BY <1>8, <3>1 DEF DepOK
    <3> QED BY <1>7, <3>1, <3>2, <3>3 DEF DepOK
  <2> QED BY <2>1, <2>2
<1>10. WorkerOK'
  <2>1. todo \subseteq Ops /\ made \subseteq Ops
    BY DEF TypeOK, WorkerTypes
  <2> QED BY <1>5, <1>6, <1>8, <2>1 DEF WorkerOK
<1>11. AskedOK'
  BY <1>5, <1>6, <1>8, AskedKept
<1> QED
  BY <1>9, <1>10, <1>11

\* A client's retry or discard reads its operation, then acts on it.
LEMMA AskStep ==
  ASSUME TypeOK, TypeOK', Inductive, NEW do \in {"retry", "discard"}, NEW o \in Ops, Ask(do, o)
  PROVE  Inductive'
<1> USE DEF Inductive
<1>1. UNCHANGED <<st, dep, next, applied, worker>>
  BY DEF Ask, queue, facts, graph
<1>2. DepOK' /\ \A x \in Ops : Based(x) <=> Based(x)'
  BY <1>1, Same
<1>3. WorkerOK'
  BY <1>1, <1>2, WorkerKept
<1>4. AskedOK'
  <2> SUFFICES ASSUME NEW x \in Ops, NEW saw \in States
               PROVE  /\ <<"retry", x, saw>> \in asked' =>
                           saw \in {"unknown", "failed"} /\ st[x] # "free" /\ (st[x] \in Unsettled => Based(x))
                      /\ <<"discard", x, saw>> \in asked' => saw \in {"pending", "unknown", "failed"}
    BY <1>1, <1>2 DEF AskedOK
  <2>1. \/ <<"retry", x, saw>> \in asked' => <<"retry", x, saw>> \in asked
        \/ saw = st[o] /\ x = o /\ do = "retry"
    BY DEF Ask
  <2>2. \/ <<"discard", x, saw>> \in asked' => <<"discard", x, saw>> \in asked
        \/ saw = st[o] /\ x = o /\ do = "discard"
    BY DEF Ask
  <2>3. do = "retry" => st[o] \in {"unknown", "failed"} /\ Based(o)
    BY DEF Ask, Based
  <2>4. do = "discard" => st[o] \in {"pending", "unknown", "failed"}
    BY DEF Ask
  <2> QED BY <2>1, <2>2, <2>3, <2>4 DEF AskedOK
<1> QED
  BY <1>2, <1>3, <1>4

LEMMA RetryStep ==
  ASSUME TypeOK, TypeOK', Inductive, NEW o \in Ops, NEW saw \in States, Retry(o, saw)
  PROVE  Inductive'
<1> USE DEF Inductive
<1>1. UNCHANGED <<dep, next, applied, worker>> /\ asked' \subseteq asked
  BY DEF Retry, facts, graph
<1>2. CASE st[o] # saw
  <2>1. UNCHANGED st
    BY <1>2 DEF Retry
  <2>2. DepOK' /\ \A x \in Ops : Based(x) <=> Based(x)'
    BY <1>1, <2>1, Same
  <2> QED BY <1>1, <2>1, <2>2, WorkerKept, AskedKept
<1>3. CASE st[o] = saw
  <2>0. st \in [Ops -> States]
    BY DEF TypeOK, QueueTypes
  <2>1. st[o] \in {"unknown", "failed"} /\ Based(o)
    BY <1>3 DEF Retry, AskedOK, Unsettled
  <2>2. st' = [st EXCEPT ![o] = "pending"]
    BY <1>3 DEF Retry
  <2>3. \A x \in Ops : x # o => st'[x] = st[x]
    BY <2>0, <2>2
  <2>4. st'[o] = "pending"
    BY <2>0, <2>2
  <2>5. DepOK' /\ \A x \in Ops : Based(x) => Based(x)'
    <3> DEFINE R == {o}
    <3>1. /\ \A r \in R : st[r] \in Unsettled
          /\ \A r \in R : st'[r] = "done" \/ (st'[r] \in UnresolvedStates /\ Based(r))
          /\ \A x \in Ops \ R : st'[x] = st[x]
          /\ R \in SUBSET Ops
      BY <2>1, <2>3, <2>4 DEF Unsettled, UnresolvedStates
    <3> HIDE DEF R
    <3> QED BY <1>1, <3>1, Moving
  <2>6. WorkerOK'
    BY <1>1, <2>1, <2>3, <2>4, <2>5, WorkerKept
  <2>7. AskedOK'
    BY <1>1, <2>1, <2>3, <2>4, <2>5, AskedKept DEF Unsettled
  <2> QED BY <2>5, <2>6, <2>7
<1> QED
  BY <1>2, <1>3

LEMMA DiscardStep ==
  ASSUME TypeOK, TypeOK', Inductive, NEW o \in Ops, NEW saw \in States, Discard(o, saw)
  PROVE  Inductive'
<1> USE DEF Inductive
<1>1. UNCHANGED <<dep, next, applied, worker>> /\ asked' \subseteq asked
  BY DEF Discard, facts, graph
<1>2. CASE st[o] # saw
  <2>1. UNCHANGED st
    BY <1>2 DEF Discard
  <2>2. DepOK' /\ \A x \in Ops : Based(x) <=> Based(x)'
    BY <1>1, <2>1, Same
  <2> QED BY <1>1, <2>1, <2>2, WorkerKept, AskedKept
<1>3. CASE st[o] = saw
  <2>1. st[o] \in {"pending", "unknown", "failed"}
    BY <1>3 DEF Discard, AskedOK
  <2>2. st' = [Settled(Cascaded({o}), "failed") EXCEPT ![o] = "dropped"]
    BY <1>3 DEF Discard
  <2>3. \A x \in Ops : st'[x] = IF x = o THEN "dropped" ELSE IF x \in Cascaded({o}) THEN "failed" ELSE st[x]
    BY <2>2 DEF Settled
  <2>4. \A x \in Cascaded({o}) : x \in Ops /\ st[x] \in {"pending", "unknown"}
    BY DEF Cascaded, Waiting, NotSent
  <2>5. DepOK' /\ \A x \in Ops : Based(x) => Based(x)'
    <3> DEFINE R == {o}
    <3>1. /\ \A r \in R : st[r] \in Unsettled
          /\ \A r \in R : st'[r] \in {"failed", "dropped"}
          /\ \A x \in Cascaded(R) \ R : st'[x] = "failed"
          /\ \A x \in Ops \ (R \cup Cascaded(R)) : st'[x] = st[x]
          /\ R \in SUBSET Ops
      BY <2>1, <2>3, <2>4 DEF Unsettled
    <3> HIDE DEF R
    <3> QED BY <1>1, <3>1, Sinking
  <2>6. WorkerOK'
    BY <1>1, <2>1, <2>3, <2>4, <2>5, WorkerKept
  <2>7. AskedOK'
    BY <1>1, <2>1, <2>3, <2>4, <2>5, AskedKept DEF Unsettled
  <2> QED BY <2>5, <2>6, <2>7
<1> QED
  BY <1>2, <1>3

\* The worker's steps that only move the worker.
LEMMA QuietStep ==
  ASSUME TypeOK, TypeOK', Inductive,
         \/ ReadReady \/ EndRound \/ NextRound \/ NothingReady \/ Look \/ Looked
         \/ \E a \in {"live", "gone", "error"} :
               (\E l \in Lists : GetList(l, a)) \/ (\E o \in Ops : LookAt(o, a))
  PROVE  Inductive'
<1> USE DEF Inductive
<1>1. UNCHANGED <<st, dep, next, applied, asked>>
  BY DEF ReadReady, EndRound, NextRound, NothingReady, Look, Looked, GetList, LookAt,
     queue, facts, graph, clients
<1>2. DepOK' /\ \A x \in Ops : Based(x) <=> Based(x)'
  BY <1>1, Same
<1>3. AskedOK'
  BY <1>1, <1>2, AskedKept
<1>4. todo \subseteq Ops /\ made \subseteq Ops
  BY DEF TypeOK, WorkerTypes
<1>5. CASE ReadReady
  <2>1. pc' = "round" /\ made' = {} /\ todo' = {o \in Ops : Ready(o)}
    BY <1>5 DEF ReadReady
  <2>2. \A o \in todo' : o \in Ops /\ st[o] = "pending" /\ Based(o)
    BY <2>1 DEF Ready, Based
  <2>3. WorkerOK'
    BY <1>1, <1>2, <2>1, <2>2 DEF WorkerOK
  <2> QED BY <1>2, <1>3, <2>3
<1>6. CASE EndRound \/ NextRound \/ NothingReady \/ Looked
  <2>1. pc' \in {"confirm", "after", "top"} /\ UNCHANGED made
    BY <1>6 DEF EndRound, NextRound, NothingReady, Looked
  <2>2. WorkerOK'
    BY <1>1, <1>4, <2>1 DEF WorkerOK
  <2> QED BY <1>2, <1>3, <2>2
<1>7. CASE Look
  <2>1. UNCHANGED made
    BY <1>7 DEF Look
  <2>2. \/ pc' = "top"
        \/ pc' = "look" /\ \A o \in todo' : st[o] = "unknown"
    BY <1>7 DEF Look
  <2>3. WorkerOK'
    BY <1>1, <1>4, <2>1, <2>2 DEF WorkerOK
  <2> QED BY <1>2, <1>3, <2>3
<1>8. ASSUME NEW a, NEW l \in Lists, GetList(l, a)
      PROVE  Inductive'
  <2>1. pc' = "confirming" /\ todo' \subseteq made /\ made' = made \ todo'
    BY <1>8 DEF GetList
  <2>2. WorkerOK'
    BY <1>1, <1>4, <2>1 DEF WorkerOK
  <2> QED BY <1>2, <1>3, <2>2
<1>9. ASSUME NEW a, NEW o \in Ops, LookAt(o, a)
      PROVE  Inductive'
  <2>1. /\ pc = "look" /\ o \in todo /\ todo' = todo \ {o} /\ UNCHANGED made
        /\ \/ pc' = "look"
           \/ pc' = "adopt" /\ cur' = o
    BY <1>9 DEF LookAt
  <2>2. WorkerOK'
    BY <1>1, <1>4, <2>1 DEF WorkerOK
  <2> QED BY <1>2, <1>3, <2>2
<1> QED
  BY <1>5, <1>6, <1>7, <1>8, <1>9

\* What is claimed was ready when it was read, and is so still.
LEMMA ClaimStep ==
  ASSUME TypeOK, TypeOK', Inductive, Claim
  PROVE  Inductive'
<1> USE DEF Inductive
<1>1. PICK o \in todo : /\ todo' = todo \ {o}
                        /\ IF st[o] = "pending"
                           THEN st' = [st EXCEPT ![o] = "inflight"] /\ cur' = o /\ pc' = "wire"
                           ELSE UNCHANGED <<st, cur, pc>>
  BY DEF Claim
<1>2. /\ pc = "round" /\ UNCHANGED <<dep, next, applied, asked, made>>
      /\ st \in [Ops -> States] /\ todo \subseteq Ops /\ made \subseteq Ops /\ o \in Ops
  BY DEF Claim, facts, graph, clients, TypeOK, WorkerTypes, QueueTypes
<1>3. CASE st[o] # "pending"
  <2>1. UNCHANGED <<st, cur, pc>>
    BY <1>1, <1>3
  <2>2. DepOK' /\ \A x \in Ops : Based(x) <=> Based(x)'
    BY <1>2, <2>1, Same
  <2>3. AskedOK'
    BY <1>2, <2>1, <2>2, AskedKept
  <2>4. WorkerOK'
    BY <1>1, <1>2, <2>1, <2>2 DEF WorkerOK
  <2> QED BY <2>2, <2>3, <2>4
<1>4. CASE st[o] = "pending"
  <2>1. st' = [st EXCEPT ![o] = "inflight"] /\ cur' = o /\ pc' = "wire"
    BY <1>1, <1>4
  <2>2. Based(o)
    BY <1>2, <1>4 DEF WorkerOK
  <2>3. st'[o] = "inflight" /\ \A x \in Ops : x # o => st'[x] = st[x]
    BY <1>2, <2>1
  <2>4. DepOK' /\ \A x \in Ops : Based(x) => Based(x)'
    <3> DEFINE R == {o}
    <3>1. /\ \A r \in R : st[r] \in Unsettled
          /\ \A r \in R : st'[r] = "done" \/ (st'[r] \in UnresolvedStates /\ Based(r))
          /\ \A x \in Ops \ R : st'[x] = st[x]
          /\ R \in SUBSET Ops
      BY <1>2, <1>4, <2>2, <2>3 DEF Unsettled, UnresolvedStates
    <3> HIDE DEF R
    <3> QED BY <1>2, <3>1, Moving
  <2>5. AskedOK'
    BY <1>2, <1>4, <2>3, <2>4, AskedKept DEF Unsettled
  <2>6. WorkerOK'
    BY <1>1, <1>2, <1>4, <2>1, <2>3, <2>4 DEF WorkerOK
  <2> QED BY <2>4, <2>5, <2>6
<1> QED
  BY <1>3, <1>4

\* Graph runs an operation only while the worker has it inflight, so on top
\* of what is done.
LEMMA ExchangeStep ==
  ASSUME TypeOK, TypeOK', Inductive, NEW o \in Ops, Exchange(o)
  PROVE  Inductive'
<1> USE DEF Inductive
<1>1. /\ pc = "wire" /\ o = cur /\ pc' = "settle"
      /\ UNCHANGED <<st, dep, next, asked, todo, cur, made>>
  BY DEF Exchange, Accepted, Refused, LeftAlone, Deferred, Lost, Answers, queue, facts, clients
<1>2. \A x \in Ops : x # o => applied'[x] = applied[x]
  <2>1. UNCHANGED graph \/ Runs(o)
    BY DEF Exchange, Accepted, Refused, LeftAlone, Deferred, Lost
  <2> QED BY <2>1 DEF Runs, graph, TypeOK, GraphTypes
<1>3. st[o] = "inflight" /\ Based(o)
  BY <1>1 DEF WorkerOK, DepOK
<1>4. \A x \in Ops : Based(x) <=> Based(x)'
  BY <1>1 DEF Based
<1>5. DepOK'
  <2> SUFFICES ASSUME NEW x \in Ops
               PROVE  /\ (x >= next) <=> (st[x] = "free")
                      /\ dep[x] < x
                      /\ st[x] = "free" => dep[x] = NoOp /\ applied'[x] = 0
                      /\ st[x] = "pending" => dep[x] = NoOp \/ st[dep[x]] \in UnresolvedStates \cup {"done"}
                      /\ st[x] \in {"inflight", "unknown"} => Based(x)
                      /\ applied'[x] > 0 => dep[x] = NoOp \/ st[dep[x]] \in {"done", "pruned"}
    BY <1>1, <1>4 DEF DepOK
  <2>1. CASE x = o
    BY <1>3, <2>1 DEF DepOK, Based
  <2>2. CASE x # o
    BY <1>2, <2>2 DEF DepOK
  <2> QED BY <2>1, <2>2
<1>6. AskedOK'
  BY <1>1, <1>4, AskedKept
<1>7. WorkerOK'
  <2>1. todo \subseteq Ops /\ made \subseteq Ops
    BY DEF TypeOK, WorkerTypes
  <2> QED BY <1>1, <1>4, <2>1 DEF WorkerOK
<1> QED
  BY <1>5, <1>6, <1>7

\* The worker's operation settles, and others fail or are moot with it: what
\* the worker and the clients hold stays true.
LEMMA SettledHold ==
  ASSUME TypeOK, WorkerOK, AskedOK, pc = "settle", pc' = "round",
         \A x \in todo' : x \in todo, asked' = asked,
         \A x \in made' : x \in made \/ (x = cur /\ st'[x] = "inflight"),
         st'[cur] # "free", \A x \in Ops : x = cur /\ st'[x] = "pending" => Based(x)',
         \A x \in Ops : Based(x) => Based(x)',
         \A x \in Ops : x # cur =>
            \/ st'[x] = st[x]
            \/ st[x] \in {"pending", "unknown"} /\ st'[x] \in {"failed", "done"}
  PROVE  WorkerOK' /\ AskedOK'
<1>1. /\ todo \subseteq Ops /\ made \subseteq Ops
      /\ cur \in Ops /\ st[cur] = "inflight" /\ cur \notin made
  BY DEF TypeOK, WorkerTypes, WorkerOK
<1>2. AskedOK'
  BY <1>1, AskedKept DEF Unsettled
<1>3. \A x \in made' : st'[x] = "inflight"
  BY <1>1 DEF WorkerOK
<1>4. \A x \in todo' : st'[x] # "free" /\ (st'[x] = "pending" => Based(x)')
  BY <1>1 DEF WorkerOK
<1> QED
  BY <1>2, <1>3, <1>4 DEF WorkerOK

\* Recording an answer.
LEMMA SettleStep ==
  ASSUME TypeOK, TypeOK', Inductive, NEW o \in Ops, Settle(o)
  PROVE  Inductive'
<1> USE DEF Inductive
<1>0. PICK a : Settling(o, a)
  BY DEF Settle, RecordCreated, RecordChanged, RecordSent, RecordList, RecordSkipped, Defer, Reject,
     MarkUnknown, NotRecorded
<1>1. /\ pc = "settle" /\ pc' = "round" /\ o = cur
      /\ UNCHANGED <<dep, next, applied, asked>>
  BY <1>0 DEF Settling, facts, graph, clients
<1>2. st \in [Ops -> States] /\ st[o] = "inflight" /\ Based(o)
  BY <1>1 DEF TypeOK, QueueTypes, WorkerOK, DepOK
<1>3. \A x \in todo' : x \in todo
  BY DEF Settle, RecordCreated, RecordChanged, RecordSent, RecordList, RecordSkipped, Defer, Reject,
     MarkUnknown, NotRecorded
<1>4. CASE RecordCreated(o)
  <2>1. UNCHANGED st /\ made' = made \cup {o}
    BY <1>4 DEF RecordCreated
  <2>2. DepOK' /\ \A x \in Ops : Based(x) <=> Based(x)'
    BY <1>1, <2>1, Same
  <2>3. WorkerOK' /\ AskedOK'
    <3>1. /\ \A x \in made' : x \in made \/ (x = cur /\ st'[x] = "inflight")
          /\ st'[cur] # "free"
      BY <1>1, <1>2, <2>1, <2>2
    <3>2. \A x \in Ops : x = cur /\ st'[x] = "pending" => Based(x)'
      BY <1>1, <1>2, <2>1, <2>2
    <3>3. \A x \in Ops : x # cur =>
             \/ st'[x] = st[x]
             \/ st[x] \in {"pending", "unknown"} /\ st'[x] \in {"failed", "done"}
      BY <1>1, <2>1, <2>2
    <3> QED BY <1>1, <1>3, <3>1, <3>2, <3>3, <2>2, SettledHold
  <2> QED BY <2>2, <2>3
<1>5. CASE RecordChanged(o) \/ RecordSent(o) \/ RecordList(o) \/ RecordSkipped(o)
  <2>1. PICK M \in SUBSET Ops :
          /\ \A x \in M : st[x] \in {"pending", "unknown"}
          /\ st' = [x \in Ops |-> IF x = o \/ x \in M THEN "done" ELSE st[x]]
    <3>1. CASE st' = [st EXCEPT ![o] = "done"]
      <4>1. st' = [x \in Ops |-> IF x = o \/ x \in {} THEN "done" ELSE st[x]]
        BY <1>2, <3>1
      <4>2. {} \in SUBSET Ops /\ \A x \in {} : st[x] \in {"pending", "unknown"}
        OBVIOUS
      <4> WITNESS {} \in SUBSET Ops
      <4> QED BY <4>1, <4>2
    <3>2. CASE st' = Settled({o} \cup Moot(o), "done")
      <4>1. Moot(o) \in SUBSET Ops /\ \A x \in Moot(o) : st[x] \in {"pending", "unknown"}
        BY DEF Moot, NotSent
      <4>2. st' = [x \in Ops |-> IF x = o \/ x \in Moot(o) THEN "done" ELSE st[x]]
        BY <3>2 DEF Settled
      <4> QED BY <4>1, <4>2
    <3> QED BY <1>5, <3>1, <3>2 DEF RecordChanged, RecordSent, MarkDone, RecordList, RecordSkipped
  <2>2. UNCHANGED made
    BY <1>5 DEF RecordChanged, RecordSent, RecordList, RecordSkipped
  <2>3. \A x \in Ops : st'[x] = IF x = o \/ x \in M THEN "done" ELSE st[x]
    BY <2>1
  <2>4. DepOK' /\ \A x \in Ops : Based(x) => Based(x)'
    <3> DEFINE R == {o} \cup M
    <3>1. /\ \A r \in R : st[r] \in Unsettled
          /\ \A r \in R : st'[r] = "done" \/ (st'[r] \in UnresolvedStates /\ Based(r))
          /\ \A x \in Ops \ R : st'[x] = st[x]
          /\ R \in SUBSET Ops
      BY <1>2, <2>1, <2>3 DEF Unsettled
    <3> HIDE DEF R
    <3> QED BY <1>1, <3>1, Moving
  <2>5. WorkerOK' /\ AskedOK'
    <3>1. /\ \A x \in made' : x \in made \/ (x = cur /\ st'[x] = "inflight")
          /\ st'[cur] # "free"
      BY <1>1, <1>2, <2>1, <2>2, <2>3, <2>4
    <3>2. \A x \in Ops : x = cur /\ st'[x] = "pending" => Based(x)'
      BY <1>1, <1>2, <2>1, <2>2, <2>3, <2>4
    <3>3. \A x \in Ops : x # cur =>
             \/ st'[x] = st[x]
             \/ st[x] \in {"pending", "unknown"} /\ st'[x] \in {"failed", "done"}
      BY <1>1, <2>1, <2>2, <2>3, <2>4
    <3> QED BY <1>1, <1>3, <3>1, <3>2, <3>3, <2>4, SettledHold
  <2> QED BY <2>4, <2>5
<1>6. CASE Defer(o) \/ MarkUnknown(o) \/ \E b : NotRecorded(o, b)
  <2>1. /\ st'[o] \in {"inflight", "pending", "unknown"} /\ UNCHANGED made
        /\ \A x \in Ops : x # o => st'[x] = st[x]
    BY <1>2, <1>6 DEF Defer, MarkUnknown, NotRecorded
  <2>2. DepOK' /\ \A x \in Ops : Based(x) => Based(x)'
    <3> DEFINE R == {o}
    <3>1. /\ \A r \in R : st[r] \in Unsettled
          /\ \A r \in R : st'[r] = "done" \/ (st'[r] \in UnresolvedStates /\ Based(r))
          /\ \A x \in Ops \ R : st'[x] = st[x]
          /\ R \in SUBSET Ops
      BY <1>2, <2>1 DEF Unsettled, UnresolvedStates
    <3> HIDE DEF R
    <3> QED BY <1>1, <3>1, Moving
  <2>3. WorkerOK' /\ AskedOK'
    <3>1. /\ \A x \in made' : x \in made \/ (x = cur /\ st'[x] = "inflight")
          /\ st'[cur] # "free"
      BY <1>1, <1>2, <2>1, <2>2
    <3>2. \A x \in Ops : x = cur /\ st'[x] = "pending" => Based(x)'
      BY <1>1, <1>2, <2>1, <2>2
    <3>3. \A x \in Ops : x # cur =>
             \/ st'[x] = st[x]
             \/ st[x] \in {"pending", "unknown"} /\ st'[x] \in {"failed", "done"}
      BY <1>1, <2>1, <2>2
    <3> QED BY <1>1, <1>3, <3>1, <3>2, <3>3, <2>2, SettledHold
  <2> QED BY <2>2, <2>3
<1>7. CASE Reject(o)
  <2>1. /\ UNCHANGED made
        /\ \A x \in Ops : st'[x] = IF x = o \/ x \in Cascaded({o}) THEN "failed" ELSE st[x]
    BY <1>7 DEF Reject, FailOp, Settled
  <2>2. \A x \in Cascaded({o}) : x \in Ops /\ st[x] \in {"pending", "unknown"}
    BY DEF Cascaded, Waiting, NotSent
  <2>3. DepOK' /\ \A x \in Ops : Based(x) => Based(x)'
    <3> DEFINE R == {o}
    <3>1. /\ \A r \in R : st[r] \in Unsettled
          /\ \A r \in R : st'[r] \in {"failed", "dropped"}
          /\ \A x \in Cascaded(R) \ R : st'[x] = "failed"
          /\ \A x \in Ops \ (R \cup Cascaded(R)) : st'[x] = st[x]
          /\ R \in SUBSET Ops
      BY <1>2, <2>1, <2>2 DEF Unsettled
    <3> HIDE DEF R
    <3> QED BY <1>1, <3>1, Sinking
  <2>4. WorkerOK' /\ AskedOK'
    <3>1. /\ \A x \in made' : x \in made \/ (x = cur /\ st'[x] = "inflight")
          /\ st'[cur] # "free"
      BY <1>1, <1>2, <2>1, <2>2, <2>3
    <3>2. \A x \in Ops : x = cur /\ st'[x] = "pending" => Based(x)'
      BY <1>1, <1>2, <2>1, <2>2, <2>3
    <3>3. \A x \in Ops : x # cur =>
             \/ st'[x] = st[x]
             \/ st[x] \in {"pending", "unknown"} /\ st'[x] \in {"failed", "done"}
      BY <1>1, <2>1, <2>2, <2>3
    <3> QED BY <1>1, <1>3, <3>1, <3>2, <3>3, <2>3, SettledHold
  <2> QED BY <2>3, <2>4
<1> QED
  BY <1>4, <1>5, <1>6, <1>7 DEF Settle

\* The list of a create with a 201 has answered, or hasn't.
LEMMA ConfirmStep ==
  ASSUME TypeOK, TypeOK', Inductive, NEW o \in Ops, Confirm(o)
  PROVE  Inductive'
<1> USE DEF Inductive
<1>1. /\ pc = "confirming" /\ o \in todo /\ todo' = todo \ {o} /\ pc' \in {"confirming", "confirm"}
      /\ UNCHANGED <<dep, next, applied, asked, made>>
  BY DEF Confirm, facts, graph, clients
<1>2. /\ st \in [Ops -> States] /\ todo \subseteq Ops /\ made \subseteq Ops
      /\ st[o] = "inflight" /\ o \notin made /\ Based(o)
  BY <1>1 DEF TypeOK, QueueTypes, WorkerTypes, WorkerOK, DepOK
<1>3. /\ Moot(o) \in SUBSET Ops /\ Cascaded({o}) \in SUBSET Ops
      /\ \A x \in Moot(o) \cup Cascaded({o}) : st[x] \in {"pending", "unknown"}
  BY DEF Moot, Cascaded, Waiting, NotSent
<1>4. \/ \A x \in Ops : st'[x] = IF x = o \/ x \in Moot(o) THEN "done" ELSE st[x]
      \/ \A x \in Ops : st'[x] = IF x = o \/ x \in Cascaded({o}) THEN "failed" ELSE st[x]
      \/ \A x \in Ops : st'[x] = IF x = o THEN "unknown" ELSE st[x]
      \/ \A x \in Ops : st'[x] = st[x]
  BY <1>2 DEF Confirm, MarkDone, FailOp, Settled
<1>5. DepOK' /\ \A x \in Ops : Based(x) => Based(x)'
  <2>1. CASE \A x \in Ops : st'[x] = IF x = o \/ x \in Cascaded({o}) THEN "failed" ELSE st[x]
    <3> DEFINE R == {o}
    <3>1. /\ \A r \in R : st[r] \in Unsettled
          /\ \A r \in R : st'[r] \in {"failed", "dropped"}
          /\ \A x \in Cascaded(R) \ R : st'[x] = "failed"
          /\ \A x \in Ops \ (R \cup Cascaded(R)) : st'[x] = st[x]
          /\ R \in SUBSET Ops
      BY <1>2, <1>3, <2>1 DEF Unsettled
    <3> HIDE DEF R
    <3> QED BY <1>1, <3>1, Sinking
  <2>2. CASE ~ \A x \in Ops : st'[x] = IF x = o \/ x \in Cascaded({o}) THEN "failed" ELSE st[x]
    <3> DEFINE R == {o} \cup Moot(o)
    <3>1. /\ \A r \in R : st[r] \in Unsettled
          /\ R \in SUBSET Ops
      BY <1>2, <1>3 DEF Unsettled
    <3>2. \A x \in Ops \ R : st'[x] = st[x]
      BY <1>4, <2>2
    <3>3. \A r \in R : st'[r] = "done" \/ (st'[r] \in UnresolvedStates /\ Based(r))
           \/ (r # o /\ st'[r] = st[r])
      BY <1>2, <1>3, <1>4, <2>2 DEF UnresolvedStates
    <3> DEFINE Q == {r \in R : st'[r] # st[r]} \cup {o}
    <3>4. /\ \A r \in Q : st[r] \in Unsettled
          /\ \A r \in Q : st'[r] = "done" \/ (st'[r] \in UnresolvedStates /\ Based(r))
          /\ \A x \in Ops \ Q : st'[x] = st[x]
          /\ Q \in SUBSET Ops
      BY <3>1, <3>2, <3>3
    <3> HIDE DEF Q
    <3> QED BY <1>1, <3>4, Moving
  <2> QED BY <2>1, <2>2
<1>6. \A x \in Ops : x # o =>
         \/ st'[x] = st[x]
         \/ st[x] \in {"pending", "unknown"} /\ st'[x] \in {"failed", "done"}
  BY <1>3, <1>4
<1>7. st'[o] \in {"done", "failed", "unknown", "inflight"}
  BY <1>2, <1>4
<1>8. AskedOK'
  BY <1>1, <1>2, <1>5, <1>6, <1>7, AskedKept DEF Unsettled
<1>9. WorkerOK'
  BY <1>1, <1>2, <1>6 DEF WorkerOK
<1> QED
  BY <1>5, <1>8, <1>9

\* An unknown create is attributed, or fails with its list.
LEMMA AttributeStep ==
  ASSUME TypeOK, TypeOK', Inductive, NEW o \in Ops, Attribute(o)
  PROVE  Inductive'
<1> USE DEF Inductive
<1>1. /\ pc = "adopt" /\ o = cur /\ pc' = "look"
      /\ UNCHANGED <<dep, next, applied, asked, made, todo>>
  BY DEF Attribute, facts, graph, clients
<1>2. /\ st \in [Ops -> States] /\ todo \subseteq Ops /\ made \subseteq Ops
      /\ o \notin todo /\ st[o] \notin {"inflight", "done", "free"}
  BY <1>1 DEF TypeOK, QueueTypes, WorkerTypes, WorkerOK
<1>3. \A x \in Cascaded({o}) : x \in Ops /\ st[x] \in {"pending", "unknown"}
  BY DEF Cascaded, Waiting, NotSent
<1>4. CASE UNCHANGED st
  <2>1. DepOK' /\ \A x \in Ops : Based(x) <=> Based(x)'
    BY <1>1, <1>4, Same
  <2>2. AskedOK'
    BY <1>1, <1>4, <2>1, AskedKept
  <2>3. WorkerOK'
    BY <1>1, <1>2, <1>4 DEF WorkerOK
  <2> QED BY <2>1, <2>2, <2>3
<1>5. CASE st[o] = "unknown" /\ st' = [st EXCEPT ![o] = "done"]
  <2>1. st'[o] = "done" /\ \A x \in Ops : x # o => st'[x] = st[x]
    BY <1>2, <1>5
  <2>2. DepOK' /\ \A x \in Ops : Based(x) => Based(x)'
    <3> DEFINE R == {o}
    <3>1. /\ \A r \in R : st[r] \in Unsettled
          /\ \A r \in R : st'[r] = "done" \/ (st'[r] \in UnresolvedStates /\ Based(r))
          /\ \A x \in Ops \ R : st'[x] = st[x]
          /\ R \in SUBSET Ops
      BY <1>5, <2>1 DEF Unsettled
    <3> HIDE DEF R
    <3> QED BY <1>1, <3>1, Moving
  <2>3. AskedOK'
    BY <1>1, <1>5, <2>1, <2>2, AskedKept DEF Unsettled
  <2>4. WorkerOK'
    BY <1>1, <1>2, <2>1 DEF WorkerOK
  <2> QED BY <2>2, <2>3, <2>4
<1>6. CASE st[o] \notin GoneStates /\ FailOp(o)
  <2>1. \A x \in Ops : st'[x] = IF x = o \/ x \in Cascaded({o}) THEN "failed" ELSE st[x]
    BY <1>6 DEF FailOp, Settled
  <2>2. st[o] \in Unsettled
    BY <1>2, <1>6 DEF GoneStates, Unsettled, States
  <2>3. DepOK' /\ \A x \in Ops : Based(x) => Based(x)'
    <3> DEFINE R == {o}
    <3>1. /\ \A r \in R : st[r] \in Unsettled
          /\ \A r \in R : st'[r] \in {"failed", "dropped"}
          /\ \A x \in Cascaded(R) \ R : st'[x] = "failed"
          /\ \A x \in Ops \ (R \cup Cascaded(R)) : st'[x] = st[x]
          /\ R \in SUBSET Ops
      BY <1>3, <2>1, <2>2
    <3> HIDE DEF R
    <3> QED BY <1>1, <3>1, Sinking
  <2>4. AskedOK'
    BY <1>1, <1>3, <2>1, <2>2, <2>3, AskedKept DEF Unsettled
  <2>5. WorkerOK'
    BY <1>1, <1>2, <1>3, <2>1 DEF WorkerOK
  <2> QED BY <2>3, <2>4, <2>5
<1> QED
  BY <1>4, <1>5, <1>6 DEF Attribute, Adopt, AdoptNothing

\* What is pruned is what nothing unfinished was queued behind.
LEMMA PruneStep ==
  ASSUME TypeOK, TypeOK', Inductive, NEW o \in Ops, Prune(o)
  PROVE  Inductive'
<1> USE DEF Inductive
<1>0. st \in [Ops -> States] /\ dep \in [Ops -> Ops \cup {NoOp}]
  BY DEF TypeOK, QueueTypes
<1>1. /\ st[o] = "done" /\ st'[o] = "pruned" /\ \A x \in Ops : x # o => st'[x] = st[x]
      /\ UNCHANGED <<dep, next, applied, asked, worker>>
      /\ \A x \in Ops : dep[x] = o => st[x] \in {"done"} \cup GoneStates
  BY <1>0 DEF Prune, facts, graph, clients
<1>2. \A x \in Ops : st[x] \in Unsettled /\ Based(x) => Based(x)'
  BY <1>0, <1>1 DEF Based, Unsettled, GoneStates, NoOp
<1>3. DepOK'
  <2> SUFFICES ASSUME NEW x \in Ops
               PROVE  /\ (x >= next) <=> (st'[x] = "free")
                      /\ dep[x] < x
                      /\ st'[x] = "free" => dep[x] = NoOp /\ applied[x] = 0
                      /\ st'[x] = "pending" => dep[x] = NoOp \/ st'[dep[x]] \in UnresolvedStates \cup {"done"}
                      /\ st'[x] \in {"inflight", "unknown"} => Based(x)'
                      /\ applied[x] > 0 => dep[x] = NoOp \/ st'[dep[x]] \in {"done", "pruned"}
    BY <1>1 DEF DepOK
  <2>1. (st'[x] = "free") <=> (st[x] = "free")
    BY <1>1
  <2>2. st'[x] = "pending" => dep[x] = NoOp \/ st'[dep[x]] \in UnresolvedStates \cup {"done"}
    BY <1>0, <1>1 DEF DepOK, GoneStates
  <2>3. st'[x] \in {"inflight", "unknown"} => Based(x)'
    BY <1>1, <1>2 DEF DepOK, Unsettled
  <2>4. applied[x] > 0 => dep[x] = NoOp \/ st'[dep[x]] \in {"done", "pruned"}
    BY <1>0, <1>1 DEF DepOK
  <2> QED BY <2>1, <2>2, <2>3, <2>4 DEF DepOK
<1>4. AskedOK'
  BY <1>1, <1>2, AskedKept DEF Unsettled
<1>5. WorkerOK'
  BY <1>1, <1>2, WorkerKept DEF Unsettled
<1> QED
  BY <1>3, <1>4, <1>5

\* A list goes with the writes waiting in it, and with all that waits on them.
LEMMA RemoveListStep ==
  ASSUME TypeOK, TypeOK', Inductive, NEW l \in Lists, NEW kept, RemoveList(l, kept)
  PROVE  Inductive'
<1> USE DEF Inductive
<1> DEFINE doomed == {o \in Ops : NotSent(o) /\ ListOf(o) = l}
<1>1. UNCHANGED <<dep, next, applied, asked, worker>>
  BY DEF RemoveList, facts, graph, clients
<1>2. \A x \in Ops : st'[x] = IF x \in doomed \cup Cascaded(doomed) THEN "failed" ELSE st[x]
  BY DEF RemoveList, Settled
<1>3. /\ doomed \in SUBSET Ops
      /\ \A x \in doomed \cup Cascaded(doomed) : x \in Ops /\ st[x] \in {"pending", "unknown"}
  BY DEF Cascaded, Waiting, NotSent
<1> HIDE DEF doomed
<1>4. DepOK' /\ \A x \in Ops : Based(x) => Based(x)'
  <2>1. /\ \A r \in doomed : st[r] \in Unsettled
        /\ \A r \in doomed : st'[r] \in {"failed", "dropped"}
        /\ \A x \in Cascaded(doomed) \ doomed : st'[x] = "failed"
        /\ \A x \in Ops \ (doomed \cup Cascaded(doomed)) : st'[x] = st[x]
    BY <1>2, <1>3 DEF Unsettled
  <2> QED BY <1>1, <1>3, <2>1, Sinking
<1>5. AskedOK'
  BY <1>1, <1>2, <1>3, <1>4, AskedKept DEF Unsettled
<1>6. WorkerOK'
  BY <1>1, <1>2, <1>3, <1>4, WorkerKept
<1> QED
  BY <1>4, <1>5, <1>6

\* The daemon starts: what was inflight is unknown or pending again.
LEMMA StartStep ==
  ASSUME TypeOK, TypeOK', Inductive, Start
  PROVE  Inductive'
<1> USE DEF Inductive
<1> DEFINE R == {o \in Ops : st[o] = "inflight"}
<1>1. /\ pc = "down" /\ pc' = "top" /\ made = {}
      /\ UNCHANGED <<dep, next, applied, asked, made>>
  BY DEF Start, facts, graph, clients, WorkerOK
<1>2. /\ \A o \in R : st'[o] \in {"pending", "unknown"} /\ Based(o) /\ st[o] = "inflight"
      /\ \A o \in Ops \ R : st'[o] = st[o]
      /\ R \in SUBSET Ops
  BY DEF Start, DepOK
<1> HIDE DEF R
<1>3. DepOK' /\ \A x \in Ops : Based(x) => Based(x)'
  <2>1. /\ \A r \in R : st[r] \in Unsettled
        /\ \A r \in R : st'[r] = "done" \/ (st'[r] \in UnresolvedStates /\ Based(r))
        /\ \A x \in Ops \ R : st'[x] = st[x]
    BY <1>2 DEF Unsettled, UnresolvedStates
  <2> QED BY <1>1, <1>2, <2>1, Moving
<1>4. AskedOK'
  BY <1>1, <1>2, <1>3, AskedKept DEF Unsettled
<1>5. WorkerOK'
  BY <1>1 DEF WorkerOK
<1> QED
  BY <1>3, <1>4, <1>5

\* Every step keeps the invariant.
LEMMA InductiveStep ==
  ASSUME TypeOK, TypeOK', Inductive, [Next]_vars
  PROVE  Inductive'
<1>1. ASSUME UNCHANGED <<st, dep, next, applied, worker>>, asked' \subseteq asked
      PROVE  Inductive'
  <2>1. DepOK' /\ \A x \in Ops : Based(x) <=> Based(x)'
    BY <1>1, Same DEF Inductive
  <2> QED BY <1>1, <2>1, WorkerKept, AskedKept DEF Inductive
<1>2. CASE Client
  <2>1. ASSUME NEW k \in Kinds, NEW e \in Entities, Plan(k, e)
        PROVE  Inductive'
    BY <1>1, <2>1 DEF Plan, queue, facts, graph
  <2> QED BY <1>2, <2>1, EnqueueStep, AskStep, RetryStep, DiscardStep DEF Client
<1>3. CASE Worker
  BY <1>3, QuietStep, ClaimStep, ExchangeStep, SettleStep, ConfirmStep, AttributeStep DEF Worker
<1>4. CASE Around
  <2>1. CASE BackoffEnds
    BY <1>1, <2>1 DEF BackoffEnds, facts, graph, clients
  <2>2. ASSUME NEW o, NEW k, SyncSees(o, k)
        PROVE  Inductive'
    BY <1>1, <2>2 DEF SyncSees, queue, facts, graph, clients
  <2>3. ASSUME NEW l, PhoneDeletesList(l)
        PROVE  Inductive'
    BY <1>1, <2>3 DEF PhoneDeletesList, queue, facts, clients
  <2> QED BY <1>4, <2>1, <2>2, <2>3, PruneStep, RemoveListStep DEF Around
<1>5. CASE Crash
  <2>1. UNCHANGED <<st, dep, next, applied>> /\ asked' = {} /\ pc' = "down" /\ made' = {}
    BY <1>5 DEF Crash, queue, facts, graph
  <2>2. DepOK'
    BY <2>1, Same DEF Inductive
  <2>3. WorkerOK' /\ AskedOK'
    BY <2>1 DEF WorkerOK, AskedOK
  <2> QED BY <2>2, <2>3 DEF Inductive
<1>6. CASE Start
  BY <1>6, StartStep
<1>7. CASE UNCHANGED vars
  BY <1>1, <1>7 DEF vars, queue, facts, graph, clients
<1> QED
  BY <1>2, <1>3, <1>4, <1>5, <1>6, <1>7 DEF Next

\* In every run the queue is a forest in queue order, what is being sent or
\* may have been sent was queued behind something done, and neither the
\* worker nor a client acts on a reading that others have made harmful.
THEOREM QueueInvariant == Spec => []Inductive
<1>1. Init => Inductive
  <2> USE ConstantsAssumption DEF Init, Ops, NoOp
  <2>1. Init => DepOK
    BY DEF DepOK, Based
  <2>2. Init => WorkerOK
    BY DEF WorkerOK
  <2>3. Init => AskedOK
    BY DEF AskedOK
  <2> QED BY <2>1, <2>2, <2>3 DEF Inductive
<1>2. TypeOK /\ TypeOK' /\ Inductive /\ [Next]_vars => Inductive'
  BY InductiveStep
<1> QED
  BY <1>1, <1>2, TypeCorrect, PTL DEF Spec

\* No queued write is ever left behind one that can't be done any more:
\* fail_op, discard_op, fail_ops_in_list and prune_outbox see to it.
THEOREM NoneLeftBehind == Spec => []WaitersAlive
<1>1. TypeOK /\ Inductive => WaitersAlive
  BY DEF Inductive, DepOK, WaitersAlive
<1> QED
  BY <1>1, TypeCorrect, QueueInvariant, PTL

\* Graph runs no write on top of one it hasn't made, whatever is retried,
\* discarded, deferred or lost.
THEOREM OnlyOnDone == Spec => []BuiltOnDone
<1>1. TypeOK /\ Inductive => BuiltOnDone
  BY DEF Inductive, DepOK, BuiltOnDone
<1> QED
  BY <1>1, TypeCorrect, QueueInvariant, PTL

\* A step that runs nothing and queues nothing keeps SentOK, if what may be
\* run after it could be before, or the user has just had it sent.
LEMMA SentKept ==
  ASSUME TypeOK, TypeOK', SentOK, kind' = kind, applied' = applied,
         \A o \in Ops : chosen'[o] >= chosen[o],
         \A o \in Ops : kind[o] \in OnceKinds /\ MayRun(o)' => MayRun(o) \/ chosen'[o] > chosen[o]
  PROVE  SentOK'
<1>1. /\ applied \in [Ops -> Nat] /\ chosen \in [Ops -> Nat] /\ chosen' \in [Ops -> Nat]
  BY DEF TypeOK, GraphTypes, ClientTypes
<1> SUFFICES ASSUME NEW o \in Ops, kind[o] \in OnceKinds
             PROVE  applied[o] <= chosen'[o] /\ (MayRun(o)' => applied[o] < chosen'[o])
  BY DEF SentOK
<1>2. applied[o] <= chosen[o] /\ (MayRun(o) => applied[o] < chosen[o])
  BY DEF SentOK
<1>3. applied[o] \in Nat /\ chosen[o] \in Nat /\ chosen'[o] \in Nat /\ chosen'[o] >= chosen[o]
  BY <1>1
<1>4. MayRun(o)' => MayRun(o) \/ chosen'[o] > chosen[o]
  OBVIOUS
<1> QED
  BY <1>2, <1>3, <1>4

\* The clients' steps.
LEMMA SentByClient ==
  ASSUME TypeOK, TypeOK', Inductive, SentOK, Client
  PROVE  SentOK'
<1>0. /\ applied \in [Ops -> Nat] /\ chosen \in [Ops -> Nat]
      /\ kind \in [Ops -> Kinds \cup {"none"}] /\ st \in [Ops -> States]
  BY DEF TypeOK, QueueTypes, GraphTypes, ClientTypes
<1>1. ASSUME UNCHANGED <<st, kind, applied, chosen, worker>>
      PROVE  SentOK'
  BY <1>1 DEF SentOK, MayRun, worker
<1>2. ASSUME NEW k \in Kinds, NEW e \in Entities, Plan(k, e)
      PROVE  SentOK'
  BY <1>1, <1>2 DEF Plan, queue, facts, graph
<1>3. ASSUME NEW do, NEW o \in Ops, Ask(do, o)
      PROVE  SentOK'
  BY <1>1, <1>3 DEF Ask, queue, facts, graph
<1>4. ASSUME NEW o \in Ops, NEW saw \in States, Discard(o, saw)
      PROVE  SentOK'
  <2>1. UNCHANGED <<kind, applied, chosen, worker>>
    BY <1>4 DEF Discard, facts, graph
  <2>2. \A x \in Ops : st'[x] = "pending" => st[x] = "pending"
    BY <1>0, <1>4 DEF Discard, Settled
  <2>3. \A x \in Ops : MayRun(x)' => MayRun(x)
    BY <2>1, <2>2 DEF MayRun, worker
  <2>4. \A x \in Ops : chosen'[x] >= chosen[x]
    BY <1>0, <2>1
  <2> QED BY <2>1, <2>3, <2>4, SentKept
<1>5. ASSUME NEW o \in Ops, NEW saw \in States, Retry(o, saw)
      PROVE  SentOK'
  <2>1. UNCHANGED <<kind, applied, worker>>
    BY <1>5 DEF Retry, facts, graph
  <2>2. \/ UNCHANGED <<st, chosen>>
        \/ /\ chosen' = [chosen EXCEPT ![o] = @ + 1]
           /\ \A x \in Ops : x # o => st'[x] = st[x]
    BY <1>0, <1>5 DEF Retry
  <2>3. \A x \in Ops : chosen'[x] >= chosen[x]
    BY <1>0, <2>2
  <2>4. \A x \in Ops : MayRun(x)' => MayRun(x) \/ chosen'[x] > chosen[x]
    BY <1>0, <2>1, <2>2 DEF MayRun, worker
  <2> QED BY <2>1, <2>3, <2>4, SentKept
<1>6. ASSUME NEW k \in Kinds, NEW e \in Entities, Enqueue(k, e)
      PROVE  SentOK'
  <2>1. /\ next \in Ops /\ st[next] = "free" /\ applied[next] = 0
    BY <1>6, <1>0, ConstantsAssumption DEF Enqueue, Inductive, DepOK, Ops, TypeOK, QueueTypes
  <2>2. /\ chosen' = [chosen EXCEPT ![next] = 1] /\ st' = [st EXCEPT ![next] = "pending"]
        /\ kind' = [kind EXCEPT ![next] = k] /\ UNCHANGED <<applied, worker>>
    BY <1>6 DEF Enqueue, graph
  <2>3. ASSUME NEW o \in Ops, kind'[o] \in OnceKinds
        PROVE  applied[o] <= chosen'[o] /\ (MayRun(o)' => applied[o] < chosen'[o])
    <3>1. CASE o = next
      BY <1>0, <2>1, <2>2, <3>1
    <3>2. CASE o # next
      <4>1. kind'[o] = kind[o] /\ chosen'[o] = chosen[o] /\ st'[o] = st[o]
        BY <1>0, <2>2, <3>2
      <4>2. MayRun(o)' => MayRun(o)
        BY <2>2, <4>1 DEF MayRun, worker
      <4> QED BY <2>3, <4>1, <4>2 DEF SentOK
    <3> QED BY <3>1, <3>2
  <2> QED BY <2>2, <2>3 DEF SentOK
<1> QED
  BY <1>2, <1>3, <1>4, <1>5, <1>6 DEF Client

\* Graph runs what the worker has on the wire, once.
LEMMA SentByExchange ==
  ASSUME TypeOK, TypeOK', Inductive, SentOK, NEW o \in Ops, Exchange(o)
  PROVE  SentOK'
<1>0. applied \in [Ops -> Nat] /\ chosen \in [Ops -> Nat]
  BY DEF TypeOK, GraphTypes, ClientTypes
<1>1. /\ pc = "wire" /\ o = cur /\ pc' = "settle" /\ UNCHANGED <<st, kind, chosen, cur>>
  BY DEF Exchange, Accepted, Refused, LeftAlone, Deferred, Lost, Answers, queue, facts, clients
<1>2. \/ UNCHANGED applied
      \/ Runs(o) /\ (kind[o] \in OnceKinds => answer' # "temporary")
  BY DEF Exchange, Accepted, Refused, LeftAlone, Deferred, Lost, Answers, graph
<1>3. st[o] = "inflight"
  BY <1>1 DEF Inductive, WorkerOK
<1> SUFFICES ASSUME NEW x \in Ops, kind[x] \in OnceKinds
             PROVE  applied'[x] <= chosen[x] /\ (MayRun(x)' => applied'[x] < chosen[x])
  BY <1>1 DEF SentOK
<1>4. applied[x] <= chosen[x] /\ (MayRun(x) => applied[x] < chosen[x])
  BY DEF SentOK
<1>5. CASE x = o
  <2>1. applied[o] < chosen[o]
    BY <1>1, <1>4, <1>5 DEF MayRun
  <2>2. CASE UNCHANGED applied
    BY <1>0, <1>5, <2>1, <2>2
  <2>3. CASE Runs(o) /\ answer' # "temporary"
    <3>1. applied'[o] = applied[o] + 1
      BY <1>0, <1>5, <2>3 DEF Runs
    <3>2. ~ MayRun(o)'
      BY <1>1, <1>3, <2>3 DEF MayRun
    <3> QED BY <1>0, <1>5, <2>1, <3>1, <3>2
  <2> QED BY <1>2, <1>5, <2>2, <2>3
<1>6. CASE x # o
  <2>1. applied'[x] = applied[x]
    BY <1>0, <1>2, <1>6 DEF Runs
  <2>2. MayRun(x)' => MayRun(x)
    BY <1>1, <1>6 DEF MayRun
  <2> QED BY <1>4, <2>1, <2>2
<1> QED
  BY <1>5, <1>6

\* Recording an answer: only a temporary failure has the operation sent
\* again, and then it was not run.
LEMMA SentBySettle ==
  ASSUME TypeOK, TypeOK', SentOK, NEW o \in Ops, Settle(o)
  PROVE  SentOK'
<1>0. st \in [Ops -> States] /\ chosen \in [Ops -> Nat]
  BY DEF TypeOK, QueueTypes, ClientTypes
<1>1. PICK a : Settling(o, a)
  BY DEF Settle, RecordCreated, RecordChanged, RecordSent, RecordList, RecordSkipped, Defer, Reject,
     MarkUnknown, NotRecorded
<1>2. /\ pc = "settle" /\ o = cur /\ pc' = "round" /\ UNCHANGED <<kind, applied, chosen>>
  BY <1>1 DEF Settling, facts, graph, clients
<1>3. \A x \in Ops : st'[x] = "pending" => st[x] = "pending" \/ (x = o /\ answer = "temporary")
  <2>1. CASE Defer(o)
    BY <1>0, <2>1 DEF Defer, Settling
  <2>2. CASE RecordCreated(o) \/ RecordChanged(o) \/ RecordList(o) \/ RecordSkipped(o) \/ MarkUnknown(o)
             \/ \E b : NotRecorded(o, b)
    BY <1>0, <2>2 DEF RecordCreated, RecordChanged, RecordList, RecordSkipped, MarkUnknown, NotRecorded
  <2>3. CASE RecordSent(o) \/ Reject(o)
    BY <1>0, <2>3 DEF RecordSent, MarkDone, Reject, FailOp, Settled
  <2> QED BY <2>1, <2>2, <2>3 DEF Settle
<1>4. \A x \in Ops : MayRun(x)' => MayRun(x)
  BY <1>2, <1>3 DEF MayRun
<1>5. \A x \in Ops : chosen'[x] >= chosen[x]
  BY <1>0, <1>2
<1> QED
  BY <1>2, <1>4, <1>5, SentKept

\* The worker's other steps.
LEMMA SentByWorker ==
  ASSUME TypeOK, TypeOK', Inductive, SentOK, Worker
  PROVE  SentOK'
<1>0. st \in [Ops -> States] /\ chosen \in [Ops -> Nat] /\ todo \subseteq Ops
  BY DEF TypeOK, QueueTypes, ClientTypes, WorkerTypes
<1>1. ASSUME UNCHANGED <<kind, applied, chosen>>, \A x \in Ops : MayRun(x)' => MayRun(x)
      PROVE  SentOK'
  <2>1. \A x \in Ops : chosen'[x] >= chosen[x]
    BY <1>0, <1>1
  <2> QED BY <1>1, <2>1, SentKept
<1>2. ASSUME UNCHANGED <<st, kind, applied, chosen>>, pc' \notin {"wire", "settle"}
      PROVE  SentOK'
  BY <1>1, <1>2 DEF MayRun
<1>3. CASE ReadReady \/ EndRound \/ NextRound \/ NothingReady \/ Look \/ Looked
  <2>1. UNCHANGED <<st, kind, applied, chosen>> /\ pc' \notin {"wire", "settle"}
    BY <1>3 DEF ReadReady, EndRound, NextRound, NothingReady, Look, Looked, queue, facts, graph, clients
  <2> QED BY <1>2, <2>1
<1>4. ASSUME NEW a, (\E l \in Lists : GetList(l, a)) \/ (\E o \in Ops : LookAt(o, a))
      PROVE  SentOK'
  <2>1. UNCHANGED <<st, kind, applied, chosen>> /\ pc' \notin {"wire", "settle"}
    BY <1>4 DEF GetList, LookAt, queue, facts, graph, clients
  <2> QED BY <1>2, <2>1
<1>5. CASE Claim
  <2>1. UNCHANGED <<kind, applied, chosen>>
    BY <1>5 DEF Claim, facts, graph, clients
  <2>2. /\ pc = "round"
        /\ \/ UNCHANGED <<st, cur, pc>>
           \/ st[cur'] = "pending" /\ cur' \in Ops /\ st' = [st EXCEPT ![cur'] = "inflight"]
    BY <1>0, <1>5 DEF Claim
  <2>3. \A x \in Ops : MayRun(x)' => MayRun(x)
    BY <1>0, <2>2 DEF MayRun
  <2> QED BY <1>1, <2>1, <2>3
<1>6. ASSUME NEW o \in Ops, Confirm(o) \/ Attribute(o)
      PROVE  SentOK'
  <2>1. UNCHANGED <<kind, applied, chosen>> /\ pc' \notin {"wire", "settle"}
    BY <1>6 DEF Confirm, Attribute, facts, graph, clients
  <2>2. \A x \in Ops : st'[x] = "pending" => st[x] = "pending"
    <3>1. CASE Confirm(o)
      BY <1>0, <3>1 DEF Confirm, MarkDone, FailOp, Settled
    <3>2. CASE Attribute(o)
      BY <1>0, <3>2 DEF Attribute, Adopt, AdoptNothing, FailOp, Settled
    <3> QED BY <1>6, <3>1, <3>2
  <2>3. \A x \in Ops : MayRun(x)' => MayRun(x)
    BY <2>1, <2>2 DEF MayRun
  <2> QED BY <1>1, <2>1, <2>3
<1> QED
  BY <1>3, <1>4, <1>5, <1>6, SentByExchange, SentBySettle DEF Worker

\* Time, sync, the phone and the daemon's stops and starts.
LEMMA SentByOthers ==
  ASSUME TypeOK, TypeOK', SentOK, Around \/ Crash \/ Start \/ UNCHANGED vars
  PROVE  SentOK'
<1>0. st \in [Ops -> States] /\ chosen \in [Ops -> Nat]
  BY DEF TypeOK, QueueTypes, ClientTypes
<1>1. UNCHANGED <<kind, applied, chosen>>
  BY DEF Around, BackoffEnds, Prune, SyncSees, PhoneDeletesList, RemoveList, Crash, Start,
     vars, queue, facts, graph, clients
<1>2. \A x \in Ops : kind[x] \in OnceKinds /\ st'[x] = "pending" => st[x] = "pending"
  <2>1. CASE Around
    <3>1. ASSUME NEW l, NEW kept, RemoveList(l, kept)
          PROVE  \A x \in Ops : st'[x] = "pending" => st[x] = "pending"
      BY <3>1 DEF RemoveList, Settled
    <3>2. ASSUME NEW o, Prune(o)
          PROVE  \A x \in Ops : st'[x] = "pending" => st[x] = "pending"
      BY <1>0, <3>2 DEF Prune
    <3> QED BY <2>1, <3>1, <3>2 DEF Around, BackoffEnds, SyncSees, PhoneDeletesList, queue
  <2>2. CASE Crash \/ UNCHANGED vars
    BY <2>2 DEF Crash, vars, queue
  <2>3. CASE Start
    BY <2>3 DEF Start
  <2> QED BY <2>1, <2>2, <2>3
<1>3. pc' \notin {"wire", "settle"} \/ UNCHANGED worker
  BY DEF Around, BackoffEnds, Prune, SyncSees, PhoneDeletesList, RemoveList, Crash, Start, vars
<1>4. \A x \in Ops : kind[x] \in OnceKinds /\ MayRun(x)' => MayRun(x)
  BY <1>2, <1>3 DEF MayRun, worker
<1>5. \A x \in Ops : chosen'[x] >= chosen[x]
  BY <1>0, <1>1
<1> QED
  BY <1>1, <1>4, <1>5, SentKept

\* Graph runs a create at most once for each time the user had it sent: no
\* deferral, lost answer, crash or late reading has it run once more.
THEOREM AtMostOncePerChoice == Spec => []OncePerChoice
<1>1. Init => SentOK
  BY ConstantsAssumption DEF Init, SentOK, MayRun, OnceKinds, Ops, NoOp
<1>2. TypeOK /\ TypeOK' /\ Inductive /\ SentOK /\ [Next]_vars => SentOK'
  BY SentByClient, SentByWorker, SentByOthers DEF Next
<1>3. SentOK => OncePerChoice
  BY DEF SentOK, OncePerChoice
<1> QED
  BY <1>1, <1>2, <1>3, TypeCorrect, QueueInvariant, PTL DEF Spec

-----------------------------------------------------------------------------
(* The ghost-write check.                                                  *)

\* A step that queues nothing, runs nothing and has Graph answer nothing
\* keeps GhostOK, if it makes no ghost done.
LEMMA GhostKept ==
  ASSUME TypeOK, GhostOK, UNCHANGED <<kind, ent, ghost>>, dead \subseteq dead',
         \A o \in ghost : st'[o] \notin {"free", "done", "pruned"},
         \/ UNCHANGED worker
         \/ pc' \notin {"settle", "confirming", "adopt"}
         \/ pc' = "confirming" /\ pc = "confirming" /\ answer' = answer /\ todo' \subseteq todo
  PROVE  GhostOK'
<1>1. \A o \in ghost' : kind'[o] = "create" /\ Home[ent'[o]] \in dead'
  BY DEF GhostOK
<1>2. CASE UNCHANGED worker
  BY <1>1, <1>2 DEF GhostOK, worker
<1>3. CASE pc' \notin {"settle", "confirming", "adopt"}
  BY <1>1, <1>3 DEF GhostOK
<1>4. CASE pc' = "confirming" /\ pc = "confirming" /\ answer' = answer /\ todo' \subseteq todo
  BY <1>1, <1>4 DEF GhostOK
<1> QED
  BY <1>2, <1>3, <1>4

LEMMA GhostStep ==
  ASSUME TypeOK, TypeOK', Inductive, GhostOK, [Next]_vars
  PROVE  GhostOK'
<1>0. /\ st \in [Ops -> States] /\ kind \in [Ops -> Kinds \cup {"none"}]
      /\ ent \in [Ops -> Entities \cup {"none"}]
      /\ ghost \subseteq Ops /\ todo \subseteq Ops
  BY DEF TypeOK, QueueTypes, GraphTypes, WorkerTypes
<1>1. \A o \in ghost : kind[o] = "create" /\ st[o] \in Unsettled \cup {"dropped"}
  BY <1>0 DEF GhostOK, States, Unsettled
<1>2. ASSUME UNCHANGED <<kind, ent, ghost, worker>>, dead \subseteq dead',
             \A o \in Ops : st'[o] = st[o] \/ st'[o] \in {"pending", "failed", "dropped"}
      PROVE  GhostOK'
  <2>1. \A o \in ghost : st'[o] \notin {"free", "done", "pruned"}
    BY <1>0, <1>1, <1>2 DEF Unsettled
  <2> QED BY <1>2, <2>1, GhostKept
<1>3. CASE Client
  <2>1. ASSUME NEW k \in Kinds, NEW e \in Entities, Plan(k, e)
        PROVE  GhostOK'
    BY <1>2, <2>1 DEF Plan, queue, facts, graph
  <2>2. ASSUME NEW k \in Kinds, NEW e \in Entities, Enqueue(k, e)
        PROVE  GhostOK'
    <3>1. next \in Ops /\ st[next] = "free"
      BY <2>2, ConstantsAssumption DEF Enqueue, Inductive, DepOK, Ops, TypeOK, QueueTypes
    <3>2. /\ st' = [st EXCEPT ![next] = "pending"] /\ kind' = [kind EXCEPT ![next] = k]
          /\ ent' = [ent EXCEPT ![next] = e]
          /\ UNCHANGED <<ghost, dead, pc, todo, cur, answer>>
      BY <2>2 DEF Enqueue, graph, worker
    <3>3. next \notin ghost
      BY <3>1 DEF GhostOK
    <3>4. \A o \in ghost : kind'[o] = kind[o] /\ ent'[o] = ent[o] /\ st'[o] = st[o]
      BY <1>0, <3>2, <3>3
    <3>5. pc = "settle" => kind'[cur] = kind[cur]
      BY <1>0, <3>1, <3>2 DEF Inductive, WorkerOK
    <3> QED BY <3>2, <3>4, <3>5 DEF GhostOK
  <2>3. ASSUME NEW do, NEW o \in Ops, Ask(do, o)
        PROVE  GhostOK'
    BY <1>2, <2>3 DEF Ask, queue, facts, graph
  <2>4. ASSUME NEW o \in Ops, NEW saw \in States, Retry(o, saw)
        PROVE  GhostOK'
    <3>1. \A x \in Ops : st'[x] = st[x] \/ st'[x] \in {"pending", "failed", "dropped"}
      BY <1>0, <2>4 DEF Retry
    <3> QED BY <1>2, <2>4, <3>1 DEF Retry, facts, graph
  <2>5. ASSUME NEW o \in Ops, NEW saw \in States, Discard(o, saw)
        PROVE  GhostOK'
    <3>1. \A x \in Ops : st'[x] = st[x] \/ st'[x] \in {"pending", "failed", "dropped"}
      BY <1>0, <2>5 DEF Discard, Settled
    <3> QED BY <1>2, <2>5, <3>1 DEF Discard, facts, graph
  <2> QED BY <1>3, <2>1, <2>2, <2>3, <2>4, <2>5 DEF Client
<1>4. CASE Worker
  <2>1. ASSUME UNCHANGED <<st, kind, ent, ghost, dead>>, pc' \notin {"settle", "confirming", "adopt"}
        PROVE  GhostOK'
    BY <1>0, <2>1, GhostKept DEF GhostOK
  <2>2. CASE ReadReady \/ EndRound \/ NextRound \/ NothingReady \/ Look \/ Looked
    BY <2>1, <2>2 DEF ReadReady, EndRound, NextRound, NothingReady, Look, Looked, queue, facts, graph
  <2>3. CASE Claim
    <3>1. \A x \in ghost : st'[x] \notin {"free", "done", "pruned"}
      BY <1>0, <1>1, <2>3 DEF Claim, Unsettled
    <3>2. UNCHANGED <<kind, ent, ghost, dead>> /\ pc' \notin {"settle", "confirming", "adopt"}
      BY <2>3 DEF Claim, facts, graph
    <3> QED BY <3>1, <3>2, GhostKept
  <2>4. ASSUME NEW o \in Ops, Exchange(o)
        PROVE  GhostOK'
    <3>1. /\ o = cur /\ pc' = "settle" /\ UNCHANGED <<st, kind, ent, cur>> /\ st[o] = "inflight"
      BY <2>4 DEF Exchange, Accepted, Refused, LeftAlone, Deferred, Lost, Answers, queue, facts,
         Inductive, WorkerOK
    <3>2. answer' = "skipped" => kind[cur] # "create"
      BY <2>4, <3>1 DEF Exchange, Accepted, Refused, LeftAlone, Deferred, Lost, Answers
    <3>3. CASE UNCHANGED graph
      BY <3>1, <3>2, <3>3 DEF GhostOK, graph
    <3>4. CASE Runs(o)
      <4>1. dead \subseteq dead'
        BY <3>4 DEF Runs
      <4>2. \A x \in ghost' : x \in ghost \/ (x = o /\ kind[o] = "create" /\ Home[ent[o]] \in dead)
        BY <3>4 DEF Runs
      <4> QED BY <3>1, <3>2, <4>1, <4>2 DEF GhostOK
    <3> QED BY <2>4, <3>3, <3>4 DEF Exchange, Accepted, Refused, LeftAlone, Deferred, Lost
  <2>5. ASSUME NEW o \in Ops, Settle(o)
        PROVE  GhostOK'
    <3>1. PICK a : Settling(o, a)
      BY <2>5 DEF Settle, RecordCreated, RecordChanged, RecordSent, RecordList, RecordSkipped, Defer,
         Reject, MarkUnknown, NotRecorded
    <3>2. /\ pc = "settle" /\ o = cur /\ pc' = "round" /\ UNCHANGED <<kind, ent, ghost, dead>>
      BY <3>1 DEF Settling, facts, graph
    <3>3. \A x \in ghost : st'[x] \notin {"free", "done", "pruned"}
      <4>1. CASE RecordCreated(o) \/ Defer(o) \/ MarkUnknown(o) \/ \E b : NotRecorded(o, b)
        BY <1>0, <1>1, <4>1 DEF RecordCreated, Defer, MarkUnknown, NotRecorded, Unsettled
      <4>2. CASE RecordChanged(o) \/ RecordList(o)
        BY <1>0, <1>1, <4>2 DEF RecordChanged, RecordList, Unsettled, ChildKinds, ListKinds
      <4>3. CASE RecordSkipped(o)
        BY <1>0, <1>1, <3>2, <4>3 DEF RecordSkipped, Settling, Unsettled, GhostOK
      <4>4. CASE RecordSent(o)
        BY <1>0, <1>1, <4>4 DEF RecordSent, MarkDone, Moot, Settled, Unsettled, ChildKinds
      <4>5. CASE Reject(o)
        BY <1>0, <1>1, <4>5 DEF Reject, FailOp, Settled, Unsettled
      <4> QED BY <2>5, <4>1, <4>2, <4>3, <4>4, <4>5 DEF Settle
    <3> QED BY <3>2, <3>3, GhostKept
  <2>6. ASSUME NEW o \in Ops, Confirm(o)
        PROVE  GhostOK'
    <3>1. /\ pc = "confirming" /\ o \in todo /\ todo' \subseteq todo /\ UNCHANGED <<kind, ent, ghost, dead>>
          /\ pc' = "confirm" \/ (pc' = "confirming" /\ answer' = answer)
      BY <2>6 DEF Confirm, facts, graph
    <3>2. answer = "live" => o \notin ghost
      BY <3>1 DEF GhostOK
    <3>3. \A x \in ghost : st'[x] \notin {"free", "done", "pruned"}
      <4>1. CASE answer = "live" /\ MarkDone(o)
        BY <1>0, <1>1, <3>2, <4>1 DEF MarkDone, Moot, Settled, Unsettled, ChildKinds
      <4>2. CASE FailOp(o)
        BY <1>0, <1>1, <4>2 DEF FailOp, Settled, Unsettled
      <4>3. CASE st' = [st EXCEPT ![o] = "unknown"] \/ UNCHANGED st
        BY <1>0, <1>1, <4>3 DEF Unsettled
      <4> QED BY <2>6, <4>1, <4>2, <4>3 DEF Confirm
    <3> QED BY <3>1, <3>3, GhostKept
  <2>7. ASSUME NEW o \in Ops, Attribute(o)
        PROVE  GhostOK'
    <3>1. /\ pc = "adopt" /\ o = cur /\ pc' = "look" /\ UNCHANGED <<kind, ent, ghost, dead>>
      BY <2>7 DEF Attribute, facts, graph
    <3>2. answer = "live" => o \notin ghost
      BY <3>1 DEF GhostOK
    <3>3. \A x \in ghost : st'[x] \notin {"free", "done", "pruned"}
      BY <1>0, <1>1, <2>7, <3>2 DEF Attribute, Adopt, AdoptNothing, FailOp, Settled, Unsettled
    <3> QED BY <3>1, <3>3, GhostKept
  <2>8. ASSUME NEW a, NEW l \in Lists, GetList(l, a)
        PROVE  GhostOK'
    <3>1. /\ pc' = "confirming" /\ UNCHANGED <<st, kind, ent, ghost, dead>>
          /\ \A x \in todo' : Home[ent[x]] = l
          /\ answer' = "live" => l \notin dead
      BY <2>8 DEF GetList, ListAnswer, queue, facts, graph
    <3> QED BY <3>1 DEF GhostOK
  <2>9. ASSUME NEW a, NEW o \in Ops, LookAt(o, a)
        PROVE  GhostOK'
    <3>1. /\ UNCHANGED <<st, kind, ent, ghost, dead>>
          /\ \/ pc' = "look"
             \/ pc' = "adopt" /\ cur' = o /\ (answer' = "live" => Home[ent[o]] \notin dead)
      BY <2>9 DEF LookAt, ListAnswer, queue, facts, graph
    <3> QED BY <3>1 DEF GhostOK
  <2> QED BY <1>4, <2>2, <2>3, <2>4, <2>5, <2>6, <2>7, <2>8, <2>9 DEF Worker
<1>5. CASE Around
  <2>1. CASE BackoffEnds
    BY <1>2, <2>1 DEF BackoffEnds, facts, graph
  <2>2. ASSUME NEW o \in Ops, Prune(o)
        PROVE  GhostOK'
    <3>1. \A x \in ghost : st'[x] \notin {"free", "done", "pruned"}
      BY <1>0, <1>1, <2>2 DEF Prune, Unsettled
    <3> QED BY <2>2, <3>1, GhostKept DEF Prune, facts, graph
  <2>3. ASSUME NEW o, NEW k, SyncSees(o, k)
        PROVE  GhostOK'
    BY <1>2, <2>3 DEF SyncSees, queue, facts, graph
  <2>4. ASSUME NEW l, PhoneDeletesList(l)
        PROVE  GhostOK'
    BY <1>2, <2>4 DEF PhoneDeletesList, queue, facts
  <2>5. ASSUME NEW l, NEW kept, RemoveList(l, kept)
        PROVE  GhostOK'
    BY <1>2, <2>5 DEF RemoveList, Settled, facts, graph
  <2> QED BY <1>5, <2>1, <2>2, <2>3, <2>4, <2>5 DEF Around
<1>6. CASE Crash
  BY <1>0, <1>1, <1>6, GhostKept DEF Crash, queue, facts, graph, Unsettled
<1>7. CASE Start
  <2>1. \A x \in ghost : st'[x] \notin {"free", "done", "pruned"}
    BY <1>0, <1>1, <1>7 DEF Start, Unsettled
  <2> QED BY <1>7, <2>1, GhostKept DEF Start, facts, graph
<1>8. CASE UNCHANGED vars
  BY <1>2, <1>8 DEF vars, queue, facts, graph
<1> QED
  BY <1>3, <1>4, <1>5, <1>6, <1>7, <1>8 DEF Next

\* A create Graph took into a list that was already deleted is never marked
\* done: the check of the list after the 201 (confirm_list) always sees it.
THEOREM GhostsSeen == Spec => []NoGhostDone
<1>1. Init => GhostOK
  BY DEF Init, GhostOK
<1>2. TypeOK /\ TypeOK' /\ Inductive /\ GhostOK /\ [Next]_vars => GhostOK'
  BY GhostStep
<1>3. GhostOK => NoGhostDone
  BY DEF GhostOK, NoGhostDone
<1> QED
  BY <1>1, <1>2, <1>3, TypeCorrect, QueueInvariant, PTL DEF Spec

-----------------------------------------------------------------------------
(* What becomes of outcomes.                                               *)

\* How a step may move an operation that has an outcome.
Outcome(x) ==
  /\ st[x] = "done" => st'[x] \in {"done", "pruned"}
  /\ st[x] \in {"failed", "unknown"} /\ st'[x] = "pending" => chosen'[x] > chosen[x]
  /\ st[x] \in {"failed", "dropped", "pruned"} /\ st'[x] \in UnresolvedStates => chosen'[x] > chosen[x]

\* The clients' steps.
LEMMA OutcomeByClient ==
  ASSUME TypeOK, Inductive, Client
  PROVE  \A x \in Ops : Outcome(x)
<1>0. st \in [Ops -> States] /\ chosen \in [Ops -> Nat]
  BY DEF TypeOK, QueueTypes, ClientTypes
<1>1. ASSUME NEW k \in Kinds, NEW e \in Entities, Plan(k, e)
      PROVE  \A x \in Ops : Outcome(x)
  BY <1>1 DEF Plan, queue, Outcome, UnresolvedStates
<1>2. ASSUME NEW k \in Kinds, NEW e \in Entities, Enqueue(k, e)
      PROVE  \A x \in Ops : Outcome(x)
  <2>1. st[next] = "free"
    BY <1>2, ConstantsAssumption DEF Enqueue, Inductive, DepOK, Ops, TypeOK, QueueTypes
  <2> QED BY <1>0, <1>2, <2>1 DEF Enqueue, Outcome, UnresolvedStates
<1>3. ASSUME NEW do, NEW o \in Ops, Ask(do, o)
      PROVE  \A x \in Ops : Outcome(x)
  BY <1>3 DEF Ask, queue, Outcome, UnresolvedStates
<1>4. ASSUME NEW o \in Ops, NEW saw \in States, Retry(o, saw)
      PROVE  \A x \in Ops : Outcome(x)
  <2>1. saw \in {"unknown", "failed"}
    BY <1>4 DEF Retry, Inductive, AskedOK
  <2>2. \/ UNCHANGED st
        \/ /\ st[o] = saw /\ st' = [st EXCEPT ![o] = "pending"]
           /\ chosen' = [chosen EXCEPT ![o] = @ + 1]
    BY <1>4 DEF Retry
  <2> QED BY <1>0, <2>1, <2>2 DEF Outcome, UnresolvedStates
<1>5. ASSUME NEW o \in Ops, NEW saw \in States, Discard(o, saw)
      PROVE  \A x \in Ops : Outcome(x)
  <2>1. saw \in {"pending", "unknown", "failed"}
    BY <1>5 DEF Discard, Inductive, AskedOK
  <2>2. \A x \in Cascaded({o}) : st[x] \in {"pending", "unknown"}
    BY DEF Cascaded, NotSent
  <2>3. \A x \in Ops : \/ st'[x] = st[x]
                       \/ st'[x] = "failed" /\ x \in Cascaded({o})
                       \/ st'[x] = "dropped" /\ st[x] = saw
    BY <1>0, <1>5 DEF Discard, Settled
  <2> QED BY <2>1, <2>2, <2>3 DEF Outcome, UnresolvedStates
<1> QED
  BY <1>1, <1>2, <1>3, <1>4, <1>5 DEF Client

\* The worker's steps: it moves what is being sent, what it attributes, and
\* what fails or is moot with those.
LEMMA OutcomeByWorker ==
  ASSUME TypeOK, Inductive, Worker
  PROVE  \A x \in Ops : Outcome(x)
<1>0. st \in [Ops -> States] /\ todo \subseteq Ops
  BY DEF TypeOK, QueueTypes, WorkerTypes
<1>1. ASSUME UNCHANGED st
      PROVE  \A x \in Ops : Outcome(x)
  BY <1>1 DEF Outcome, UnresolvedStates
<1>2. ASSUME NEW o \in Ops, st[o] = "inflight",
             \A x \in Ops : x # o => \/ st'[x] = st[x]
                                     \/ NotSent(x) /\ st'[x] \in {"failed", "done"}
      PROVE  \A x \in Ops : Outcome(x)
  BY <1>2 DEF Outcome, UnresolvedStates, NotSent
<1>3. CASE ReadReady \/ EndRound \/ NextRound \/ NothingReady \/ Look \/ Looked
  BY <1>1, <1>3 DEF ReadReady, EndRound, NextRound, NothingReady, Look, Looked, queue
<1>4. ASSUME NEW a, (\E l \in Lists : GetList(l, a)) \/ (\E o \in Ops : LookAt(o, a))
      PROVE  \A x \in Ops : Outcome(x)
  BY <1>1, <1>4 DEF GetList, LookAt, queue
<1>5. CASE Claim
  BY <1>0, <1>5 DEF Claim, Outcome, UnresolvedStates
<1>6. ASSUME NEW o \in Ops, Exchange(o)
      PROVE  \A x \in Ops : Outcome(x)
  BY <1>1, <1>6 DEF Exchange, Accepted, Refused, LeftAlone, Deferred, Lost, Answers, queue
<1>7. \A o \in Ops : \A x \in Cascaded({o}) \cup Moot(o) : NotSent(x)
  BY DEF Cascaded, Moot
<1>8. ASSUME NEW o \in Ops, Settle(o)
      PROVE  \A x \in Ops : Outcome(x)
  <2>1. PICK a : Settling(o, a)
    BY <1>8 DEF Settle, RecordCreated, RecordChanged, RecordSent, RecordList, RecordSkipped, Defer,
       Reject, MarkUnknown, NotRecorded
  <2>2. st[o] = "inflight"
    BY <2>1 DEF Settling, Inductive, WorkerOK
  <2>3. CASE RecordCreated(o) \/ RecordChanged(o) \/ RecordList(o) \/ RecordSkipped(o) \/ Defer(o)
             \/ MarkUnknown(o) \/ \E b : NotRecorded(o, b)
    <3>1. \A x \in Ops : x # o => st'[x] = st[x]
      BY <1>0, <2>3 DEF RecordCreated, RecordChanged, RecordList, RecordSkipped, Defer, MarkUnknown,
         NotRecorded
    <3> QED BY <1>2, <2>2, <3>1
  <2>4. CASE RecordSent(o) \/ Reject(o)
    <3>1. \A x \in Ops : x # o => st'[x] = st[x] \/ (NotSent(x) /\ st'[x] \in {"failed", "done"})
      BY <1>7, <2>4 DEF RecordSent, MarkDone, Reject, FailOp, Settled
    <3> QED BY <1>2, <2>2, <3>1
  <2> QED BY <1>8, <2>3, <2>4 DEF Settle
<1>9. ASSUME NEW o \in Ops, Confirm(o)
      PROVE  \A x \in Ops : Outcome(x)
  <2>1. st[o] = "inflight"
    BY <1>9 DEF Confirm, Inductive, WorkerOK
  <2>2. \A x \in Ops : x # o => st'[x] = st[x] \/ (NotSent(x) /\ st'[x] \in {"failed", "done"})
    BY <1>0, <1>7, <1>9 DEF Confirm, MarkDone, FailOp, Settled
  <2> QED BY <1>2, <2>1, <2>2
<1>10. ASSUME NEW o \in Ops, Attribute(o)
      PROVE  \A x \in Ops : Outcome(x)
  <2>1. st[o] \notin {"inflight", "done", "free"}
    BY <1>10 DEF Attribute, Inductive, WorkerOK
  <2>2. st'[o] = st[o] \/ st'[o] \in {"done", "failed"}
    BY <1>0, <1>10 DEF Attribute, Adopt, AdoptNothing, FailOp, Settled
  <2>3. \A x \in Ops : x # o => st'[x] = st[x] \/ (NotSent(x) /\ st'[x] \in {"failed", "done"})
    BY <1>0, <1>7, <1>10 DEF Attribute, Adopt, AdoptNothing, FailOp, Settled
  <2> QED BY <2>1, <2>2, <2>3 DEF Outcome, UnresolvedStates, NotSent
<1> QED
  BY <1>3, <1>4, <1>5, <1>6, <1>8, <1>9, <1>10 DEF Worker

\* Every step keeps the outcomes.
LEMMA OutcomeByNext ==
  ASSUME TypeOK, Inductive, Next
  PROVE  \A x \in Ops : Outcome(x)
<1>0. st \in [Ops -> States]
  BY DEF TypeOK, QueueTypes
<1>1. CASE Around
  <2>1. ASSUME NEW l, NEW kept, RemoveList(l, kept)
        PROVE  \A x \in Ops : Outcome(x)
    BY <2>1 DEF RemoveList, Settled, Cascaded, NotSent, Outcome, UnresolvedStates
  <2>2. ASSUME NEW o, Prune(o)
        PROVE  \A x \in Ops : Outcome(x)
    BY <1>0, <2>2 DEF Prune, Outcome, UnresolvedStates
  <2> QED BY <1>1, <2>1, <2>2
    DEF Around, BackoffEnds, SyncSees, PhoneDeletesList, queue, Outcome, UnresolvedStates
<1>2. CASE Crash \/ Start
  BY <1>2 DEF Crash, Start, queue, Outcome, UnresolvedStates
<1> QED
  BY <1>1, <1>2, OutcomeByClient, OutcomeByWorker DEF Next

\* What is done stays done, and a write that failed or whose outcome is
\* unknown is queued again by the user alone: the attributions, the late
\* answers of clients, a restart and a list's removal leave it.
THEOREM OutcomesStand == Spec => OutcomesFinal
<1>1. TypeOK /\ Inductive /\ [Next]_vars =>
        [\A o \in Ops :
           /\ st[o] = "done" => st'[o] \in {"done", "pruned"}
           /\ st[o] \in {"failed", "unknown"} /\ st'[o] = "pending" => chosen'[o] > chosen[o]]_vars
  BY OutcomeByNext DEF Outcome
<1> QED
  BY <1>1, TypeCorrect, QueueInvariant, PTL DEF Spec, OutcomesFinal

-----------------------------------------------------------------------------
(* Done means made.                                                        *)

\* How rows come about: an entity has no row until its create is queued,
\* which is then the only one, and a new list's create is queued before
\* every write on its tasks.
BirthOK ==
  /\ \A o \in Ops : IF o < next THEN kind[o] \in Kinds ELSE kind[o] = "none"
  /\ \A e \in Entities : row[e] = "absent" =>
       /\ \A o \in Ops : kind[o] # "none" => ent[o] # e
       /\ \A o \in Ops : kind[o] \in TaskKinds => Home[ent[o]] # e
       /\ \A o \in Ops : e \notin back[o]
       /\ e \in Tasks => copy[e] = 0
  /\ \A k \in Kinds, e \in Entities : <<k, e>> \in planned =>
       /\ k \in {"create", "list_create"} <=> row[e] = "absent"
       /\ k \in TaskKinds => row[Home[e]] # "absent"
  /\ \A o, p \in Ops : kind[o] = "create" /\ kind[p] = "create" /\ ent[o] = ent[p] => o = p
  /\ \A o, p \in Ops :
       kind[o] = "list_create" /\ kind[p] \in TaskKinds /\ Home[ent[p]] = ent[o] => o < p

\* What undoing, redoing or recording an operation makes of a row: never
\* the first one of an entity.
LEMMA RowsBorn ==
  ASSUME TypeOK, BirthOK, NEW o \in Ops
  PROVE  /\ \A e \in Entities : UndoLocal(o)[e] = "absent" <=> row[e] = "absent"
         /\ \A e \in Entities : RedoLocal(o)[e] = "absent" <=> row[e] = "absent"
         /\ kind[o] # "none" =>
              \A e \in Entities : /\ Record(o)[e] = "absent" <=> row[e] = "absent"
                                  /\ WithRow(ent[o], "live")[e] = "absent" <=> row[e] = "absent"
         /\ kind[o] # "none" =>
              \A e \in Entities : TombstoneList(ent[o])[e] = "absent" <=> row[e] = "absent"
<1>1. /\ row \in [Entities -> {"absent", "live", "gone"}] /\ back \in [Ops -> SUBSET Tasks]
      /\ ent \in [Ops -> Entities \cup {"none"}] /\ "none" \notin Kinds
  BY ConstantsAssumption DEF TypeOK, QueueTypes, CacheTypes, TaskKinds, ListKinds
<1>2. \A e \in Entities : row[e] = "absent" => (kind[o] # "none" => ent[o] # e) /\ e \notin back[o]
  BY DEF BirthOK
<1>3. ASSUME NEW r \in {"live", "gone"}, NEW e \in Entities, kind[o] # "none"
      PROVE  WithRow(ent[o], r)[e] = "absent" <=> row[e] = "absent"
  BY <1>1, <1>2, <1>3 DEF WithRow
<1>4. ASSUME NEW e \in Entities, kind[o] # "none"
      PROVE  TombstoneList(ent[o])[e] = "absent" <=> row[e] = "absent"
  BY <1>1, <1>2, <1>4 DEF TombstoneList
<1>5. ASSUME NEW e \in Entities
      PROVE  UndoLocal(o)[e] = "absent" <=> row[e] = "absent"
  <2>1. CASE kind[o] \in {"create", "list_create", "update", "delete", "list_update"}
    BY <1>3, <1>4, <2>1 DEF UndoLocal
  <2>2. CASE kind[o] = "list_delete"
    <3>1. UndoLocal(o)[e] = IF e = ent[o] \/ e \in back[o] THEN "live" ELSE row[e]
      BY <2>2 DEF UndoLocal
    <3> QED BY <1>2, <2>2, <3>1
  <2>3. CASE kind[o] \notin {"create", "list_create", "update", "delete", "list_update", "list_delete"}
    BY <2>3 DEF UndoLocal
  <2> QED BY <2>1, <2>2, <2>3
<1>6. ASSUME NEW e \in Entities
      PROVE  RedoLocal(o)[e] = "absent" <=> row[e] = "absent"
  BY <1>3 DEF RedoLocal
<1>7. ASSUME NEW e \in Entities, kind[o] # "none"
      PROVE  Record(o)[e] = "absent" <=> row[e] = "absent"
  BY <1>3, <1>7 DEF Record
<1> QED
  BY <1>3, <1>4, <1>5, <1>6, <1>7

\* A step that queues nothing keeps BirthOK, if it makes no first row.
LEMMA BirthKept ==
  ASSUME TypeOK, BirthOK, UNCHANGED <<kind, ent, back, next>>, planned' \subseteq planned,
         \A e \in Entities : row'[e] = "absent" <=> row[e] = "absent",
         \A t \in Tasks : row[t] = "absent" => copy'[t] = copy[t]
  PROVE  BirthOK'
<1>1. Tasks \subseteq Entities /\ Home \in [Tasks -> Entities]
  BY ConstantsAssumption DEF Entities
<1>2. \A e \in Entities : row'[e] = "absent" =>
       /\ \A o \in Ops : kind[o] # "none" => ent[o] # e
       /\ \A o \in Ops : kind[o] \in TaskKinds => Home[ent[o]] # e
       /\ \A o \in Ops : e \notin back[o]
       /\ e \in Tasks => copy'[e] = 0
  BY DEF BirthOK
<1>3. ASSUME NEW k \in Kinds, NEW e \in Entities, <<k, e>> \in planned'
      PROVE  /\ k \in {"create", "list_create"} <=> row'[e] = "absent"
             /\ k \in TaskKinds => row'[Home[e]] # "absent"
  <2>1. <<k, e>> \in planned
    BY <1>3
  <2>2. k \in TaskKinds => Home[e] \in Entities
    BY <1>1, <2>1 DEF TypeOK, ClientTypes, Targets, TaskKinds, ListKinds
  <2> QED BY <2>1, <2>2 DEF BirthOK
<1> QED
  BY <1>2, <1>3 DEF BirthOK

LEMMA BirthByEnqueue ==
  ASSUME TypeOK, TypeOK', Inductive, BirthOK, NEW k \in Kinds, NEW e \in Entities, Enqueue(k, e)
  PROVE  BirthOK'
<1>0. /\ next \in Ops /\ next \in Nat /\ Ops \subseteq Nat /\ next' = next + 1 /\ "none" \notin Kinds
  BY ConstantsAssumption DEF Enqueue, Ops, TypeOK, QueueTypes, TaskKinds, ListKinds
<1>1. /\ kind' = [kind EXCEPT ![next] = k] /\ ent' = [ent EXCEPT ![next] = e]
      /\ planned' = planned \ {<<k, e>>} /\ <<k, e>> \in planned /\ copy' = copy
      /\ back' = [back EXCEPT ![next] = IF k = "list_delete" THEN {t \in TasksIn(e) : row[t] = "live"} ELSE {}]
      /\ row' = LocalChange(k, e)
  BY DEF Enqueue
<1>2. /\ kind \in [Ops -> Kinds \cup {"none"}] /\ ent \in [Ops -> Entities \cup {"none"}]
      /\ back \in [Ops -> SUBSET Tasks] /\ row \in [Entities -> {"absent", "live", "gone"}]
      /\ Tasks \subseteq Entities /\ Home \in [Tasks -> Lists] /\ Lists \subseteq Entities
      /\ Tasks \cap Lists = {}
  BY ConstantsAssumption DEF TypeOK, QueueTypes, CacheTypes, Entities
<1>3. /\ k \in {"create", "list_create"} <=> row[e] = "absent"
      /\ k \in TaskKinds => row[Home[e]] # "absent" /\ e \in Tasks
      /\ k \in ListKinds => e \in Lists
  BY <1>1 DEF BirthOK, TypeOK, ClientTypes, Targets, TaskKinds, ListKinds
<1>4. /\ \A x \in Entities : x # e => (row'[x] = "absent" <=> row[x] = "absent")
      /\ row'[e] # "absent"
  BY <1>1, <1>2, <1>3 DEF LocalChange, WithRow, TombstoneList, TasksIn
<1>5. \A o \in Ops : o # next => kind'[o] = kind[o] /\ ent'[o] = ent[o] /\ back'[o] = back[o]
  BY <1>1, <1>2
<1>6. kind'[next] = k /\ ent'[next] = e /\ kind[next] = "none"
      /\ \A x \in Entities : row[x] = "absent" => x \notin back'[next]
  BY <1>0, <1>1, <1>2 DEF BirthOK
<1>7. \A o \in Ops : IF o < next' THEN kind'[o] \in Kinds ELSE kind'[o] = "none"
  <2> SUFFICES ASSUME NEW o \in Ops
               PROVE  IF o < next + 1 THEN kind'[o] \in Kinds ELSE kind'[o] = "none"
    BY <1>0
  <2>1. o \in Nat /\ IF o < next THEN kind[o] \in Kinds ELSE kind[o] = "none"
    BY <1>0 DEF BirthOK
  <2> QED BY <1>0, <1>5, <1>6, <2>1
<1>8. ASSUME NEW x \in Entities, row'[x] = "absent"
      PROVE  /\ \A o \in Ops : kind'[o] # "none" => ent'[o] # x
             /\ \A o \in Ops : kind'[o] \in TaskKinds => Home[ent'[o]] # x
             /\ \A o \in Ops : x \notin back'[o]
             /\ x \in Tasks => copy'[x] = 0
  <2>1. x # e /\ row[x] = "absent"
    BY <1>4, <1>8
  <2>2. /\ \A o \in Ops : kind[o] # "none" => ent[o] # x
        /\ \A o \in Ops : kind[o] \in TaskKinds => Home[ent[o]] # x
        /\ \A o \in Ops : x \notin back[o]
        /\ x \in Tasks => copy[x] = 0
    BY <2>1 DEF BirthOK
  <2>3. k \in TaskKinds => Home[e] # x
    BY <1>3, <2>1
  <2> QED BY <1>1, <1>5, <1>6, <2>1, <2>2, <2>3
<1>9. ASSUME NEW k2 \in Kinds, NEW x \in Entities, <<k2, x>> \in planned'
      PROVE  /\ k2 \in {"create", "list_create"} <=> row'[x] = "absent"
             /\ k2 \in TaskKinds => row'[Home[x]] # "absent"
  <2>1. <<k2, x>> \in planned /\ <<k2, x>> # <<k, e>>
    BY <1>1, <1>9
  <2>2. /\ k2 \in {"create", "list_create"} <=> row[x] = "absent"
        /\ k2 \in TaskKinds => row[Home[x]] # "absent" /\ x \in Tasks
        /\ k2 \in ListKinds => x \in Lists
    BY <2>1 DEF BirthOK, TypeOK, ClientTypes, Targets, TaskKinds, ListKinds
  <2>3. x = e => k2 \notin {"create", "list_create"}
    BY <1>2, <1>3, <2>1, <2>2 DEF TaskKinds, ListKinds
  <2>4. k2 \in TaskKinds => Home[x] \in Entities
    BY <1>2, <2>2
  <2> QED BY <1>4, <2>2, <2>3, <2>4
<1>10. \A o, p \in Ops : kind'[o] = "create" /\ kind'[p] = "create" /\ ent'[o] = ent'[p] => o = p
  <2>1. k = "create" => \A o \in Ops : kind[o] # "none" => ent[o] # e
    BY <1>3 DEF BirthOK
  <2>2. \A o, p \in Ops : kind[o] = "create" /\ kind[p] = "create" /\ ent[o] = ent[p] => o = p
    BY DEF BirthOK
  <2> QED BY <1>5, <1>6, <2>1, <2>2
<1>11. \A o, p \in Ops :
         kind'[o] = "list_create" /\ kind'[p] \in TaskKinds /\ Home[ent'[p]] = ent'[o] => o < p
  <2> SUFFICES ASSUME NEW o \in Ops, NEW p \in Ops, kind'[o] = "list_create",
                      kind'[p] \in TaskKinds, Home[ent'[p]] = ent'[o]
               PROVE  o < p
    OBVIOUS
  <2>1. o # p
    BY DEF TaskKinds
  <2>2. CASE o = next
    <3>1. kind[p] \in TaskKinds /\ Home[ent[p]] = e
      BY <1>5, <1>6, <2>1, <2>2
    <3>2. row[e] = "absent"
      BY <1>3, <1>6, <2>2
    <3> QED BY <3>1, <3>2 DEF BirthOK
  <2>3. CASE o # next /\ p = next
    <3>1. kind[o] # "none"
      BY <1>5, <2>3
    <3> QED BY <1>0, <2>3, <3>1 DEF BirthOK
  <2>4. CASE o # next /\ p # next
    <3>1. kind[o] = "list_create" /\ kind[p] \in TaskKinds /\ Home[ent[p]] = ent[o]
      BY <1>5, <2>4
    <3> QED BY <3>1 DEF BirthOK
  <2> QED BY <2>2, <2>3, <2>4
<1> QED
  BY <1>7, <1>8, <1>9, <1>10, <1>11 DEF BirthOK

LEMMA BirthStep ==
  ASSUME TypeOK, TypeOK', Inductive, BirthOK, [Next]_vars
  PROVE  BirthOK'
<1>0. /\ row \in [Entities -> {"absent", "live", "gone"}] /\ copy \in [Tasks -> Nat]
      /\ ent \in [Ops -> Entities \cup {"none"}]
  BY DEF TypeOK, QueueTypes, CacheTypes
<1>1. ASSUME UNCHANGED <<kind, ent, back, next, copy>>, planned' \subseteq planned,
             row' = row \/ \E o \in Ops : row' \in {UndoLocal(o), RedoLocal(o)}
      PROVE  BirthOK'
  <2>1. \A e \in Entities : row'[e] = "absent" <=> row[e] = "absent"
    BY <1>1, RowsBorn
  <2> QED BY <1>1, <2>1, BirthKept
<1>2. ASSUME NEW o \in Ops, kind[o] # "none", UNCHANGED <<kind, ent, back, next, planned>>,
             row' \in {row, Record(o), WithRow(ent[o], "live"), TombstoneList(ent[o])},
             \A t \in Tasks : t # ent[o] => copy'[t] = copy[t]
      PROVE  BirthOK'
  <2>1. \A e \in Entities : row'[e] = "absent" <=> row[e] = "absent"
    BY <1>2, RowsBorn
  <2>2. \A t \in Tasks : row[t] = "absent" => copy'[t] = copy[t]
    BY <1>2 DEF BirthOK, Entities
  <2> QED BY <1>2, <2>1, <2>2, BirthKept
<1>3. ASSUME NEW k \in Kinds, NEW e \in Entities, Plan(k, e)
      PROVE  BirthOK'
  <2>1. /\ planned' = planned \cup {<<k, e>>} /\ UNCHANGED <<kind, ent, back, next, row, copy>>
        /\ row[e] = (IF k \in {"create", "list_create"} THEN "absent" ELSE "live")
        /\ k \in TaskKinds => row[Home[e]] = "live"
    BY <1>3 DEF Plan, queue, facts, cache
  <2>2. \A k2 \in Kinds, x \in Entities : <<k2, x>> \in planned' =>
          /\ k2 \in {"create", "list_create"} <=> row[x] = "absent"
          /\ k2 \in TaskKinds => row[Home[x]] # "absent"
    <3> SUFFICES ASSUME NEW k2 \in Kinds, NEW x \in Entities, <<k2, x>> \in planned'
                 PROVE  /\ k2 \in {"create", "list_create"} <=> row[x] = "absent"
                        /\ k2 \in TaskKinds => row[Home[x]] # "absent"
      OBVIOUS
    <3>1. <<k2, x>> \in planned \/ (k2 = k /\ x = e)
      BY <2>1
    <3> QED BY <2>1, <3>1 DEF BirthOK
  <2> QED BY <2>1, <2>2 DEF BirthOK
<1>4. CASE Client
  <2>1. ASSUME NEW do, NEW o \in Ops, Ask(do, o)
        PROVE  BirthOK'
    BY <1>1, <2>1 DEF Ask, queue, facts, cache
  <2>2. ASSUME NEW o \in Ops, NEW saw \in States, Retry(o, saw) \/ Discard(o, saw)
        PROVE  BirthOK'
    <3>1. row' \in {row, UndoLocal(o), RedoLocal(o)}
      BY <2>2 DEF Retry, Discard
    <3> QED BY <1>1, <2>2, <3>1 DEF Retry, Discard, facts
  <2> QED BY <1>3, <1>4, <2>1, <2>2, BirthByEnqueue DEF Client
<1>5. CASE Worker
  <2>1. CASE ReadReady \/ Claim \/ EndRound \/ NextRound \/ NothingReady \/ Look \/ Looked
    <3>1. UNCHANGED <<kind, ent, back, next, row, copy, planned>>
      BY <2>1 DEF ReadReady, Claim, EndRound, NextRound, NothingReady, Look, Looked, queue, facts,
         cache, clients
    <3> QED BY <1>1, <3>1
  <2>2. ASSUME NEW a, (\E l \in Lists : GetList(l, a)) \/ (\E o \in Ops : LookAt(o, a))
        PROVE  BirthOK'
    <3>1. UNCHANGED <<kind, ent, back, next, row, copy, planned>>
      BY <2>2 DEF GetList, LookAt, queue, facts, cache, clients
    <3> QED BY <1>1, <3>1
  <2>3. ASSUME NEW o \in Ops, Exchange(o)
        PROVE  BirthOK'
    <3>1. UNCHANGED <<kind, ent, back, next, row, copy, planned>>
      BY <2>3 DEF Exchange, Accepted, Refused, LeftAlone, Deferred, Lost, Answers, queue, facts,
         cache, clients
    <3> QED BY <1>1, <3>1
  <2>4. ASSUME NEW o \in Ops, Settle(o)
        PROVE  BirthOK'
    <3>1. PICK a : Settling(o, a)
      BY <2>4 DEF Settle, RecordCreated, RecordChanged, RecordSent, RecordList, RecordSkipped, Defer,
         Reject, MarkUnknown, NotRecorded
    <3>2. UNCHANGED <<kind, ent, back, next, planned>> /\ o = cur /\ pc = "settle"
      BY <3>1 DEF Settling, facts, clients
    <3>3. kind[o] # "none"
      BY <3>2, ConstantsAssumption
      DEF BirthOK, Inductive, WorkerOK, DepOK, TypeOK, QueueTypes, Ops, TaskKinds, ListKinds
    <3>4. CASE RecordCreated(o) \/ RecordChanged(o) \/ RecordList(o) \/ RecordSkipped(o)
      <4>1. row' \in {row, Record(o), WithRow(ent[o], "live"), TombstoneList(ent[o])}
        BY <3>4 DEF RecordCreated, RecordChanged, RecordList, RecordSkipped
      <4>2. \A t \in Tasks : t # ent[o] => copy'[t] = copy[t]
        BY <1>0, <3>4 DEF RecordCreated, RecordChanged, RecordList, RecordSkipped
      <4> QED BY <1>2, <3>2, <3>3, <4>1, <4>2
    <3>5. CASE RecordSent(o) \/ Defer(o) \/ Reject(o) \/ MarkUnknown(o) \/ \E b : NotRecorded(o, b)
      <4>1. row' \in {row, UndoLocal(o)} /\ copy' = copy
        BY <3>5 DEF RecordSent, Defer, Reject, FailOp, MarkUnknown, NotRecorded, cache
      <4> QED BY <1>1, <3>2, <4>1
    <3> QED BY <2>4, <3>4, <3>5 DEF Settle
  <2>5. ASSUME NEW o \in Ops, Confirm(o)
        PROVE  BirthOK'
    <3>1. row' \in {row, UndoLocal(o)} /\ UNCHANGED <<kind, ent, back, next, copy, planned>>
      BY <2>5 DEF Confirm, FailOp, facts, clients
    <3> QED BY <1>1, <3>1
  <2>6. ASSUME NEW o \in Ops, Attribute(o)
        PROVE  BirthOK'
    <3>1. o = cur /\ pc = "adopt" /\ UNCHANGED <<kind, ent, back, next, planned>>
      BY <2>6 DEF Attribute, facts, clients
    <3>2. kind[o] # "none"
      BY <3>1, ConstantsAssumption
      DEF BirthOK, Inductive, WorkerOK, DepOK, TypeOK, QueueTypes, Ops, TaskKinds, ListKinds
    <3>3. CASE Adopt(o)
      <4>1. row' \in {row, Record(o)}
        BY <3>3 DEF Adopt
      <4>2. \A t \in Tasks : t # ent[o] => copy'[t] = copy[t]
        BY <1>0, <3>3 DEF Adopt
      <4> QED BY <1>2, <3>1, <3>2, <4>1, <4>2
    <3>4. CASE AdoptNothing(o)
      <4>1. row' \in {row, UndoLocal(o)} /\ copy' = copy
        BY <3>4 DEF AdoptNothing, FailOp
      <4> QED BY <1>1, <3>1, <4>1
    <3> QED BY <2>6, <3>3, <3>4 DEF Attribute
  <2> QED BY <1>5, <2>1, <2>2, <2>3, <2>4, <2>5, <2>6 DEF Worker
<1>6. ASSUME NEW l, NEW kept, RemoveList(l, kept)
      PROVE  BirthOK'
  <2>1. \A e \in Entities : row'[e] = "absent" <=> row[e] = "absent"
    BY <1>0, <1>6 DEF RemoveList
  <2>2. UNCHANGED <<kind, ent, back, next, copy, planned>>
    BY <1>6 DEF RemoveList, facts, clients
  <2> QED BY <2>1, <2>2, BirthKept
<1>7. CASE Around
  <2>1. CASE BackoffEnds
    BY <1>1, <2>1 DEF BackoffEnds, facts, cache, clients
  <2>2. ASSUME NEW o, Prune(o)
        PROVE  BirthOK'
    BY <1>1, <2>2 DEF Prune, facts, cache, clients
  <2>3. ASSUME NEW o, NEW k, SyncSees(o, k)
        PROVE  BirthOK'
    BY <1>1, <2>3 DEF SyncSees, queue, facts, clients
  <2>4. ASSUME NEW l, PhoneDeletesList(l)
        PROVE  BirthOK'
    BY <1>1, <2>4 DEF PhoneDeletesList, queue, facts, cache, clients
  <2> QED BY <1>6, <1>7, <2>1, <2>2, <2>3, <2>4 DEF Around
<1>8. CASE Crash \/ Start \/ UNCHANGED vars
  BY <1>1, <1>8 DEF Crash, Start, vars, queue, facts, cache, clients
<1> QED
  BY <1>4, <1>5, <1>7, <1>8 DEF Next
\* What the worker holds at each place: only a create waits for its list to
\* be confirmed or is attributed, only a planned value is left alone.
TurnOK ==
  /\ pc = "settle" /\ answer = "skipped" => kind[cur] \in {"update", "task_extension"}
  /\ \A o \in made : kind[o] = "create"
  /\ pc = "confirming" => \A o \in todo : kind[o] = "create"
  /\ pc = "adopt" => kind[cur] = "create"

LEMMA TurnStep ==
  ASSUME TypeOK, TypeOK', Inductive, BirthOK, TurnOK, [Next]_vars
  PROVE  TurnOK'
<1>0. todo \subseteq Ops /\ made \subseteq Ops /\ kind \in [Ops -> Kinds \cup {"none"}]
  BY DEF TypeOK, QueueTypes, WorkerTypes
<1>1. ASSUME UNCHANGED <<kind, worker>>
      PROVE  TurnOK'
  BY <1>1 DEF TurnOK, worker
<1>2. ASSUME UNCHANGED kind, \A o \in made' : o \in made, pc' \notin {"settle", "confirming", "adopt"}
      PROVE  TurnOK'
  BY <1>2 DEF TurnOK
<1>3. ASSUME NEW k \in Kinds, NEW e \in Entities, Enqueue(k, e)
      PROVE  TurnOK'
  <2>1. st[next] = "free" /\ kind' = [kind EXCEPT ![next] = k] /\ UNCHANGED <<pc, answer, cur, made, todo>>
    BY <1>3, ConstantsAssumption DEF Enqueue, worker, Inductive, DepOK, Ops, TypeOK, QueueTypes
  <2>2. /\ pc \in {"settle", "adopt"} => cur # next /\ cur \in Ops
        /\ next \notin made
        /\ pc = "confirming" => next \notin todo
    BY <2>1 DEF Inductive, WorkerOK
  <2> QED BY <1>0, <2>1, <2>2 DEF TurnOK
<1>4. CASE Client
  <2>1. ASSUME NEW k \in Kinds, NEW e \in Entities, Plan(k, e)
        PROVE  TurnOK'
    BY <1>1, <2>1 DEF Plan, queue, facts
  <2>2. ASSUME NEW do, NEW o \in Ops, Ask(do, o)
        PROVE  TurnOK'
    BY <1>1, <2>2 DEF Ask, queue, facts
  <2>3. ASSUME NEW o \in Ops, NEW saw \in States, Retry(o, saw) \/ Discard(o, saw)
        PROVE  TurnOK'
    BY <1>1, <2>3 DEF Retry, Discard, facts
  <2> QED BY <1>3, <1>4, <2>1, <2>2, <2>3 DEF Client
<1>5. CASE Worker
  <2>1. CASE ReadReady \/ Claim \/ EndRound \/ NextRound \/ NothingReady \/ Look \/ Looked
    <3>1. UNCHANGED kind /\ (\A o \in made' : o \in made) /\ pc' \notin {"settle", "confirming", "adopt"}
      BY <2>1 DEF ReadReady, Claim, EndRound, NextRound, NothingReady, Look, Looked, queue, facts
    <3> QED BY <1>2, <3>1
  <2>2. ASSUME NEW o \in Ops, Exchange(o)
        PROVE  TurnOK'
    BY <2>2 DEF Exchange, Accepted, Refused, LeftAlone, Deferred, Lost, Answers, queue, facts, TurnOK
  <2>3. ASSUME NEW o \in Ops, Settle(o)
        PROVE  TurnOK'
    <3>1. UNCHANGED kind /\ pc' = "round"
      BY <2>3 DEF Settle, RecordCreated, RecordChanged, RecordSent, RecordList, RecordSkipped, Defer,
         Reject, MarkUnknown, NotRecorded, Settling, facts
    <3>2. \A x \in made' : x \in made \/ kind[x] = "create"
      BY <2>3 DEF Settle, RecordCreated, RecordChanged, RecordSent, RecordList, RecordSkipped, Defer,
         Reject, MarkUnknown, NotRecorded
    <3> QED BY <3>1, <3>2 DEF TurnOK
  <2>4. ASSUME NEW o \in Ops, Confirm(o) \/ Attribute(o)
        PROVE  TurnOK'
    <3>1. UNCHANGED <<kind, made>> /\ pc' \in {"confirming", "confirm", "look"}
          /\ (pc' = "confirming" => pc = "confirming" /\ \A x \in todo' : x \in todo)
      BY <2>4 DEF Confirm, Attribute, facts
    <3> QED BY <3>1 DEF TurnOK
  <2>5. ASSUME NEW a, NEW l \in Lists, GetList(l, a)
        PROVE  TurnOK'
    BY <2>5 DEF GetList, queue, facts, TurnOK
  <2>6. ASSUME NEW a, NEW o \in Ops, LookAt(o, a)
        PROVE  TurnOK'
    BY <2>6 DEF LookAt, queue, facts, TurnOK
  <2> QED BY <1>5, <2>1, <2>2, <2>3, <2>4, <2>5, <2>6 DEF Worker
<1>6. CASE Around
  BY <1>1, <1>6 DEF Around, BackoffEnds, Prune, SyncSees, PhoneDeletesList, RemoveList, queue, facts
<1>7. CASE Crash \/ Start
  <2>1. UNCHANGED kind /\ (\A o \in made' : o \in made) /\ pc' \notin {"settle", "confirming", "adopt"}
    BY <1>7 DEF Crash, Start, queue, facts
  <2> QED BY <1>2, <2>1
<1>8. CASE UNCHANGED vars
  BY <1>1, <1>8 DEF vars, queue, facts
<1> QED
  BY <1>4, <1>5, <1>6, <1>7, <1>8 DEF Next

\* What is done or about to be was run, and so was a create whose task is
\* in the cache.
RanOK ==
  /\ \A o \in Ops : st[o] = "done" /\ o \notin skipped => applied[o] > 0
  /\ \A o \in made : applied[o] > 0
  /\ pc = "confirming" => \A o \in todo : applied[o] > 0
  /\ (pc = "settle" /\ answer = "ok") \/ pc = "adopt" => applied[cur] > 0
  /\ \A o \in Ops : dups[o] # {} => kind[o] = "create" /\ applied[o] > 0
  /\ \A o \in Ops : kind[o] = "create" /\ copy[ent[o]] # 0 => applied[o] > 0

\* A step that queues nothing and asks Graph nothing keeps RanOK, if it
\* makes done, and caches copies of, only what was run.
LEMMA RanKept ==
  ASSUME TypeOK, RanOK, UNCHANGED <<kind, ent, applied>>, skipped \subseteq skipped',
         \A o \in Ops : st'[o] = "done" => st[o] = "done" \/ o \in skipped' \/ applied[o] > 0,
         \A o \in made' : o \in made \/ applied[o] > 0,
         pc' = "confirming" => \A o \in todo' : applied[o] > 0,
         (pc' = "settle" /\ answer' = "ok") \/ pc' = "adopt" => applied[cur'] > 0,
         \A o \in Ops : dups'[o] # {} => dups[o] # {} \/ (kind[o] = "create" /\ applied[o] > 0),
         \A o \in Ops : kind[o] = "create" /\ copy'[ent[o]] # 0 => copy[ent[o]] # 0 \/ applied[o] > 0
  PROVE  RanOK'
BY DEF RanOK

\* The same of a step that leaves the worker and the copies alone.
LEMMA RanBeside ==
  ASSUME TypeOK, RanOK, UNCHANGED <<kind, ent, applied, skipped, copy, worker>>,
         \A o \in Ops : st'[o] = "done" => st[o] = "done",
         \A o \in Ops : dups'[o] # {} => dups[o] # {} \/ (kind[o] = "create" /\ applied[o] > 0)
  PROVE  RanOK'
<1>1. UNCHANGED <<pc, todo, cur, answer, made>>
  BY DEF worker
<1> QED BY <1>1 DEF RanOK

LEMMA RanByClient ==
  ASSUME TypeOK, TypeOK', Inductive, BirthOK, RanOK, Client
  PROVE  RanOK'
<1>0. /\ st \in [Ops -> States] /\ kind \in [Ops -> Kinds \cup {"none"}]
      /\ ent \in [Ops -> Entities \cup {"none"}] /\ todo \subseteq Ops /\ made \subseteq Ops
  BY DEF TypeOK, QueueTypes, WorkerTypes
<1>1. ASSUME NEW k \in Kinds, NEW e \in Entities, Plan(k, e)
      PROVE  RanOK'
  BY <1>1, RanBeside DEF Plan, queue, facts, cache, graph
<1>2. ASSUME NEW do, NEW o \in Ops, Ask(do, o)
      PROVE  RanOK'
  BY <1>2, RanBeside DEF Ask, queue, facts, cache, graph
<1>3. ASSUME NEW o \in Ops, NEW saw \in States, Retry(o, saw) \/ Discard(o, saw)
      PROVE  RanOK'
  <2>1. \A x \in Ops : st'[x] = "done" => st[x] = "done"
    BY <1>0, <1>3 DEF Retry, Discard, Settled
  <2>2. UNCHANGED <<kind, ent, applied, skipped, copy, dups, worker>>
    BY <1>3 DEF Retry, Discard, facts, graph
  <2> QED BY <2>1, <2>2, RanBeside
<1>4. ASSUME NEW k \in Kinds, NEW e \in Entities, Enqueue(k, e)
      PROVE  RanOK'
  <2>1. next \in Ops /\ kind[next] = "none"
    BY <1>4, ConstantsAssumption DEF Enqueue, BirthOK, Ops, TypeOK, QueueTypes
  <2>2. /\ st' = [st EXCEPT ![next] = "pending"] /\ kind' = [kind EXCEPT ![next] = k]
        /\ ent' = [ent EXCEPT ![next] = e] /\ <<k, e>> \in planned
        /\ UNCHANGED <<skipped, copy, dups, applied, made, pc, todo, answer, cur>>
    BY <1>4 DEF Enqueue, graph, worker
  <2>3. k = "create" => copy[e] = 0
    BY <2>2 DEF BirthOK, TypeOK, ClientTypes, Targets, TaskKinds, ListKinds
  <2>4. \A o \in Ops : o # next => st'[o] = st[o] /\ kind'[o] = kind[o] /\ ent'[o] = ent[o]
    BY <1>0, <2>2
  <2>5. st'[next] = "pending" /\ kind'[next] = k /\ ent'[next] = e /\ dups[next] = {}
    BY <1>0, <2>1, <2>2 DEF RanOK
  <2>6. \A o \in Ops : st'[o] = "done" /\ o \notin skipped => applied[o] > 0
    BY <2>4, <2>5 DEF RanOK
  <2>7. \A o \in Ops : dups[o] # {} => kind'[o] = "create" /\ applied[o] > 0
    BY <2>4, <2>5 DEF RanOK
  <2>8. \A o \in Ops : kind'[o] = "create" /\ copy[ent'[o]] # 0 => applied[o] > 0
    BY <2>3, <2>4, <2>5 DEF RanOK
  <2> QED BY <2>2, <2>6, <2>7, <2>8 DEF RanOK
<1> QED
  BY <1>1, <1>2, <1>3, <1>4 DEF Client

\* Graph runs what is on the wire, or it answers something else than ok.
LEMMA RanByExchange ==
  ASSUME TypeOK, TypeOK', Inductive, RanOK, NEW o \in Ops, Exchange(o)
  PROVE  RanOK'
<1>0. applied \in [Ops -> Nat] /\ made \subseteq Ops
  BY DEF TypeOK, GraphTypes, WorkerTypes
<1>1. /\ o = cur /\ pc' = "settle" /\ UNCHANGED <<st, kind, ent, skipped, copy, dups, made, cur>>
  BY DEF Exchange, Accepted, Refused, LeftAlone, Deferred, Lost, Answers, queue, facts, cache
<1>2. \/ UNCHANGED applied /\ answer' # "ok"
      \/ Runs(o)
  BY DEF Exchange, Accepted, Refused, LeftAlone, Deferred, Lost, Answers, graph
<1>3. \A x \in Ops : applied[x] > 0 => applied'[x] > 0
  BY <1>0, <1>2 DEF Runs
<1>4. answer' = "ok" => applied'[o] > 0
  BY <1>0, <1>2 DEF Runs
<1>5. \A x \in made : applied'[x] > 0
  BY <1>0, <1>3 DEF RanOK
<1> QED
  BY <1>1, <1>3, <1>4, <1>5 DEF RanOK

LEMMA RanBySettle ==
  ASSUME TypeOK, TypeOK', Inductive, BirthOK, RanOK, NEW o \in Ops, Settle(o)
  PROVE  RanOK'
<1>0. /\ st \in [Ops -> States] /\ copy \in [Tasks -> Nat] /\ dups \in [Ops -> SUBSET Nat]
      /\ ent \in [Ops -> Entities \cup {"none"}]
  BY DEF TypeOK, QueueTypes, CacheTypes
<1>1. PICK a : Settling(o, a)
  BY DEF Settle, RecordCreated, RecordChanged, RecordSent, RecordList, RecordSkipped, Defer, Reject,
     MarkUnknown, NotRecorded
<1>2. /\ pc = "settle" /\ o = cur /\ pc' = "round" /\ UNCHANGED <<kind, ent, applied>>
  BY <1>1 DEF Settling, facts, graph
<1>3. answer = "ok" => applied[o] > 0
  BY <1>2 DEF RanOK
<1>4. CASE RecordCreated(o)
  <2>1. /\ answer = "ok" /\ made' = made \cup {o} /\ UNCHANGED <<st, skipped>> /\ kind[o] = "create"
        /\ copy' = [copy EXCEPT ![ent[o]] = applied[o]]
        /\ dups' = [dups EXCEPT ![o] = @ \ {applied[o]}]
    BY <1>4 DEF RecordCreated, Settling
  <2>2. \A x \in Ops : kind[x] = "create" /\ copy'[ent[x]] # 0 => copy[ent[x]] # 0 \/ applied[x] > 0
    <3> SUFFICES ASSUME NEW x \in Ops, kind[x] = "create", copy'[ent[x]] # copy[ent[x]]
                 PROVE  applied[x] > 0
      OBVIOUS
    <3>1. ent[x] = ent[o]
      BY <1>0, <2>1
    <3>2. x = o
      BY <2>1, <3>1 DEF BirthOK
    <3> QED BY <1>3, <2>1, <3>2
  <2>3. \A x \in Ops : dups'[x] # {} => dups[x] # {}
    BY <1>0, <2>1
  <2> QED BY <1>2, <1>3, <2>1, <2>2, <2>3, RanKept
<1>5. CASE RecordChanged(o) \/ RecordList(o)
  <2>1. /\ answer = "ok" /\ st' = [st EXCEPT ![o] = "done"] /\ UNCHANGED <<skipped, copy, dups, made>>
    BY <1>5 DEF RecordChanged, RecordList, Settling
  <2>2. \A x \in Ops : st'[x] = "done" => st[x] = "done" \/ applied[x] > 0
    BY <1>0, <1>3, <2>1
  <2> QED BY <1>2, <2>1, <2>2, RanKept
<1>6. CASE RecordSent(o)
  <2>1. /\ answer = "ok" /\ st' = Settled({o} \cup Moot(o), "done") /\ skipped' = skipped \cup Moot(o)
        /\ UNCHANGED <<copy, dups, made>>
    BY <1>6 DEF RecordSent, MarkDone, Settling, cache
  <2>2. \A x \in Ops : st'[x] = "done" => st[x] = "done" \/ x \in skipped' \/ applied[x] > 0
    BY <1>3, <2>1 DEF Settled
  <2> QED BY <1>2, <2>1, <2>2, RanKept
<1>7. CASE RecordSkipped(o)
  <2>1. /\ st' = [st EXCEPT ![o] = "done"] /\ skipped' = skipped \cup {o} /\ UNCHANGED <<copy, dups, made>>
    BY <1>7 DEF RecordSkipped
  <2>2. \A x \in Ops : st'[x] = "done" => st[x] = "done" \/ x \in skipped'
    BY <1>0, <2>1
  <2> QED BY <1>2, <2>1, <2>2, RanKept
<1>8. CASE Defer(o) \/ Reject(o) \/ MarkUnknown(o) \/ \E b : NotRecorded(o, b)
  <2>1. UNCHANGED <<skipped, copy, dups, made>>
    BY <1>8 DEF Defer, Reject, MarkUnknown, NotRecorded, cache
  <2>2. \A x \in Ops : st'[x] = "done" => st[x] = "done"
    BY <1>0, <1>8 DEF Defer, Reject, FailOp, Settled, MarkUnknown, NotRecorded
  <2> QED BY <1>2, <2>1, <2>2, RanKept
<1> QED
  BY <1>4, <1>5, <1>6, <1>7, <1>8 DEF Settle

LEMMA RanByWorker ==
  ASSUME TypeOK, TypeOK', Inductive, BirthOK, TurnOK, RanOK, Worker
  PROVE  RanOK'
<1>0. /\ st \in [Ops -> States] /\ todo \subseteq Ops /\ made \subseteq Ops /\ dups \in [Ops -> SUBSET Nat]
      /\ ent \in [Ops -> Entities \cup {"none"}] /\ copy \in [Tasks -> Nat]
  BY DEF TypeOK, QueueTypes, CacheTypes, WorkerTypes
<1>1. ASSUME UNCHANGED <<kind, ent, skipped, applied, copy, dups>>,
             \A o \in Ops : st'[o] = "done" => st[o] = "done",
             \A o \in made' : o \in made, pc' \notin {"confirming", "settle", "adopt"}
      PROVE  RanOK'
  BY <1>1, RanKept
<1>2. CASE ReadReady \/ EndRound \/ NextRound \/ NothingReady \/ Look \/ Looked
  <2>1. /\ UNCHANGED <<st, kind, ent, skipped, applied, copy, dups>> /\ \A o \in made' : o \in made
        /\ pc' \notin {"confirming", "settle", "adopt"}
    BY <1>2 DEF ReadReady, EndRound, NextRound, NothingReady, Look, Looked, queue, facts, cache, graph
  <2> QED BY <1>1, <2>1
<1>3. CASE Claim
  <2>1. /\ UNCHANGED <<kind, ent, skipped, applied, copy, dups, made>>
        /\ pc' \notin {"confirming", "settle", "adopt"}
    BY <1>3 DEF Claim, facts, cache, graph
  <2>2. \A o \in Ops : st'[o] = "done" => st[o] = "done"
    BY <1>0, <1>3 DEF Claim
  <2> QED BY <1>1, <2>1, <2>2
<1>4. ASSUME NEW a, NEW l \in Lists, GetList(l, a)
      PROVE  RanOK'
  <2>1. /\ UNCHANGED <<st, kind, ent, skipped, applied, copy, dups>> /\ pc' = "confirming"
        /\ \A o \in made' : o \in made
        /\ \A o \in todo' : o \in made
    BY <1>4 DEF GetList, queue, facts, cache, graph
  <2>2. \A o \in todo' : applied[o] > 0
    BY <2>1 DEF RanOK
  <2> QED BY <2>1, <2>2, RanKept
<1>5. ASSUME NEW a, NEW o \in Ops, LookAt(o, a)
      PROVE  RanOK'
  <2>1. UNCHANGED <<st, kind, ent, skipped, applied, copy, dups, made>> /\ pc = "look"
    BY <1>5 DEF LookAt, queue, facts, cache, graph
  <2>2. \/ pc' = "look"
        \/ pc' = "adopt" /\ cur' = o /\ kind[o] = "create" /\ seen' \in Found(o)
    BY <1>5 DEF LookAt
  <2>3. pc' = "adopt" => applied[cur'] > 0
    BY <2>2 DEF Found, RanOK
  <2> QED BY <2>1, <2>2, <2>3, RanKept
<1>6. ASSUME NEW o \in Ops, Confirm(o)
      PROVE  RanOK'
  <2>1. /\ UNCHANGED <<kind, ent, applied, copy, dups, made>> /\ applied[o] > 0
        /\ \A x \in todo' : applied[x] > 0
        /\ pc' \in {"confirm", "confirming"}
    BY <1>6 DEF Confirm, facts, graph, RanOK
  <2>2. /\ skipped \subseteq skipped'
        /\ \A x \in Ops : st'[x] = "done" => st[x] = "done" \/ x \in skipped' \/ applied[x] > 0
    <3>1. CASE MarkDone(o)
      BY <2>1, <3>1 DEF MarkDone, Settled
    <3>2. CASE FailOp(o) /\ UNCHANGED skipped
      BY <3>2 DEF FailOp, Settled
    <3>3. CASE (st' = [st EXCEPT ![o] = "unknown"] \/ UNCHANGED st) /\ UNCHANGED skipped
      BY <1>0, <3>3
    <3> QED BY <1>6, <3>1, <3>2, <3>3 DEF Confirm
  <2> QED BY <2>1, <2>2, RanKept
<1>7. ASSUME NEW o \in Ops, Attribute(o)
      PROVE  RanOK'
  <2>1. /\ UNCHANGED <<kind, ent, applied, skipped, made>> /\ o = cur /\ applied[o] > 0 /\ pc' = "look"
    BY <1>7 DEF Attribute, facts, graph, RanOK
  <2>2. CASE AdoptNothing(o)
    <3>1. \A x \in Ops : st'[x] = "done" => st[x] = "done"
      BY <1>0, <2>2 DEF AdoptNothing, FailOp, Settled
    <3> QED BY <1>1, <2>1, <2>2, <3>1 DEF AdoptNothing
  <2>3. CASE Adopt(o) /\ UNCHANGED st
    <3>1. CASE UNCHANGED <<copy, dups>>
      BY <1>1, <2>1, <2>3, <3>1
    <3>2. CASE st[o] = "unknown"
      BY <1>0, <2>3, <3>2 DEF Adopt
    <3> QED BY <2>3, <3>1, <3>2 DEF Adopt
  <2>4. CASE st[o] = "unknown" /\ Adopt(o)
    <3>1. /\ st' = [st EXCEPT ![o] = "done"] /\ copy' = [copy EXCEPT ![ent[o]] = seen]
          /\ dups' = [dups EXCEPT ![o] = @ \ {seen}]
      BY <2>4 DEF Adopt
    <3>2. \A x \in Ops : st'[x] = "done" => st[x] = "done" \/ applied[x] > 0
      BY <1>0, <2>1, <3>1
    <3>3. \A x \in Ops : dups'[x] # {} => dups[x] # {}
      BY <1>0, <3>1
    <3>4. \A x \in Ops : kind[x] = "create" /\ copy'[ent[x]] # 0 => copy[ent[x]] # 0 \/ applied[x] > 0
      <4> SUFFICES ASSUME NEW x \in Ops, kind[x] = "create", copy'[ent[x]] # copy[ent[x]]
                   PROVE  applied[x] > 0
        OBVIOUS
      <4>1. ent[x] = ent[o]
        BY <1>0, <3>1
      <4>2. x = o
        BY <1>7, <2>1, <4>1 DEF BirthOK, Attribute, TurnOK
      <4> QED BY <2>1, <4>2
    <3> QED BY <2>1, <3>1, <3>2, <3>3, <3>4, RanKept
  <2> QED BY <1>7, <2>2, <2>3, <2>4 DEF Attribute, Adopt
<1> QED
  BY <1>2, <1>3, <1>4, <1>5, <1>6, <1>7, RanByExchange, RanBySettle DEF Worker
\* A write is done only when Graph ran it, or is recorded as skipped:
\* however answers are lost, saved or not, and copies attributed.
THEOREM DoneMeansMade == Spec => []DoneWasApplied
<1>1. Init => BirthOK /\ TurnOK /\ RanOK
  <2>1. Init => BirthOK
    BY ConstantsAssumption DEF Init, BirthOK, Entities, Ops, TaskKinds, ListKinds
  <2>2. Init => TurnOK /\ RanOK
    BY ConstantsAssumption DEF Init, TurnOK, RanOK
  <2> QED BY <2>1, <2>2
<1>2. TypeOK /\ TypeOK' /\ Inductive /\ BirthOK /\ TurnOK /\ RanOK /\ [Next]_vars
        => BirthOK' /\ TurnOK' /\ RanOK'
  <2> SUFFICES ASSUME TypeOK, TypeOK', Inductive, BirthOK, TurnOK, RanOK, [Next]_vars
               PROVE  RanOK'
    BY BirthStep, TurnStep
  <2>0. st \in [Ops -> States]
    BY DEF TypeOK, QueueTypes
  <2>1. CASE Around
    <3>1. CASE BackoffEnds
      BY <3>1, RanBeside DEF BackoffEnds, facts, cache, graph
    <3>2. ASSUME NEW o, Prune(o)
          PROVE  RanOK'
      <4>1. \A x \in Ops : st'[x] = "done" => st[x] = "done"
        BY <2>0, <3>2 DEF Prune
      <4> QED BY <3>2, <4>1, RanBeside DEF Prune, facts, cache, graph
    <3>3. ASSUME NEW o \in Ops, NEW k, SyncSees(o, k)
          PROVE  RanOK'
      <4>1. \A x \in Ops : dups'[x] # {} => dups[x] # {} \/ (kind[x] = "create" /\ applied[x] > 0)
        <5>1. applied[o] \in Nat /\ dups \in [Ops -> SUBSET Nat]
          BY DEF TypeOK, GraphTypes, CacheTypes
        <5>2. kind[o] = "create" /\ k \in 1 .. applied[o] /\ dups' = [dups EXCEPT ![o] = @ \cup {k}]
          BY <3>3 DEF SyncSees
        <5>3. applied[o] > 0
          BY <5>1, <5>2
        <5> QED BY <5>1, <5>2, <5>3
      <4> QED BY <3>3, <4>1, RanBeside DEF SyncSees, queue, facts, graph
    <3>4. ASSUME NEW l, PhoneDeletesList(l)
          PROVE  RanOK'
      BY <3>4, RanBeside DEF PhoneDeletesList, queue, facts, cache
    <3>5. ASSUME NEW l, NEW kept, RemoveList(l, kept)
          PROVE  RanOK'
      <4>1. /\ \A x \in Ops : st'[x] = "done" => st[x] = "done"
            /\ \A x \in Ops : dups'[x] # {} => dups[x] # {}
        BY <3>5 DEF RemoveList, Settled
      <4> QED BY <3>5, <4>1, RanBeside DEF RemoveList, facts, graph
    <3> QED BY <2>1, <3>1, <3>2, <3>3, <3>4, <3>5 DEF Around
  <2>2. CASE Crash \/ Start
    <3>1. /\ UNCHANGED <<kind, ent, applied, skipped, copy, dups>> /\ made' \subseteq made
          /\ pc' \in {"down", "top"}
      BY <2>2 DEF Crash, Start, queue, facts, cache, graph
    <3>2. \A x \in Ops : st'[x] = "done" => st[x] = "done"
      BY <2>2 DEF Crash, Start, queue
    <3> QED BY <3>1, <3>2, RanKept
  <2>3. CASE UNCHANGED vars
    BY <2>3, RanBeside DEF vars, queue, facts, cache, graph
  <2> QED BY <2>1, <2>2, <2>3, RanByClient, RanByWorker DEF Next
<1>3. RanOK => DoneWasApplied
  BY DEF RanOK, DoneWasApplied
<1> QED
  BY <1>1, <1>2, <1>3, TypeCorrect, QueueInvariant, PTL DEF Spec

\* The outbox says done of nothing but what Graph made and kept: both facts
\* hold at once, in whatever order the list's deletion, the write, its answer
\* and the record of it come.
THEOREM DoneKept == Spec => []DoneIsMade
BY GhostsSeen, DoneMeansMade, PTL DEF DoneIsMade
-----------------------------------------------------------------------------
(* The order of the queue, as long as SQLite takes the answers.            *)

\* A child write is being sent only while the worker is at it.
ChildOK ==
  \A o \in Ops : kind[o] \in ChildKinds /\ st[o] = "inflight" =>
    pc = "down" \/ (pc \in {"wire", "settle"} /\ o = cur)

LEMMA ChildStep ==
  ASSUME StoreFaults = FALSE, TypeOK, TypeOK', Inductive, BirthOK, TurnOK, ChildOK, [Next]_vars
  PROVE  ChildOK'
<1>0. /\ st \in [Ops -> States] /\ kind \in [Ops -> Kinds \cup {"none"}] /\ todo \subseteq Ops
  BY DEF TypeOK, QueueTypes, WorkerTypes
<1>1. ASSUME UNCHANGED <<kind, pc, cur>>, \A x \in Ops : st'[x] = "inflight" => st[x] = "inflight"
      PROVE  ChildOK'
  BY <1>1 DEF ChildOK
<1>2. ASSUME UNCHANGED kind, pc \notin {"down", "wire", "settle"},
             \A x \in Ops : st'[x] = "inflight" => st[x] = "inflight"
      PROVE  ChildOK'
  BY <1>2 DEF ChildOK
<1>3. CASE Client
  <2>1. ASSUME NEW k \in Kinds, NEW e \in Entities, Plan(k, e)
        PROVE  ChildOK'
    BY <1>1, <2>1 DEF Plan, queue, facts, worker
  <2>2. ASSUME NEW k \in Kinds, NEW e \in Entities, Enqueue(k, e)
        PROVE  ChildOK'
    BY <1>0, <2>2 DEF Enqueue, worker, ChildOK
  <2>3. ASSUME NEW do, NEW o \in Ops, Ask(do, o)
        PROVE  ChildOK'
    BY <1>1, <2>3 DEF Ask, queue, facts, worker
  <2>4. ASSUME NEW o \in Ops, NEW saw \in States, Retry(o, saw) \/ Discard(o, saw)
        PROVE  ChildOK'
    <3>1. \A x \in Ops : st'[x] = "inflight" => st[x] = "inflight"
      BY <1>0, <2>4 DEF Retry, Discard, Settled
    <3> QED BY <1>1, <2>4, <3>1 DEF Retry, Discard, facts, worker
  <2> QED BY <1>3, <2>1, <2>2, <2>3, <2>4 DEF Client
<1>4. CASE Worker
  <2>1. CASE ReadReady \/ EndRound \/ NextRound \/ NothingReady \/ Look \/ Looked
    <3>1. UNCHANGED <<kind, st>> /\ pc \notin {"down", "wire", "settle"}
      BY <2>1 DEF ReadReady, EndRound, NextRound, NothingReady, Look, Looked, queue, facts
    <3> QED BY <1>2, <3>1
  <2>2. ASSUME NEW a, (\E l \in Lists : GetList(l, a)) \/ (\E o \in Ops : LookAt(o, a))
        PROVE  ChildOK'
    <3>1. UNCHANGED <<kind, st>> /\ pc \notin {"down", "wire", "settle"}
      BY <2>2 DEF GetList, LookAt, queue, facts
    <3> QED BY <1>2, <3>1
  <2>3. CASE Claim
    BY <1>0, <2>3 DEF Claim, facts, ChildOK
  <2>4. ASSUME NEW o \in Ops, Exchange(o)
        PROVE  ChildOK'
    BY <2>4 DEF Exchange, Accepted, Refused, LeftAlone, Deferred, Lost, Answers, queue, facts, ChildOK
  <2>5. ASSUME NEW o \in Ops, Settle(o)
        PROVE  ChildOK'
    <3>1. PICK a : Settling(o, a)
      BY <2>5 DEF Settle, RecordCreated, RecordChanged, RecordSent, RecordList, RecordSkipped, Defer,
         Reject, MarkUnknown, NotRecorded
    <3>2. UNCHANGED kind /\ pc = "settle" /\ o = cur
      BY <3>1 DEF Settling, facts
    <3>3. \A x \in Ops : st'[x] = "inflight" => st[x] = "inflight" /\ (x = o => kind[o] = "create")
      <4>1. CASE RecordCreated(o)
        BY <4>1 DEF RecordCreated
      <4>2. CASE RecordChanged(o) \/ RecordList(o) \/ RecordSkipped(o) \/ Defer(o) \/ MarkUnknown(o)
        BY <1>0, <4>2 DEF RecordChanged, RecordList, RecordSkipped, Defer, MarkUnknown
      <4>3. CASE RecordSent(o) \/ Reject(o)
        BY <4>3 DEF RecordSent, MarkDone, Reject, FailOp, Settled
      <4> QED BY <2>5, <4>1, <4>2, <4>3 DEF Settle, NotRecorded
    <3> QED BY <3>2, <3>3 DEF ChildOK, ChildKinds
  <2>6. ASSUME NEW o \in Ops, Confirm(o) \/ Attribute(o)
        PROVE  ChildOK'
    <3>1. UNCHANGED kind /\ pc \notin {"down", "wire", "settle"}
      BY <2>6 DEF Confirm, Attribute, facts
    <3>2. \A x \in Ops : st'[x] = "inflight" => st[x] = "inflight"
      BY <1>0, <2>6 DEF Confirm, MarkDone, FailOp, Settled, Attribute, Adopt, AdoptNothing
    <3> QED BY <1>2, <3>1, <3>2
  <2> QED BY <1>4, <2>1, <2>2, <2>3, <2>4, <2>5, <2>6 DEF Worker
<1>5. CASE Around
  <2>1. UNCHANGED <<kind, pc, cur>>
    BY <1>5 DEF Around, BackoffEnds, Prune, SyncSees, PhoneDeletesList, RemoveList, queue, facts, worker
  <2>2. ASSUME NEW o, Prune(o)
        PROVE  \A x \in Ops : st'[x] = "inflight" => st[x] = "inflight"
    BY <1>0, <2>2 DEF Prune
  <2>3. ASSUME NEW l, NEW kept, RemoveList(l, kept)
        PROVE  \A x \in Ops : st'[x] = "inflight" => st[x] = "inflight"
    BY <2>3 DEF RemoveList, Settled
  <2>4. \A x \in Ops : st'[x] = "inflight" => st[x] = "inflight"
    BY <1>5, <2>2, <2>3 DEF Around, BackoffEnds, SyncSees, PhoneDeletesList, queue
  <2> QED BY <1>1, <2>1, <2>4
<1>6. CASE Crash \/ Start
  BY <1>6 DEF Crash, Start, queue, facts, ChildOK
<1>7. CASE UNCHANGED vars
  BY <1>1, <1>7 DEF vars, queue, facts, worker
<1> QED
  BY <1>3, <1>4, <1>5, <1>6, <1>7 DEF Next

\* Every operation was sent by the user once, by queueing it; one that has
\* waited since then waits first, and what it concerns is queued behind it,
\* or behind a delete that looked past it.
ChosenOK == \A o \in Ops : kind[o] # "none" => chosen[o] >= 1

Passed(o, d) == kind[o] \in ChildKinds /\ kind[d] = "delete" /\ ent[o] = ent[d]

OrderOK ==
  \A o, p \in Ops :
    (o < p /\ p < next /\ Concerns(o, p) /\ chosen[o] = 1 /\ Unresolved(o)) =>
      /\ st[p] # "inflight" /\ applied[p] = 0
      /\ dep[p] \in Ops /\ st[dep[p]] \notin {"done", "pruned"}
      /\ dep[p] = o \/ (o < dep[p] /\ (Concerns(o, dep[p]) \/ Passed(o, dep[p])))

\* How a step may move an operation for OrderOK to hold.  What becomes done
\* was being sent or is attributed, or goes with the delete of its task,
\* and then so do the other child writes before the delete.
Orderly(x) ==
  /\ st'[x] = "inflight" => st[x] = "inflight" \/ Based(x)
  /\ applied'[x] = applied[x] \/ st[x] = "inflight"
  /\ st'[x] = "pruned" => st[x] \in {"done", "pruned"}
  /\ st'[x] = "done" =>
       \/ st[x] = "done"
       \/ st[x] \in {"inflight", "unknown"} /\ kind[x] # "delete"
       \/ \E y \in Ops :
            /\ st[y] = "inflight" /\ kind[y] = "delete"
            /\ x = y \/ (x < y /\ kind[x] \in ChildKinds /\ ent[x] = ent[y])
            /\ \A c \in Ops : c < y /\ kind[c] \in ChildKinds /\ ent[c] = ent[y] => ~Unresolved(c)'

LEMMA OrderKept ==
  ASSUME TypeOK, TypeOK', Inductive, OrderOK, UNCHANGED <<kind, ent, dep, next>>,
         \A o \in Ops : o < next /\ Unresolved(o)' /\ chosen'[o] = 1 => Unresolved(o) /\ chosen[o] = 1,
         \A x \in Ops : Orderly(x)
  PROVE  OrderOK'
<1>0. /\ Ops \subseteq Nat /\ next \in Nat /\ NoOp \notin Ops /\ dep \in [Ops -> Ops \cup {NoOp}]
  BY ConstantsAssumption DEF Ops, NoOp, TypeOK, QueueTypes
<1> SUFFICES ASSUME NEW o \in Ops, NEW p \in Ops, o < p, p < next, Concerns(o, p),
                    chosen'[o] = 1, Unresolved(o)'
             PROVE  /\ st'[p] # "inflight" /\ applied'[p] = 0
                    /\ dep[p] \in Ops /\ st'[dep[p]] \notin {"done", "pruned"}
                    /\ dep[p] = o \/ (o < dep[p] /\ (Concerns(o, dep[p]) \/ Passed(o, dep[p])))
  BY DEF OrderOK, Concerns, Passed
<1>1. Unresolved(o) /\ chosen[o] = 1
  <2>1. o < next
    BY <1>0
  <2> QED BY <2>1
<1>2. ASSUME NEW x \in Ops, o < x, x < next, Concerns(o, x)
      PROVE  st[x] \notin {"inflight", "unknown"} /\ applied[x] = 0 /\ ~Based(x)
  <2>1. st[x] # "inflight" /\ applied[x] = 0 /\ dep[x] \in Ops /\ st[dep[x]] # "done"
    BY <1>1, <1>2 DEF OrderOK
  <2>2. ~Based(x)
    BY <1>0, <2>1 DEF Based
  <2> QED BY <2>1, <2>2 DEF Inductive, DepOK
<1>3. /\ dep[p] \in Ops /\ st[dep[p]] \notin {"done", "pruned"}
      /\ dep[p] = o \/ (o < dep[p] /\ (Concerns(o, dep[p]) \/ Passed(o, dep[p])))
  BY <1>1 DEF OrderOK
<1>4. st'[p] # "inflight" /\ applied'[p] = 0
  BY <1>2 DEF Orderly
<1> DEFINE d == dep[p]
<1>5. d \in Ops /\ d < next
  <2>1. d \in Ops /\ d < p
    BY <1>3 DEF Inductive, DepOK
  <2>2. d \in Nat /\ p \in Nat /\ next \in Nat
    BY <1>0, <2>1
  <2> HIDE DEF d
  <2> QED BY <2>1, <2>2
<1>6. st'[d] # "pruned"
  BY <1>3, <1>5 DEF Orderly
<1>7. ASSUME st'[d] = "done"
      PROVE  FALSE
  <2>1. d # o
    BY <1>7 DEF Unresolved, UnresolvedStates
  <2>2. o < d /\ (Concerns(o, d) \/ Passed(o, d)) /\ st[d] # "done"
    BY <1>3, <2>1
  <2>3. CASE st[d] \in {"inflight", "unknown"} /\ kind[d] # "delete"
    BY <1>2, <1>5, <2>2, <2>3 DEF Passed
  <2>4. ASSUME NEW y \in Ops, st[y] = "inflight", kind[y] = "delete",
               d = y \/ (d < y /\ kind[d] \in ChildKinds /\ ent[d] = ent[y]),
               \A c \in Ops : c < y /\ kind[c] \in ChildKinds /\ ent[c] = ent[y] => ~Unresolved(c)'
        PROVE  FALSE
    <3>1. y < next
      BY <1>0, <2>4 DEF Inductive, DepOK
    <3>2. CASE d = y
      <4>1. Passed(o, d)
        BY <1>2, <1>5, <2>2, <2>4, <3>2
      <4> QED BY <2>2, <2>4, <3>2, <4>1 DEF Passed
    <3>3. CASE d < y /\ kind[d] \in ChildKinds /\ ent[d] = ent[y]
      <4>1. o < y
        <5>1. o \in Nat /\ d \in Nat /\ y \in Nat
          BY <1>0, <1>5
        <5> HIDE DEF d
        <5> QED BY <2>2, <3>3, <5>1
      <4>2. ~Concerns(o, y)
        BY <1>2, <2>4, <3>1, <4>1
      <4>3. Concerns(o, d)
        BY <2>2, <3>3 DEF Passed, ChildKinds
      <4>4. ent[o] = ent[y] /\ kind[o] \in ChildKinds
        BY <2>4, <3>3, <4>2, <4>3 DEF Concerns, TaskKinds
      <4> QED BY <2>4, <4>1, <4>4
    <3> QED BY <2>4, <3>2, <3>3
  <2> QED BY <1>5, <1>7, <2>2, <2>3, <2>4 DEF Orderly
<1> QED
  BY <1>3, <1>4, <1>6, <1>7
\* An operation sent once that is unresolved has been so ever since.
LEMMA SinceQueued ==
  ASSUME TypeOK, TypeOK', Inductive, BirthOK, ChosenOK, Next \/ UNCHANGED vars,
         NEW o \in Ops, o < next, Unresolved(o)', chosen'[o] = 1
  PROVE  Unresolved(o) /\ chosen[o] = 1
<1>0. /\ st \in [Ops -> States] /\ chosen \in [Ops -> Nat] /\ "none" \notin Kinds
      /\ Ops \subseteq Nat /\ next \in Nat
  BY ConstantsAssumption DEF TypeOK, QueueTypes, ClientTypes, TaskKinds, ListKinds, Ops
<1>1. chosen[o] >= 1
  BY <1>0 DEF BirthOK, ChosenOK
<1>2. chosen' = chosen \/ chosen'[o] >= chosen[o]
  <2>1. ASSUME NEW k \in Kinds, NEW e \in Entities, Enqueue(k, e)
        PROVE  chosen'[o] >= chosen[o]
    BY <1>0, <2>1 DEF Enqueue
  <2>2. ASSUME NEW x \in Ops, NEW saw \in States, Retry(x, saw)
        PROVE  chosen'[o] >= chosen[o]
    BY <1>0, <2>2 DEF Retry
  <2>3. ASSUME NEW x \in Ops, NEW saw \in States, Discard(x, saw)
        PROVE  chosen' = chosen
    BY <2>3 DEF Discard
  <2>4. CASE Client
    BY <1>0, <2>1, <2>2, <2>3, <2>4 DEF Client, Plan, Ask
  <2>5. CASE Worker
    BY <2>5 DEF Worker, ReadReady, Claim, EndRound, NextRound, NothingReady, Look, Looked, Exchange,
       Accepted, Refused, LeftAlone, Deferred, Lost, Answers, Settle, RecordCreated, RecordChanged,
       RecordSent, RecordList, RecordSkipped, Defer, Reject, MarkUnknown, NotRecorded, Settling,
       Confirm, Attribute, GetList, LookAt, clients
  <2>6. CASE Around \/ Crash \/ Start \/ UNCHANGED vars
    BY <2>6 DEF Around, BackoffEnds, Prune, SyncSees, PhoneDeletesList, RemoveList, Crash, Start,
       vars, clients
  <2> QED BY <2>4, <2>5, <2>6 DEF Next
<1>3. chosen[o] = 1 /\ chosen'[o] = chosen[o]
  BY <1>0, <1>1, <1>2
<1>4. st[o] # "free"
  BY <1>0 DEF Inductive, DepOK
<1>5. Outcome(o)
  <2>1. CASE UNCHANGED vars
    BY <2>1 DEF vars, queue, Outcome, UnresolvedStates
  <2> QED BY <2>1, OutcomeByNext
<1>6. st[o] \in UnresolvedStates
  BY <1>0, <1>3, <1>4, <1>5 DEF Outcome, Unresolved, UnresolvedStates, States
<1> QED
  BY <1>3, <1>6 DEF Unresolved

\* Queueing an operation, behind every one that it may not overtake.
LEMMA OrderByEnqueue ==
  ASSUME TypeOK, TypeOK', Inductive, BirthOK, OrderOK, NEW k \in Kinds, NEW e \in Entities, Enqueue(k, e)
  PROVE  OrderOK'
<1>0. /\ next \in Ops /\ next \in Nat /\ Ops \subseteq Nat /\ NoOp \notin Ops /\ next' = next + 1
      /\ "none" \notin Kinds /\ Tasks \cap Lists = {}
  BY ConstantsAssumption DEF Enqueue, Ops, NoOp, TypeOK, QueueTypes, TaskKinds, ListKinds
<1>1. /\ st \in [Ops -> States] /\ kind \in [Ops -> Kinds \cup {"none"}]
      /\ ent \in [Ops -> Entities \cup {"none"}] /\ dep \in [Ops -> Ops \cup {NoOp}]
      /\ chosen \in [Ops -> Nat] /\ applied \in [Ops -> Nat]
  BY DEF TypeOK, QueueTypes, ClientTypes, GraphTypes
<1>2. /\ st' = [st EXCEPT ![next] = "pending"] /\ kind' = [kind EXCEPT ![next] = k]
      /\ ent' = [ent EXCEPT ![next] = e] /\ chosen' = [chosen EXCEPT ![next] = 1]
      /\ applied' = applied /\ <<k, e>> \in planned
  BY DEF Enqueue, graph
<1>3. PICK d \in Ops \cup {NoOp} : DependsOn(k, e, d) /\ dep' = [dep EXCEPT ![next] = d]
  BY DEF Enqueue
<1>4. \A x \in Ops : x # next =>
        /\ st'[x] = st[x] /\ kind'[x] = kind[x] /\ ent'[x] = ent[x]
        /\ chosen'[x] = chosen[x] /\ dep'[x] = dep[x]
  BY <1>1, <1>2, <1>3
<1>5. kind'[next] = k /\ ent'[next] = e /\ dep'[next] = d /\ st'[next] = "pending"
  BY <1>0, <1>1, <1>2, <1>3
<1>6. st[next] = "free" /\ applied[next] = 0
  BY <1>0 DEF Inductive, DepOK
<1> SUFFICES ASSUME NEW o \in Ops, NEW p \in Ops, o < p, p < next', Concerns(o, p)',
                    chosen'[o] = 1, Unresolved(o)'
             PROVE  /\ st'[p] # "inflight" /\ applied'[p] = 0
                    /\ dep'[p] \in Ops /\ st'[dep'[p]] \notin {"done", "pruned"}
                    /\ dep'[p] = o \/ (o < dep'[p] /\ (Concerns(o, dep[p])' \/ Passed(o, dep[p])'))
  BY DEF OrderOK, Concerns, Passed
<1>7. o < next /\ o # next /\ (p = next \/ p < next)
  BY <1>0
<1>8. chosen[o] = 1 /\ Unresolved(o)
  BY <1>4, <1>7 DEF Unresolved
<1>9. CASE p < next
  <2>1. p # next
    BY <1>0, <1>9
  <2>2. Concerns(o, p)
    BY <1>4, <1>7, <2>1 DEF Concerns
  <2>3. /\ st[p] # "inflight" /\ applied[p] = 0
        /\ dep[p] \in Ops /\ st[dep[p]] \notin {"done", "pruned"}
        /\ dep[p] = o \/ (o < dep[p] /\ (Concerns(o, dep[p]) \/ Passed(o, dep[p])))
    BY <1>8, <1>9, <2>2 DEF OrderOK
  <2>4. dep[p] # next
    <3>1. dep[p] < p
      BY DEF Inductive, DepOK
    <3> QED BY <1>0, <1>9, <2>3, <3>1
  <2>5. (Concerns(o, dep[p]) => Concerns(o, dep[p])') /\ (Passed(o, dep[p]) => Passed(o, dep[p])')
    <3>1. dep'[p] = dep[p]
      BY <1>4, <2>1
    <3>2. ASSUME NEW x \in Ops, x # next
          PROVE  (Concerns(o, x) => Concerns(o, x)') /\ (Passed(o, x) => Passed(o, x)')
      BY <1>4, <1>7, <3>2 DEF Concerns, Passed
    <3>3. dep[p] \in Ops
      BY <2>3
    <3> QED BY <2>4, <3>1, <3>2, <3>3 DEF Concerns, Passed
  <2> QED BY <1>2, <1>4, <2>1, <2>3, <2>4, <2>5
<1>10. CASE p = next
  <2>1. /\ k \in TaskKinds => e \in Tasks
        /\ kind[o] \in Kinds /\ st[o] \in UnresolvedStates
    BY <1>2, <1>7, <1>8 DEF TypeOK, ClientTypes, Targets, TaskKinds, ListKinds, BirthOK, Unresolved
  <2>2. \/ ent[o] = e /\ (k = "delete" => kind[o] \notin ChildKinds)
        \/ kind[o] = "list_create" /\ k \in TaskKinds /\ ent[o] = Home[e]
    BY <1>4, <1>5, <1>7, <1>10 DEF Concerns
  <2>3. ASSUME d \in Ops, Unresolved(d), d = o \/ (o < d /\ (Concerns(o, d) \/ Passed(o, d)))
        PROVE  /\ st'[p] # "inflight" /\ applied'[p] = 0
               /\ dep'[p] \in Ops /\ st'[dep'[p]] \notin {"done", "pruned"}
               /\ dep'[p] = o \/ (o < dep'[p] /\ (Concerns(o, dep[p])' \/ Passed(o, dep[p])'))
    <3>1. d # next /\ st[d] \notin {"done", "pruned"}
      BY <1>6, <2>3 DEF Unresolved, UnresolvedStates
    <3>2. (Concerns(o, d) => Concerns(o, d)') /\ (Passed(o, d) => Passed(o, d)')
      BY <1>4, <1>7, <2>3, <3>1 DEF Concerns, Passed
    <3> QED BY <1>2, <1>4, <1>5, <1>6, <1>10, <2>3, <3>1, <3>2
  <2>4. ASSUME NEW x \in Ops, Unresolved(x)
        PROVE  kind[x] \in Kinds /\ (ent[x] \in Tasks => kind[x] \in TaskKinds)
    <3>1. kind[x] \in Kinds
      BY <1>0, <2>4 DEF BirthOK, Inductive, DepOK, Unresolved, UnresolvedStates
    <3> QED BY <1>0, <3>1, ConstantsAssumption DEF TypeOK, QueueTypes
  <2>5. CASE Ahead(k, e) # {}
    <3>1. /\ d \in Ops /\ Unresolved(d) /\ ent[d] = e
          /\ \A x \in Ahead(k, e) : x <= d
      BY <1>3, <2>5 DEF DependsOn, Ahead
    <3>2. CASE ent[o] = e /\ (k = "delete" => kind[o] \notin ChildKinds)
      <4>1. o <= d
        BY <1>8, <3>1, <3>2 DEF Ahead
      <4>2. o = d \/ o < d
        BY <1>0, <3>1, <4>1
      <4>3. Concerns(o, d) \/ Passed(o, d)
        BY <3>1, <3>2 DEF Concerns, Passed
      <4> QED BY <2>3, <3>1, <4>2, <4>3
    <3>3. CASE kind[o] = "list_create" /\ k \in TaskKinds /\ ent[o] = Home[e]
      <4>1. kind[d] \in TaskKinds
        BY <2>1, <2>4, <3>1, <3>3
      <4>2. o < d
        BY <3>1, <3>3, <4>1 DEF BirthOK
      <4>3. Concerns(o, d)
        BY <3>1, <3>3, <4>1 DEF Concerns
      <4> QED BY <2>3, <3>1, <4>2, <4>3
    <3> QED BY <2>2, <3>2, <3>3
  <2>6. CASE Ahead(k, e) = {}
    <3>1. kind[o] = "list_create" /\ k \in TaskKinds /\ ent[o] = Home[e]
      BY <1>8, <2>2, <2>6 DEF Ahead
    <3>2. o \in ListCreates(k, e)
      BY <1>8, <3>1 DEF ListCreates
    <3>3. /\ d \in Ops /\ Unresolved(d) /\ ent[d] = Home[e] /\ kind[d] = "list_create" /\ o <= d
      BY <1>3, <2>6, <3>2 DEF DependsOn, ListCreates
    <3>4. o = d \/ o < d
      BY <1>0, <3>3
    <3>5. Concerns(o, d)
      BY <3>1, <3>3 DEF Concerns
    <3> QED BY <2>3, <3>3, <3>4, <3>5
  <2> QED BY <2>5, <2>6
<1> QED
  BY <1>7, <1>9, <1>10

\* The worker's steps are orderly.
LEMMA OrderlyWorker ==
  ASSUME TypeOK, TypeOK', Inductive, TurnOK, ChildOK, Worker
  PROVE  \A x \in Ops : Orderly(x)
<1>0. /\ st \in [Ops -> States] /\ todo \subseteq Ops /\ applied \in [Ops -> Nat]
  BY DEF TypeOK, QueueTypes, WorkerTypes, GraphTypes
<1>1. ASSUME UNCHANGED applied, \A x \in Ops : st'[x] = st[x] \/ st'[x] \in {"pending", "failed", "unknown"}
      PROVE  \A x \in Ops : Orderly(x)
  BY <1>1 DEF Orderly
<1>2. ASSUME UNCHANGED applied, NEW o \in Ops, st[o] \in {"inflight", "unknown"}, kind[o] # "delete",
             \A x \in Ops : st'[x] = st[x] \/ (x = o /\ st'[x] = "done")
      PROVE  \A x \in Ops : Orderly(x)
  BY <1>2 DEF Orderly
<1>3. CASE ReadReady \/ EndRound \/ NextRound \/ NothingReady \/ Look \/ Looked
  BY <1>1, <1>3 DEF ReadReady, EndRound, NextRound, NothingReady, Look, Looked, queue, graph
<1>4. ASSUME NEW a, (\E l \in Lists : GetList(l, a)) \/ (\E o \in Ops : LookAt(o, a))
      PROVE  \A x \in Ops : Orderly(x)
  BY <1>1, <1>4 DEF GetList, LookAt, queue, graph
<1>5. CASE Claim
  <2>1. UNCHANGED applied
    BY <1>5 DEF Claim, graph
  <2>2. \A x \in Ops : st'[x] = st[x] \/ (st'[x] = "inflight" /\ x \in todo /\ st[x] = "pending")
    BY <1>0, <1>5 DEF Claim
  <2>3. \A x \in todo : st[x] = "pending" => Based(x)
    BY <1>5 DEF Claim, Inductive, WorkerOK
  <2> QED BY <2>1, <2>2, <2>3 DEF Orderly
<1>6. ASSUME NEW o \in Ops, Exchange(o)
      PROVE  \A x \in Ops : Orderly(x)
  <2>1. st[o] = "inflight" /\ UNCHANGED st
    BY <1>6 DEF Exchange, Accepted, Refused, LeftAlone, Deferred, Lost, Answers, queue, Inductive, WorkerOK
  <2>2. \A x \in Ops : x # o => applied'[x] = applied[x]
    BY <1>0, <1>6 DEF Exchange, Accepted, Refused, LeftAlone, Deferred, Lost, Runs, graph
  <2> QED BY <2>1, <2>2 DEF Orderly
<1>7. ASSUME NEW o \in Ops, Settle(o)
      PROVE  \A x \in Ops : Orderly(x)
  <2>1. PICK a : Settling(o, a)
    BY <1>7 DEF Settle, RecordCreated, RecordChanged, RecordSent, RecordList, RecordSkipped, Defer,
       Reject, MarkUnknown, NotRecorded
  <2>2. UNCHANGED <<kind, ent, applied>> /\ pc = "settle" /\ o = cur
    BY <2>1 DEF Settling, facts, graph
  <2>3. st[o] = "inflight"
    BY <2>2 DEF Inductive, WorkerOK
  <2>4. CASE RecordChanged(o) \/ RecordList(o) \/ RecordSkipped(o)
    <3>1. kind[o] # "delete"
      BY <2>2, <2>4 DEF RecordChanged, RecordList, RecordSkipped, Settling, TurnOK, ChildKinds, ListKinds
    <3>2. \A x \in Ops : st'[x] = st[x] \/ (x = o /\ st'[x] = "done")
      BY <1>0, <2>4 DEF RecordChanged, RecordList, RecordSkipped
    <3> QED BY <1>2, <2>2, <2>3, <3>1, <3>2
  <2>5. CASE RecordCreated(o) \/ Defer(o) \/ Reject(o) \/ MarkUnknown(o) \/ \E b : NotRecorded(o, b)
    <3>1. \A x \in Ops : st'[x] = st[x] \/ st'[x] \in {"pending", "failed", "unknown"}
      BY <1>0, <2>5 DEF RecordCreated, Defer, Reject, FailOp, Settled, MarkUnknown, NotRecorded
    <3> QED BY <1>1, <2>2, <3>1
  <2>6. CASE RecordSent(o)
    <3>1. \A x \in Ops : st'[x] = IF x = o \/ x \in Moot(o) THEN "done" ELSE st[x]
      BY <2>6 DEF RecordSent, MarkDone, Settled
    <3>2. CASE kind[o] # "delete"
      <4>1. Moot(o) = {}
        BY <3>2 DEF Moot
      <4> QED BY <1>2, <2>2, <2>3, <3>1, <3>2, <4>1
    <3>3. CASE kind[o] = "delete"
      <4>1. \A c \in Ops : c < o /\ kind[c] \in ChildKinds /\ ent[c] = ent[o] => ~Unresolved(c)'
        <5> SUFFICES ASSUME NEW c \in Ops, c < o, kind[c] \in ChildKinds, ent[c] = ent[o]
                     PROVE  st'[c] \notin UnresolvedStates
          BY DEF Unresolved
        <5>1. st[c] # "inflight" \/ c = o
          BY <2>2 DEF ChildOK
        <5>2. kind[c] # "delete"
          BY DEF ChildKinds
        <5>3. NotSent(c) => c \in Moot(o)
          BY <3>3 DEF Moot
        <5> QED BY <3>1, <3>3, <5>1, <5>2, <5>3 DEF NotSent, UnresolvedStates
      <4>2. \A x \in Moot(o) : x < o /\ kind[x] \in ChildKinds /\ ent[x] = ent[o]
        BY DEF Moot
      <4> QED BY <2>2, <2>3, <3>1, <3>3, <4>1, <4>2 DEF Orderly
    <3> QED BY <3>2, <3>3
  <2> QED BY <1>7, <2>4, <2>5, <2>6 DEF Settle
<1>8. ASSUME NEW o \in Ops, Confirm(o)
      PROVE  \A x \in Ops : Orderly(x)
  <2>1. UNCHANGED applied /\ st[o] = "inflight" /\ kind[o] = "create"
    BY <1>8 DEF Confirm, graph, Inductive, WorkerOK, TurnOK
  <2>2. CASE MarkDone(o)
    <3>1. Moot(o) = {}
      BY <2>1 DEF Moot
    <3>2. \A x \in Ops : st'[x] = st[x] \/ (x = o /\ st'[x] = "done")
      BY <2>2, <3>1 DEF MarkDone, Settled
    <3> QED BY <1>2, <2>1, <3>2
  <2>3. CASE FailOp(o) \/ st' = [st EXCEPT ![o] = "unknown"] \/ UNCHANGED st
    <3>1. \A x \in Ops : st'[x] = st[x] \/ st'[x] \in {"pending", "failed", "unknown"}
      BY <1>0, <2>3 DEF FailOp, Settled
    <3> QED BY <1>1, <2>1, <3>1
  <2> QED BY <1>8, <2>2, <2>3 DEF Confirm
<1>9. ASSUME NEW o \in Ops, Attribute(o)
      PROVE  \A x \in Ops : Orderly(x)
  <2>1. UNCHANGED applied /\ kind[o] = "create"
    BY <1>9 DEF Attribute, graph, TurnOK
  <2>2. CASE st[o] = "unknown" /\ Adopt(o)
    <3>1. \A x \in Ops : st'[x] = st[x] \/ (x = o /\ st'[x] = "done")
      BY <1>0, <2>2 DEF Adopt
    <3> QED BY <1>2, <2>1, <2>2, <3>1
  <2>3. CASE UNCHANGED st \/ AdoptNothing(o)
    <3>1. \A x \in Ops : st'[x] = st[x] \/ st'[x] \in {"pending", "failed", "unknown"}
      BY <1>0, <2>3 DEF AdoptNothing, FailOp, Settled
    <3> QED BY <1>1, <2>1, <3>1
  <2> QED BY <1>9, <2>2, <2>3 DEF Attribute, Adopt
<1> QED
  BY <1>3, <1>4, <1>5, <1>6, <1>7, <1>8, <1>9 DEF Worker

\* The writes of a task or a list, and a new list's before its tasks', reach
\* Graph in queue order, for as long as SQLite takes every answer: one that
\* it doesn't take leaves a child write inflight, and a delete looks past it.
THEOREM QueueOrderKept ==
  ASSUME StoreFaults = FALSE
  PROVE  Spec => []InQueueOrder
<1>1. Init => BirthOK /\ TurnOK /\ ChildOK /\ ChosenOK /\ OrderOK
  <2>1. Init => BirthOK
    BY ConstantsAssumption DEF Init, BirthOK, Entities, Ops, TaskKinds, ListKinds
  <2>2. Init => TurnOK /\ ChildOK /\ ChosenOK
    BY ConstantsAssumption DEF Init, TurnOK, ChildOK, ChosenOK, ChildKinds
  <2>3. Init => OrderOK
    BY DEF Init, OrderOK, Unresolved, UnresolvedStates
  <2> QED BY <2>1, <2>2, <2>3
<1>2. TypeOK /\ TypeOK' /\ Inductive /\ BirthOK /\ TurnOK /\ ChildOK /\ ChosenOK /\ OrderOK /\ [Next]_vars
        => BirthOK' /\ TurnOK' /\ ChildOK' /\ ChosenOK' /\ OrderOK'
  <2> SUFFICES ASSUME TypeOK, TypeOK', Inductive, BirthOK, TurnOK, ChildOK, ChosenOK, OrderOK, [Next]_vars
               PROVE  ChosenOK' /\ OrderOK'
    BY BirthStep, TurnStep, ChildStep
  <2>0. st \in [Ops -> States] /\ chosen \in [Ops -> Nat] /\ kind \in [Ops -> Kinds \cup {"none"}]
    BY DEF TypeOK, QueueTypes, ClientTypes
  <2>1. CASE \E k \in Kinds, e \in Entities : Enqueue(k, e)
    <3>1. ChosenOK'
      BY <2>0, <2>1 DEF Enqueue, ChosenOK
    <3> QED BY <2>1, <3>1, OrderByEnqueue
  <2>2. ASSUME UNCHANGED <<kind, ent, dep, next>>, \A x \in Ops : chosen'[x] >= chosen[x],
               \A x \in Ops : Orderly(x)
        PROVE  ChosenOK' /\ OrderOK'
    <3>1. ChosenOK'
      <4>1. chosen' \in [Ops -> Nat]
        BY DEF TypeOK, ClientTypes
      <4> SUFFICES ASSUME NEW x \in Ops, kind[x] # "none"
                   PROVE  chosen'[x] >= 1
        BY <2>2 DEF ChosenOK
      <4>2. chosen[x] >= 1 /\ chosen'[x] >= chosen[x] /\ chosen[x] \in Nat /\ chosen'[x] \in Nat
        BY <2>0, <2>2, <4>1 DEF ChosenOK
      <4> QED BY <4>2
    <3>2. \A o \in Ops : o < next /\ Unresolved(o)' /\ chosen'[o] = 1 => Unresolved(o) /\ chosen[o] = 1
      BY SinceQueued
    <3> QED BY <2>2, <3>1, <3>2, OrderKept
  <2>3. ASSUME UNCHANGED <<kind, ent, dep, next, applied>>, \A x \in Ops : chosen'[x] >= chosen[x],
               \A x \in Ops : st'[x] = st[x] \/ st'[x] \in {"pending", "failed", "dropped", "unknown"}
        PROVE  ChosenOK' /\ OrderOK'
    BY <2>2, <2>3 DEF Orderly
  <2>4. UNCHANGED chosen => \A x \in Ops : chosen'[x] >= chosen[x]
    BY <2>0
  <2>5. ASSUME NEW k \in Kinds, NEW e \in Entities, Plan(k, e)
        PROVE  ChosenOK' /\ OrderOK'
    BY <2>3, <2>4, <2>5 DEF Plan, queue, facts, graph
  <2>6. ASSUME NEW do, NEW o \in Ops, Ask(do, o)
        PROVE  ChosenOK' /\ OrderOK'
    BY <2>3, <2>4, <2>6 DEF Ask, queue, facts, graph
  <2>7. ASSUME NEW o \in Ops, NEW saw \in States, Retry(o, saw)
        PROVE  ChosenOK' /\ OrderOK'
    <3>1. /\ \A x \in Ops : chosen'[x] >= chosen[x]
          /\ \A x \in Ops : st'[x] = st[x] \/ st'[x] \in {"pending", "failed", "dropped", "unknown"}
      BY <2>0, <2>7 DEF Retry
    <3> QED BY <2>3, <2>7, <3>1 DEF Retry, facts, graph
  <2>8. ASSUME NEW o \in Ops, NEW saw \in States, Discard(o, saw)
        PROVE  ChosenOK' /\ OrderOK'
    <3>1. \A x \in Ops : st'[x] = st[x] \/ st'[x] \in {"pending", "failed", "dropped", "unknown"}
      BY <2>0, <2>8 DEF Discard, Settled
    <3> QED BY <2>3, <2>4, <2>8, <3>1 DEF Discard, facts, graph
  <2>9. CASE Worker
    <3>1. UNCHANGED <<kind, ent, dep, next, chosen>>
      BY <2>9 DEF Worker, ReadReady, Claim, EndRound, NextRound, NothingReady, Look, Looked, Exchange,
         Accepted, Refused, LeftAlone, Deferred, Lost, Answers, Settle, RecordCreated, RecordChanged,
         RecordSent, RecordList, RecordSkipped, Defer, Reject, MarkUnknown, NotRecorded, Settling,
         Confirm, Attribute, GetList, LookAt, queue, facts, clients
    <3> QED BY <2>2, <2>4, <2>9, <3>1, OrderlyWorker
  <2>10. CASE Around
    <3>1. UNCHANGED <<kind, ent, dep, next, chosen, applied>>
      BY <2>10 DEF Around, BackoffEnds, Prune, SyncSees, PhoneDeletesList, RemoveList, queue, facts,
         clients, graph
    <3>2. ASSUME NEW o, Prune(o)
          PROVE  \A x \in Ops : Orderly(x)
      BY <2>0, <3>1, <3>2 DEF Prune, Orderly
    <3>3. ASSUME NEW l, NEW kept, RemoveList(l, kept)
          PROVE  \A x \in Ops : Orderly(x)
      BY <3>1, <3>3 DEF RemoveList, Settled, Orderly
    <3>4. CASE UNCHANGED st
      BY <2>3, <2>4, <3>1, <3>4
    <3> QED BY <2>2, <2>4, <2>10, <3>1, <3>2, <3>3, <3>4
      DEF Around, BackoffEnds, SyncSees, PhoneDeletesList, queue
  <2>11. CASE Crash \/ Start \/ UNCHANGED vars
    <3>1. UNCHANGED <<kind, ent, dep, next, chosen, applied>>
      BY <2>11 DEF Crash, Start, vars, queue, facts, clients, graph
    <3>2. \A x \in Ops : st'[x] = st[x] \/ st'[x] \in {"pending", "failed", "dropped", "unknown"}
      BY <2>11 DEF Crash, Start, vars, queue
    <3> QED BY <2>3, <2>4, <3>1, <3>2
  <2> QED BY <2>1, <2>5, <2>6, <2>7, <2>8, <2>9, <2>10, <2>11 DEF Next, Client
<1>3. OrderOK => InQueueOrder
  <2> SUFFICES ASSUME OrderOK, NEW o \in Ops, NEW p \in Ops, o < p, p < next, Concerns(o, p),
                      chosen[o] = 1, st[p] = "inflight" \/ applied[p] > 0, Unresolved(o)
               PROVE  FALSE
    BY DEF InQueueOrder
  <2>1. st[p] # "inflight" /\ applied[p] = 0
    BY DEF OrderOK
  <2> QED BY <2>1
<1> QED
  BY <1>1, <1>2, <1>3, TypeCorrect, QueueInvariant, PTL DEF Spec
=============================================================================
