------------------------------- MODULE Outbox -------------------------------
(***************************************************************************)
(* The outbox of the ms-todo daemon: the queue of writes kept in SQLite,   *)
(* the worker that sends them to Microsoft Graph one at a time, and the    *)
(* clients that queue, retry and discard them meanwhile.                   *)
(*                                                                         *)
(* One write is one operation.  A task or a list is an entity with a row   *)
(* in the cache.  What an operation writes (titles, dates, steps) is left  *)
(* out: only whether the entity's row is live or tombstoned is kept, and   *)
(* how often Graph ran the operation.  A step of the model is one SQLite   *)
(* transaction, one statement outside any, or one exchange with Graph.     *)
(***************************************************************************)
EXTENDS Integers, FiniteSets

CONSTANTS
  Tasks,        \* tasks the clients may name, local IDs
  Lists,        \* lists, local IDs
  Home,         \* the list each task is in
  Born,         \* entities Graph and the cache hold at the start
  Kinds,        \* the kinds of operation the clients use
  MaxOps,       \* bound: operations ever queued
  MaxClients,   \* bound: requests between their reads and their transaction
  MaxChosen,    \* bound: times the user may have an operation sent
  Events,       \* what users, time and the phone may do besides: see below
  MaxCrashes,   \* bound: times the daemon stops without warning
  StoreFaults   \* whether a write of an answer to SQLite may fail

TaskKinds  == {"create", "update", "delete", "task_extension", "child_create", "child_change"}
ListKinds  == {"list_create", "list_update", "list_delete", "extension"}
ChildKinds == {"child_create", "child_change"}

\* The requests Graph may run twice if they are sent twice: a lost answer
\* to one leaves its outcome unknown.
OnceKinds  == {"create", "child_create", "list_create"}

Entities == Tasks \cup Lists

\* The writes clients may ask for: a kind, and an entity it is made on.
Targets == ((Kinds \cap TaskKinds) \X Tasks) \cup ((Kinds \cap ListKinds) \X Lists)

ASSUME ConstantsAssumption ==
  /\ Tasks \cap Lists = {}
  /\ Home \in [Tasks -> Lists]
  /\ Born \subseteq Entities
  /\ \A t \in Tasks : t \in Born => Home[t] \in Born
  /\ Kinds \subseteq TaskKinds \cup ListKinds
  /\ MaxOps \in Nat /\ MaxClients \in Nat /\ MaxChosen \in Nat /\ MaxCrashes \in Nat
  /\ StoreFaults \in BOOLEAN
  /\ Events \subseteq {"retry", "discard", "prune", "phone"}

Ops   == 1 .. MaxOps
NoOp  == 0

\* A free operation has not been queued yet; one dropped or pruned has had
\* its row deleted, by the user or with age.
States == {"free", "pending", "inflight", "unknown", "failed", "done", "dropped", "pruned"}
UnresolvedStates == {"pending", "inflight", "unknown"}
GoneStates       == {"free", "dropped", "pruned"}

VARIABLES
  st,       \* the state of each operation
  kind,     \* its kind, entity and dependency, once it is queued
  ent,
  dep,
  back,     \* the tasks its list delete tombstoned: what its rollback names
  next,     \* the next operation to be queued; operations are in queue order
  held,     \* the operations whose next_attempt_at is in the future
  skipped,  \* the operations done without being sent
  row,      \* each entity's row: absent, live or tombstoned ("gone")
  listed,   \* the lists whose row has a Graph ID
  copy,     \* which of its creates' copies a task's row names, 0 for none
  dups      \* the other copies of a create's task that sync has cached

VARIABLES
  applied,  \* how often Graph ran a once-only operation, or whether it ran another
  ghost,    \* the creates Graph answered 201 for in a list already deleted
  dead      \* the lists Graph has deleted

VARIABLES
  pc,       \* where the worker is
  todo,     \* the operations it has read and has still to take up
  cur,      \* the one it is at
  answer,   \* what Graph answered
  seen,     \* the copy found for an unknown create
  made,     \* the creates of this round with a 201, list not confirmed yet
  deferred, \* whether this round ended in a temporary failure
  planned,  \* the writes clients have checked and not queued yet
  asked,    \* the retries and discards that have read their operation
  chosen,   \* how often the user has had each operation sent
  crashes

facts   == <<kind, ent, dep, back, next>>
queue   == <<st, facts, held, skipped>>
cache   == <<row, listed, copy, dups>>
graph   == <<applied, ghost, dead>>
worker  == <<pc, todo, cur, answer, seen, made, deferred>>
clients == <<planned, asked, chosen>>
vars    == <<queue, cache, graph, worker, clients, crashes>>

-----------------------------------------------------------------------------
(* What the store's queries ask of the queue.                              *)

Unresolved(o) == st[o] \in UnresolvedStates

\* The list an operation is filed under.
ListOf(o) == IF kind[o] \in TaskKinds THEN Home[ent[o]] ELSE ent[o]

TasksIn(l) == {t \in Tasks : Home[t] = l}

\* Variants like ReadyTooSoon are what a mistake in the code would make of
\* the definition that follows; no action uses them.
ReadyTooSoon(o) ==
  /\ st[o] = "pending"
  /\ o \notin held
  /\ dep[o] # NoOp => st[dep[o]] # "pending"

Ready(o) ==
  /\ st[o] = "pending"
  /\ o \notin held
  /\ dep[o] # NoOp => st[dep[o]] = "done"

AheadNoChild(k, e) == {o \in Ops : ent[o] = e /\ Unresolved(o) /\ kind[o] \notin ChildKinds}

\* The operations an operation on e of kind k has to wait for: the latest
\* unresolved one on e, where a task's delete looks past child writes, else
\* the create of the task's list.
Ahead(k, e) ==
  {o \in Ops : ent[o] = e /\ Unresolved(o) /\ (k = "delete" => kind[o] \notin ChildKinds)}
ListCreates(k, e) ==
  {o \in Ops : k \in TaskKinds /\ kind[o] = "list_create" /\ Unresolved(o) /\ ent[o] = Home[e]}

DependsOn(k, e, d) ==
  LET waits == IF Ahead(k, e) # {} THEN Ahead(k, e) ELSE ListCreates(k, e)
  IN  IF waits = {} THEN d = NoOp ELSE d \in waits /\ \A o \in waits : o <= d

\* Every operation that waits on one of roots, directly or through another:
\* the least set closed under depends_on.
Waiting(roots) ==
  {w \in Ops : \A S \in SUBSET Ops :
     (\A x \in Ops : (st[x] \notin GoneStates /\ dep[x] \in roots \cup S) => x \in S) => w \in S}

NotSent(o) == st[o] \in {"pending", "unknown"}

CascadedOnce(roots) == {w \in Ops : NotSent(w) /\ dep[w] \in roots}

\* The operations that fail with roots.
Cascaded(roots) == {w \in Waiting(roots) : NotSent(w)}

-----------------------------------------------------------------------------
(* The row changes operations make and take back.                          *)

WithRow(e, r) == [row EXCEPT ![e] = r]

\* A list goes, and its live tasks with it.
TombstoneList(l) ==
  [e \in Entities |-> IF e = l \/ (e \in TasksIn(l) /\ row[e] = "live") THEN "gone" ELSE row[e]]

\* What queueing an operation does to the cache at once.
LocalChange(k, e) ==
  IF k \in {"create", "list_create", "update"} \cup ChildKinds THEN WithRow(e, "live")
  ELSE IF k = "delete" THEN WithRow(e, "gone")
  ELSE IF k = "list_delete" THEN TombstoneList(e)
  ELSE row

\* Taking it back.  A list delete brings back the tasks it took; a child
\* write on a tombstoned task leaves it so.
UndoLocal(o) ==
  IF kind[o] = "create" THEN WithRow(ent[o], "gone")
  ELSE IF kind[o] = "list_create" THEN TombstoneList(ent[o])
  ELSE IF kind[o] \in {"update", "delete", "list_update"} THEN WithRow(ent[o], "live")
  ELSE IF kind[o] = "list_delete" THEN
    [e \in Entities |-> IF e = ent[o] \/ e \in back[o] THEN "live" ELSE row[e]]
  ELSE row

\* Making a failed operation's change again, for a retry.
RedoLocal(o) ==
  IF kind[o] \in {"create", "update"} THEN WithRow(ent[o], "live")
  ELSE IF kind[o] = "delete" THEN WithRow(ent[o], "gone")
  ELSE row

\* Graph's copy of the task is written to its row, live unless a later
\* delete is still to be sent.
Record(o) ==
  WithRow(ent[o],
    IF \E x \in Ops : x > o /\ ent[x] = ent[o] /\ kind[x] = "delete" /\ Unresolved(x)
    THEN "gone" ELSE "live")

Settled(ops, s) == [o \in Ops |-> IF o \in ops THEN s ELSE st[o]]

\* Graph refused o for good, or its list is gone: it fails, with all that
\* waits on it, and its local change is taken back.
FailOp(o) ==
  /\ st'  = Settled({o} \cup Cascaded({o}), "failed")
  /\ row' = UndoLocal(o)

-----------------------------------------------------------------------------
(* Clients.  A handler reads the cache or the outbox, then acts on what it *)
(* read in one transaction; anything may happen in between.                *)

Init ==
  /\ st      = [o \in Ops |-> "free"]
  /\ kind    = [o \in Ops |-> "none"]
  /\ ent     = [o \in Ops |-> "none"]
  /\ dep     = [o \in Ops |-> NoOp]
  /\ back    = [o \in Ops |-> {}]
  /\ next    = 1
  /\ held    = {}
  /\ skipped = {}
  /\ row     = [e \in Entities |-> IF e \in Born THEN "live" ELSE "absent"]
  /\ listed  = Lists \cap Born
  /\ copy    = [t \in Tasks |-> IF t \in Born THEN 1 ELSE 0]
  /\ dups    = [o \in Ops |-> {}]
  /\ applied = [o \in Ops |-> 0]
  /\ ghost   = {}
  /\ dead    = {}
  /\ pc      = "top"
  /\ todo    = {}
  /\ cur     = NoOp
  /\ answer  = "none"
  /\ seen    = 0
  /\ made    = {}
  /\ deferred = FALSE
  /\ planned = {}
  /\ asked   = {}
  /\ chosen  = [o \in Ops |-> 0]
  /\ crashes = 0

Serving == pc # "down" /\ Cardinality(planned) + Cardinality(asked) < MaxClients

\* A write is checked against the cache: its task and list are live, or its
\* ID is a fresh one; a list is deleted only while nothing is queued on its
\* tasks.
Plan(k, e) ==
  /\ Serving
  /\ <<k, e>> \in Targets \ planned
  /\ row[e] = IF k \in {"create", "list_create"} THEN "absent" ELSE "live"
  /\ k \in TaskKinds => row[Home[e]] = "live"
  /\ k = "list_delete" => \A o \in Ops : Unresolved(o) => ent[o] \notin TasksIn(e)
  /\ planned' = planned \cup {<<k, e>>}
  /\ UNCHANGED <<queue, cache, graph, worker, asked, chosen, crashes>>

\* The write is queued and its local change made, in one transaction.
Enqueue(k, e) ==
  /\ pc # "down"
  /\ <<k, e>> \in planned
  /\ planned' = planned \ {<<k, e>>}
  /\ next <= MaxOps
  /\ \E d \in Ops \cup {NoOp} :
       /\ DependsOn(k, e, d)
       /\ dep' = [dep EXCEPT ![next] = d]
  /\ next'   = next + 1
  /\ st'     = [st EXCEPT ![next] = "pending"]
  /\ kind'   = [kind EXCEPT ![next] = k]
  /\ ent'    = [ent EXCEPT ![next] = e]
  /\ back'   = [back EXCEPT ![next] =
                  IF k = "list_delete" THEN {t \in TasksIn(e) : row[t] = "live"} ELSE {}]
  /\ row'    = LocalChange(k, e)
  /\ chosen' = [chosen EXCEPT ![next] = 1]
  /\ UNCHANGED <<held, skipped, listed, copy, dups, graph, worker, asked, crashes>>

\* A retry or a discard reads its operation.  One whose dependency isn't
\* done can't be sent on its own, and a list's failed create, rename or
\* delete is done again rather than retried.
Ask(do, o) ==
  /\ Serving
  /\ do \in Events
  /\ \A a \in asked : a[2] # o
  /\ \/ /\ do = "retry"
        /\ st[o] \in {"unknown", "failed"}
        /\ chosen[o] < MaxChosen
        /\ dep[o] # NoOp => st[dep[o]] = "done"
        /\ st[o] = "failed" => kind[o] \notin ListKinds \ {"extension"}
        /\ kind[o] = "extension" => st[o] = "unknown" \/ row[ent[o]] = "live"
     \/ /\ do = "discard"
        /\ st[o] \in {"pending", "unknown", "failed"}
  /\ asked' = asked \cup {<<do, o, st[o]>>}
  /\ UNCHANGED <<queue, cache, graph, worker, planned, chosen, crashes>>

RetryAnyway(o, saw) ==
  /\ pc # "down"
  /\ <<"retry", o, saw>> \in asked
  /\ asked'  = asked \ {<<"retry", o, saw>>}
  /\ st'     = [st EXCEPT ![o] = "pending"]
  /\ held'   = held \ {o}
  /\ row'    = IF saw = "failed" THEN RedoLocal(o) ELSE row
  /\ chosen' = [chosen EXCEPT ![o] = @ + 1]
  /\ UNCHANGED <<facts, skipped, listed, copy, dups, graph, worker, planned, crashes>>

\* The operation is queued again, due now, if its state is the one read.
Retry(o, saw) ==
  /\ pc # "down"
  /\ <<"retry", o, saw>> \in asked
  /\ asked' = asked \ {<<"retry", o, saw>>}
  /\ IF st[o] = saw
     THEN /\ st'     = [st EXCEPT ![o] = "pending"]
          /\ held'   = held \ {o}
          /\ row'    = IF saw = "failed" THEN RedoLocal(o) ELSE row
          /\ chosen' = [chosen EXCEPT ![o] = @ + 1]
     ELSE UNCHANGED <<st, held, row, chosen>>
  /\ UNCHANGED <<facts, skipped, listed, copy, dups, graph, worker,
                 planned, crashes>>

\* The operation is deleted, if its state is the one read, with the local
\* change of one that wasn't sent, and all that waits on it fails.
Discard(o, saw) ==
  /\ pc # "down"
  /\ <<"discard", o, saw>> \in asked
  /\ asked' = asked \ {<<"discard", o, saw>>}
  /\ IF st[o] = saw
     THEN /\ st'  = [Settled(Cascaded({o}), "failed") EXCEPT ![o] = "dropped"]
          /\ row' = IF saw = "pending" \/ (saw = "unknown" /\ kind[o] \in OnceKinds)
                    THEN UndoLocal(o) ELSE row
     ELSE UNCHANGED <<st, row>>
  /\ UNCHANGED <<facts, held, skipped, listed, copy, dups, graph, worker,
                 planned, chosen, crashes>>

-----------------------------------------------------------------------------
(* The worker: rounds of the operations that are ready.                    *)

ReadReady ==
  /\ pc = "top"
  /\ {o \in Ops : Ready(o)} # {}
  /\ todo'     = {o \in Ops : Ready(o)}
  /\ made'     = {}
  /\ deferred' = FALSE
  /\ pc'       = "round"
  /\ UNCHANGED <<queue, cache, graph, seen, cur, answer, clients, crashes>>

\* The next operation read is claimed, unless a client has moved it.
Claim ==
  /\ pc = "round"
  /\ \E o \in todo :
       /\ \A x \in todo : o <= x
       /\ todo' = todo \ {o}
       /\ IF st[o] = "pending"
          THEN st' = [st EXCEPT ![o] = "inflight"] /\ cur' = o /\ pc' = "wire"
          ELSE UNCHANGED <<st, cur, pc>>
  /\ UNCHANGED <<facts, held, skipped, cache, graph, seen, answer, made,
                 deferred, clients, crashes>>

\* What the worker checks in the cache before it sends o.
Sendable(o) ==
  /\ kind[o] # "list_create" => ListOf(o) \in listed
  /\ kind[o] \in TaskKinds \cup {"extension"} => row[ListOf(o)] = "live"
  /\ kind[o] \in TaskKinds \ {"create"} => copy[ent[o]] # 0

\* Graph runs o.  A POST into a list deleted meanwhile is still taken, and
\* a delete of what is gone counts as made.
Runs(o) ==
  /\ kind[o] \in {"update", "task_extension", "extension", "list_update"} \cup ChildKinds
       => ListOf(o) \notin dead
  /\ applied' = [applied EXCEPT ![o] = IF kind[o] \in OnceKinds THEN @ + 1 ELSE 1]
  /\ ghost'   = IF kind[o] = "create" /\ Home[ent[o]] \in dead THEN ghost \cup {o} ELSE ghost
  /\ dead'    = IF kind[o] = "list_delete" THEN dead \cup {ent[o]} ELSE dead

Answers(o, a) ==
  /\ answer' = a
  /\ pc'     = "settle"
  /\ UNCHANGED <<queue, cache, seen, todo, cur, made, deferred, clients, crashes>>

Accepted(o) == Sendable(o) /\ Runs(o) /\ Answers(o, "ok")

\* Not sent, refused by Graph, or in conflict with another device's edit.
Refused(o) == Answers(o, "rejected") /\ UNCHANGED graph

\* Left alone: the value the write was planned from has moved.
LeftAlone(o) ==
  Sendable(o) /\ kind[o] \in {"update", "task_extension"} /\ Answers(o, "skipped") /\ UNCHANGED graph

DeferredAlways(o) ==
  /\ Sendable(o)
  /\ UNCHANGED graph \/ Runs(o)
  /\ Answers(o, "temporary")

\* No answer that settles it.  A request safe to resend may have been run;
\* one that isn't was surely not run, or its outcome is unknown.
Deferred(o) ==
  /\ Sendable(o)
  /\ UNCHANGED graph \/ (kind[o] \notin OnceKinds /\ Runs(o))
  /\ Answers(o, "temporary")

Lost(o) ==
  /\ Sendable(o)
  /\ kind[o] \in OnceKinds
  /\ UNCHANGED graph \/ Runs(o)
  /\ Answers(o, "unknown")

-----------------------------------------------------------------------------
(* Recording an answer, in one transaction each.                           *)

Settling(o, a) ==
  /\ pc = "settle" /\ o = cur /\ answer = a
  /\ pc' = "round"
  /\ cur' = NoOp
  /\ answer' = "none"
  /\ UNCHANGED <<facts, graph, seen, clients, crashes>>

RecordCreatedDone(o) ==
  /\ Settling(o, "ok")
  /\ kind[o] = "create"
  /\ st'   = [st EXCEPT ![o] = "done"]
  /\ row'  = Record(o)
  /\ copy' = [copy EXCEPT ![ent[o]] = applied[o]]
  /\ dups' = [dups EXCEPT ![o] = @ \ {applied[o]}]
  /\ UNCHANGED <<held, skipped, listed, todo, made, deferred>>

\* A 201: the task takes Graph's ID, and the create waits for its list to
\* be confirmed live.
RecordCreated(o) ==
  /\ Settling(o, "ok")
  /\ kind[o] = "create"
  /\ row'  = Record(o)
  /\ copy' = [copy EXCEPT ![ent[o]] = applied[o]]
  /\ dups' = [dups EXCEPT ![o] = @ \ {applied[o]}]
  /\ made' = made \cup {o}
  /\ UNCHANGED <<st, held, skipped, listed, todo, deferred>>

\* Graph answered with the task.  A child create whose task couldn't be
\* read back replaces its placeholder in the row instead.
RecordChanged(o) ==
  /\ Settling(o, "ok")
  /\ kind[o] \in {"update", "task_extension"} \cup ChildKinds
  /\ st'  = [st EXCEPT ![o] = "done"]
  /\ \/ row' = Record(o)
     \/ kind[o] = "child_create" /\ row' = WithRow(ent[o], "live")
  /\ UNCHANGED <<held, skipped, listed, copy, dups, todo, made, deferred>>

\* Done without touching the row: a delete, or a child write whose task
\* couldn't be read back.  A delete takes its task's earlier child writes
\* with it.
Moot(o) ==
  {c \in Ops : /\ kind[o] = "delete" /\ c < o
               /\ kind[c] \in ChildKinds /\ ent[c] = ent[o] /\ NotSent(c)}

MarkDone(o) ==
  /\ st'      = Settled({o} \cup Moot(o), "done")
  /\ skipped' = skipped \cup Moot(o)

RecordSent(o) ==
  /\ Settling(o, "ok")
  /\ kind[o] \in {"delete", "child_change"}
  /\ MarkDone(o)
  /\ UNCHANGED <<held, cache, todo, made, deferred>>

RecordList(o) ==
  /\ Settling(o, "ok")
  /\ kind[o] \in ListKinds
  /\ st'     = [st EXCEPT ![o] = "done"]
  /\ listed' = IF kind[o] = "list_create" THEN listed \cup {ent[o]} ELSE listed
  /\ row'    = IF kind[o] = "list_delete" THEN TombstoneList(ent[o]) ELSE row
  /\ UNCHANGED <<held, skipped, copy, dups, todo, made, deferred>>

RecordSkipped(o) ==
  /\ Settling(o, "skipped")
  /\ st'      = [st EXCEPT ![o] = "done"]
  /\ skipped' = skipped \cup {o}
  /\ row'     = Record(o)
  /\ UNCHANGED <<held, listed, copy, dups, todo, made, deferred>>

\* Back to pending; nothing at all is sent until the backoff is over.
Defer(o) ==
  /\ Settling(o, "temporary")
  /\ st'       = [st EXCEPT ![o] = "pending"]
  /\ held'     = {x \in Ops : x = o \/ st[x] = "pending"}
  /\ deferred' = TRUE
  /\ todo'     = {}
  /\ UNCHANGED <<skipped, cache, made>>

Reject(o) ==
  /\ Settling(o, "rejected")
  /\ FailOp(o)
  /\ UNCHANGED <<held, skipped, listed, copy, dups, todo, made, deferred>>

MarkUnknownDone(o) ==
  /\ Settling(o, "unknown")
  /\ st' = [st EXCEPT ![o] = "done"]
  /\ UNCHANGED <<held, skipped, cache, todo, made, deferred>>

MarkUnknown(o) ==
  /\ Settling(o, "unknown")
  /\ st' = [st EXCEPT ![o] = "unknown"]
  /\ UNCHANGED <<held, skipped, cache, todo, made, deferred>>

\* SQLite can't take the answer.  A write Graph made becomes unknown, if at
\* least that can be written; otherwise it stays inflight until a restart.
NotRecorded(o, a) ==
  /\ StoreFaults
  /\ Settling(o, a)
  /\ \/ UNCHANGED st
     \/ /\ a \in {"ok", "skipped"}
        /\ kind[o] \notin {"delete", "list_delete", "extension"}
        /\ st' = [st EXCEPT ![o] = "unknown"]
  /\ deferred' = (deferred \/ a = "temporary")
  /\ todo'     = IF a = "temporary" THEN {} ELSE todo
  /\ UNCHANGED <<held, skipped, cache, made>>

Settle(o) ==
  \/ RecordCreated(o) \/ RecordChanged(o) \/ RecordSent(o) \/ RecordList(o) \/ RecordSkipped(o)
  \/ Defer(o) \/ Reject(o) \/ MarkUnknown(o)
  \/ \E a \in {"ok", "skipped", "temporary", "rejected", "unknown"} : NotRecorded(o, a)

\* The round is over: each list with a 201 is asked for once.
EndRound ==
  /\ pc = "round"
  /\ todo = {}
  /\ pc' = "confirm"
  /\ UNCHANGED <<queue, cache, graph, seen, todo, cur, answer, made, deferred, clients, crashes>>

ListAnswer(l, a) == a = "error" \/ a = IF l \in dead THEN "gone" ELSE "live"

GetList(l, a) ==
  /\ pc = "confirm"
  /\ todo' = {o \in made : Home[ent[o]] = l}
  /\ todo' # {}
  /\ made' = made \ todo'
  /\ ListAnswer(l, a)
  /\ answer' = a
  /\ pc'     = "confirming"
  /\ UNCHANGED <<queue, cache, graph, seen, cur, deferred, clients, crashes>>

\* The ghost-write check: a create is done once its list is seen live after
\* the 201, failed if the list is gone, unknown if nobody can tell.
Confirm(o) ==
  /\ pc = "confirming"
  /\ o \in todo
  /\ todo' = todo \ {o}
  /\ IF todo' = {} THEN pc' = "confirm" /\ answer' = "none" ELSE UNCHANGED <<pc, answer>>
  /\ \/ answer = "live"  /\ MarkDone(o) /\ UNCHANGED row
     \/ answer = "gone"  /\ FailOp(o) /\ UNCHANGED skipped
     \/ answer = "error" /\ st' = [st EXCEPT ![o] = "unknown"] /\ UNCHANGED <<row, skipped>>
     \/ StoreFaults /\ UNCHANGED <<st, row, skipped>>
  /\ UNCHANGED <<facts, held, listed, copy, dups, graph, seen, cur, made,
                 deferred, clients, crashes>>

\* A round that was deferred ends the sending; any other is followed by the
\* next round, until nothing is ready.
NextRound ==
  /\ pc = "confirm"
  /\ made = {}
  /\ pc' = IF deferred THEN "after" ELSE "top"
  /\ UNCHANGED <<queue, cache, graph, seen, todo, cur, answer, made, deferred, clients, crashes>>

NothingReady ==
  /\ pc = "top"
  /\ {o \in Ops : Ready(o)} = {}
  /\ pc' = "after"
  /\ UNCHANGED <<queue, cache, graph, seen, todo, cur, answer, made, deferred, clients, crashes>>

-----------------------------------------------------------------------------
(* Attributing unknown creates, after a pass has finished.                 *)

\* If a pass has finished since the last time, each unknown create still
\* within its lookup time is looked up.
Look ==
  /\ pc = "after"
  /\ \/ /\ todo' \in SUBSET {o \in Ops : st[o] = "unknown" /\ kind[o] = "create"}
        /\ todo' # {}
        /\ pc' = "look"
     \/ pc' = "top" /\ UNCHANGED todo
  /\ UNCHANGED <<queue, cache, graph, seen, cur, answer, made, deferred, clients, crashes>>

\* The live rows with a Graph ID that carry o's opId: copies sync cached,
\* and its own row once a 201 was recorded.
Found(o) ==
  dups[o] \cup (IF copy[ent[o]] # 0 /\ row[ent[o]] = "live" THEN {copy[ent[o]]} ELSE {})

\* Exactly one row carries it and its list answers: that is the task.
LookAt(o, a) ==
  /\ pc = "look"
  /\ o \in todo
  /\ \A x \in todo : o <= x
  /\ todo' = todo \ {o}
  /\ IF kind[o] = "create" /\ Cardinality(Found(o)) = 1 /\ Home[ent[o]] \in listed /\ a # "error"
     THEN /\ ListAnswer(Home[ent[o]], a)
          /\ seen' \in Found(o)
          /\ pc' = "adopt" /\ cur' = o /\ answer' = a
     ELSE UNCHANGED <<pc, cur, seen, answer>>
  /\ UNCHANGED <<queue, cache, graph, made, deferred, clients, crashes>>

\* The task found becomes the create's own, unless the user has retried or
\* discarded the create since.
Adopt(o) ==
  /\ answer = "live"
  /\ IF st[o] = "unknown"
     THEN /\ st'   = [st EXCEPT ![o] = "done"]
          /\ copy' = [copy EXCEPT ![ent[o]] = seen]
          /\ dups' = [dups EXCEPT ![o] = @ \ {seen}]
          /\ row'  = IF seen = copy[ent[o]] THEN row ELSE Record(o)
     ELSE UNCHANGED <<st, row, copy, dups>>

\* Its list is gone: the create fails, whatever became of it meanwhile.
AdoptNothing(o) ==
  /\ answer = "gone"
  /\ IF st[o] \notin GoneStates THEN FailOp(o) ELSE UNCHANGED <<st, row>>
  /\ UNCHANGED <<copy, dups>>

Attribute(o) ==
  /\ pc = "adopt"
  /\ o = cur
  /\ Adopt(o) \/ AdoptNothing(o)
  /\ pc' = "look" /\ cur' = NoOp /\ seen' = 0 /\ answer' = "none"
  /\ UNCHANGED <<facts, held, skipped, listed, graph, todo, made, deferred,
                 clients, crashes>>

Looked ==
  /\ pc = "look"
  /\ todo = {}
  /\ pc' = "top"
  /\ UNCHANGED <<queue, cache, graph, seen, todo, cur, answer, made, deferred, clients, crashes>>

-----------------------------------------------------------------------------
(* The daemon stops and starts; time, sync and the phone.                  *)

\* Everything in memory goes: the worker's round and the clients' requests.
Crash ==
  /\ pc # "down"
  /\ crashes < MaxCrashes
  /\ crashes' = crashes + 1
  /\ pc' = "down" /\ todo' = {} /\ cur' = NoOp /\ answer' = "none" /\ seen' = 0 /\ made' = {}
  /\ deferred' = FALSE
  /\ planned' = {} /\ asked' = {}
  /\ UNCHANGED <<queue, cache, graph, chosen>>

StartAsIs ==
  /\ pc = "down"
  /\ pc' = "top"
  /\ UNCHANGED <<queue, cache, graph, seen, todo, cur, answer, made, deferred, clients, crashes>>

\* What was being sent may have reached Graph: what mustn't be sent twice
\* is unknown, the rest is sent again.
Start ==
  /\ pc = "down"
  /\ st' = [o \in Ops |-> IF st[o] # "inflight" THEN st[o]
                          ELSE IF kind[o] \in OnceKinds THEN "unknown" ELSE "pending"]
  /\ pc' = "top"
  /\ UNCHANGED <<facts, held, skipped, cache, graph, seen, todo, cur, answer, made,
                 deferred, clients, crashes>>

BackoffEnds ==
  /\ held # {}
  /\ held' = {}
  /\ UNCHANGED <<st, facts, skipped, cache, graph, worker, clients, crashes>>

\* Finished operations are deleted, except what an unfinished one waits on.
Prune(o) ==
  /\ "prune" \in Events
  /\ pc # "down"
  /\ st[o] = "done"
  /\ \A x \in Ops : dep[x] = o => st[x] \in {"done"} \cup GoneStates
  /\ st' = [st EXCEPT ![o] = "pruned"]
  /\ UNCHANGED <<facts, held, skipped, cache, graph, worker, clients, crashes>>

\* A pass meets a copy of a create's task that no row names yet.
SyncSees(o, k) ==
  /\ pc # "down"
  /\ kind[o] = "create"
  /\ k \in 1 .. applied[o]
  /\ o \notin ghost
  /\ k # copy[ent[o]] /\ k \notin dups[o]
  /\ row[Home[ent[o]]] = "live" /\ Home[ent[o]] \notin dead
  /\ dups' = [dups EXCEPT ![o] = @ \cup {k}]
  /\ UNCHANGED <<queue, row, listed, copy, graph, worker, clients, crashes>>

PhoneDeletesList(l) ==
  /\ "phone" \in Events
  /\ l \in listed
  /\ l \notin dead
  /\ dead' = dead \cup {l}
  /\ UNCHANGED <<queue, cache, applied, ghost, worker, clients, crashes>>

\* A pass finds a list deleted: the writes waiting in it fail, with all
\* that waits on them, and its tasks go, except one being sent, and those
\* written since the pass began (kept).
RemoveList(l, kept) ==
  LET doomed == {o \in Ops : NotSent(o) /\ ListOf(o) = l}
      failed == doomed \cup Cascaded(doomed)
      sent(t) == \E o \in Ops : ent[o] = t /\ st[o] = "inflight"
  IN  /\ pc # "down"
      /\ l \in dead /\ l \in listed /\ row[l] = "live"
      /\ st' = Settled(failed, "failed")
      /\ row' = [e \in Entities |->
                   IF e = l THEN "gone"
                   ELSE IF /\ row[e] = "live"
                           /\ ~sent(e)
                           /\ (\E o \in doomed : ent[o] = e) \/ (e \in TasksIn(l) \ kept)
                        THEN "gone" ELSE row[e]]
      /\ dups' = [o \in Ops |-> IF kind[o] = "create" /\ Home[ent[o]] = l THEN {} ELSE dups[o]]
      /\ UNCHANGED <<facts, held, skipped, listed, copy, graph, worker,
                     clients, crashes>>

-----------------------------------------------------------------------------

Client ==
  \/ \E k \in Kinds, e \in Entities : Plan(k, e) \/ Enqueue(k, e)
  \/ \E o \in Ops : \/ \E do \in {"retry", "discard"} : Ask(do, o)
                    \/ \E saw \in States : Retry(o, saw) \/ Discard(o, saw)

Exchange(o) ==
  /\ pc = "wire"
  /\ o = cur
  /\ Accepted(o) \/ Refused(o) \/ LeftAlone(o) \/ Deferred(o) \/ Lost(o)

Worker ==
  \/ ReadReady \/ Claim \/ EndRound \/ NextRound \/ NothingReady \/ Look \/ Looked
  \/ \E o \in Ops : Exchange(o) \/ Settle(o) \/ Confirm(o) \/ Attribute(o)
  \/ \E a \in {"live", "gone", "error"} :
       (\E l \in Lists : GetList(l, a)) \/ (\E o \in Ops : LookAt(o, a))

Around ==
  \/ BackoffEnds
  \/ \E o \in Ops : Prune(o) \/ \E k \in 1 .. MaxChosen : SyncSees(o, k)
  \/ \E l \in Lists : PhoneDeletesList(l) \/ \E kept \in SUBSET TasksIn(l) : RemoveList(l, kept)

Next == Client \/ Worker \/ Around \/ Crash \/ Start

Spec == Init /\ [][Next]_vars

-----------------------------------------------------------------------------
(* What must hold.                                                         *)

QueueTypes ==
  /\ st \in [Ops -> States]
  /\ kind \in [Ops -> Kinds \cup {"none"}]
  /\ ent \in [Ops -> Entities \cup {"none"}]
  /\ \A o \in Ops : kind[o] \in TaskKinds => ent[o] \in Tasks
  /\ \A o \in Ops : kind[o] \in ListKinds => ent[o] \in Lists
  /\ dep \in [Ops -> Ops \cup {NoOp}]
  /\ back \in [Ops -> SUBSET Tasks]
  /\ next \in 1 .. MaxOps + 1
  /\ held \subseteq Ops /\ skipped \subseteq Ops

CacheTypes ==
  /\ row \in [Entities -> {"absent", "live", "gone"}]
  /\ listed \subseteq Lists
  /\ copy \in [Tasks -> Nat]
  /\ dups \in [Ops -> SUBSET Nat]

GraphTypes ==
  /\ applied \in [Ops -> Nat]
  /\ ghost \subseteq Ops
  /\ dead \subseteq Lists

WorkerTypes ==
  /\ pc \in {"down", "top", "round", "wire", "settle", "confirm", "confirming", "after", "look", "adopt"}
  /\ todo \subseteq Ops /\ made \subseteq Ops
  /\ cur \in Ops \cup {NoOp}
  /\ answer \in {"none", "ok", "skipped", "temporary", "rejected", "unknown", "live", "gone", "error"}
  /\ seen \in Nat
  /\ deferred \in BOOLEAN

ClientTypes ==
  /\ planned \subseteq Targets
  /\ asked \subseteq {"retry", "discard"} \X Ops \X States
  /\ chosen \in [Ops -> Nat]
  /\ crashes \in 0 .. MaxCrashes

\* Every variable keeps its type, in the cache, the queue, the worker, the
\* clients and Graph.
TypeOK == QueueTypes /\ CacheTypes /\ GraphTypes /\ WorkerTypes /\ ClientTypes

\* A queued write waits only for one that can still be done: whatever
\* fails, is discarded or is pruned takes what waits on it along, so
\* nothing is left pending that ready_ops would never return.
WaitersAlive ==
  \A o \in Ops : st[o] = "pending" /\ dep[o] # NoOp => st[dep[o]] \in UnresolvedStates \cup {"done"}

\* Nothing is run by Graph on top of a change that didn't happen: whatever
\* a write was queued behind is done by the time Graph runs it, and stays so.
BuiltOnDone ==
  \A o \in Ops : applied[o] > 0 /\ dep[o] # NoOp => st[dep[o]] \in {"done", "pruned"}

\* Why the two hold: the queue as a forest in queue order.  What an
\* operation was queued behind is done before it is claimed, and stays so
\* while it is being sent or its outcome is unknown.
Based(o) == dep[o] = NoOp \/ st[dep[o]] = "done"

DepOK ==
  \A o \in Ops :
    /\ (o >= next) <=> (st[o] = "free")
    /\ dep[o] < o
    /\ st[o] = "free" => dep[o] = NoOp /\ applied[o] = 0
    /\ st[o] = "pending" => dep[o] = NoOp \/ st[dep[o]] \in UnresolvedStates \cup {"done"}
    /\ st[o] \in {"inflight", "unknown"} => Based(o)
    /\ applied[o] > 0 => dep[o] = NoOp \/ st[dep[o]] \in {"done", "pruned"}

\* What the worker and the clients hold on to while others act: the worker
\* has inflight operations, and operations read as ready or as unknown that
\* may have moved on, but never to where its next step would do harm.
Unsettled == {"pending", "inflight", "unknown", "failed"}

WorkerOK ==
  /\ pc = "down" => made = {}
  /\ pc \in {"wire", "settle"} => cur \in Ops /\ st[cur] = "inflight" /\ cur \notin made
  /\ \A o \in made : st[o] = "inflight"
  /\ pc = "confirming" => \A o \in todo : st[o] = "inflight" /\ o \notin made
  /\ pc \in {"round", "wire", "settle"} =>
       \A o \in todo : st[o] # "free" /\ (st[o] = "pending" => Based(o))
  /\ pc \in {"look", "adopt"} => \A o \in todo : st[o] \notin {"inflight", "done", "free"}
  /\ pc = "adopt" => cur \in Ops \ todo /\ st[cur] \notin {"inflight", "done", "free"}

AskedOK ==
  /\ \A o \in Ops, saw \in States : <<"retry", o, saw>> \in asked =>
       saw \in {"unknown", "failed"} /\ st[o] # "free" /\ (st[o] \in Unsettled => Based(o))
  /\ \A o \in Ops, saw \in States : <<"discard", o, saw>> \in asked =>
       saw \in {"pending", "unknown", "failed"}

\* The invariant the proofs of WaitersAlive and BuiltOnDone go by.
Inductive == DepOK /\ WorkerOK /\ AskedOK

\* o is one that p, queued later, may not overtake.
Concerns(o, p) ==
  \/ ent[o] = ent[p] /\ (kind[p] = "delete" => kind[o] \notin ChildKinds)
  \/ kind[o] = "list_create" /\ kind[p] \in TaskKinds /\ ent[o] = Home[ent[p]]

\* A task's or a list's writes reach Graph in the order they were queued,
\* and a new list's before those on its tasks: nothing is being sent, or
\* was run, while an earlier one is unsettled.  A delete passes child
\* writes, and what the user sends again may come later.
InQueueOrder ==
  \A o, p \in Ops :
     (o < p /\ p < next /\ Concerns(o, p) /\ chosen[o] = 1 /\ (st[p] = "inflight" \/ applied[p] > 0))
        => ~Unresolved(o)

\* Graph runs a create, of a task, a step or a list, at most as often as
\* the user had it sent: once, and once more for each retry.
OncePerChoice ==
  \A o \in Ops : kind[o] \in OnceKinds => applied[o] <= chosen[o]

\* Why that holds: what may still be run was run less often than that.
MayRun(o) ==
  \/ st[o] = "pending"
  \/ o = cur /\ (pc = "wire" \/ (pc = "settle" /\ answer = "temporary"))

SentOK ==
  \A o \in Ops : kind[o] \in OnceKinds =>
    applied[o] <= chosen[o] /\ (MayRun(o) => applied[o] < chosen[o])

\* A create Graph answered 201 for in a list already deleted is never done.
NoGhostDone == \A o \in ghost : st[o] \notin {"done", "pruned"}

\* Why that holds: a list stays deleted, so one seen live after the 201 was
\* live when Graph answered it.
GhostOK ==
  /\ \A o \in ghost : /\ kind[o] = "create" /\ Home[ent[o]] \in dead
                      /\ st[o] \notin {"free", "done", "pruned"}
  /\ pc = "settle" /\ answer = "skipped" => kind[cur] # "create"
  /\ pc = "confirming" /\ answer = "live" => todo \cap ghost = {}
  /\ pc = "adopt" /\ answer = "live" => cur \notin ghost

\* Done means made: Graph ran every write that is done, except those
\* recorded as skipped.
DoneWasApplied ==
  \A o \in Ops : st[o] = "done" /\ o \notin skipped => applied[o] > 0

\* Done is what Graph made and kept: no write is done that Graph didn't run,
\* and no create that it ran into a list already deleted.
DoneIsMade == DoneWasApplied /\ NoGhostDone

\* What is done stays done, and a write that failed or whose outcome is
\* unknown is queued again by the user alone.
OutcomesFinal ==
  [][\A o \in Ops :
       /\ st[o] = "done" => st'[o] \in {"done", "pruned"}
       /\ st[o] \in {"failed", "unknown"} /\ st'[o] = "pending" => chosen'[o] > chosen[o]]_vars

\* The worker runs as long as the daemon does, a stopped daemon is started
\* again, a backoff ends, and Graph does not put off one write for ever.
Fairness ==
  /\ WF_vars(Worker) /\ WF_vars(Start) /\ WF_vars(BackoffEnds)
  /\ \A o \in Ops : SF_vars(Exchange(o) /\ answer' # "temporary")

FairSpec == Spec /\ Fairness

\* The queue drains: in the end every write is settled, or waits behind one
\* whose outcome is unknown, which only the user can decide.
QueueDrains ==
  \A o \in Ops : <>[](\/ st[o] \notin {"pending", "inflight"}
                      \/ st[o] = "pending" /\ \E x \in Ops : st[x] = "unknown" /\ o \in Waiting({x}))
=============================================================================
