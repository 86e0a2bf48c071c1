------------------------------- MODULE Lists -------------------------------
(***************************************************************************)
(* Creating, renaming, deleting, filing and merging lists.  A client's     *)
(* command is planned against the cached lists, then applied to the cache  *)
(* and queued in one transaction; the worker sends one operation at a time *)
(* and records the answer; a pass over the lists reads Graph's lists and   *)
(* applies them; the phone renames, deletes and fills lists meanwhile.     *)
(* A task's move is one step here (MoveJob has its stages), and a pass     *)
(* over a list's tasks too (SyncPass has its own).                         *)
(***************************************************************************)
EXTENDS Naturals, Sequences, FiniteSets

CONSTANTS
    Names,       \* the names a list may be given
    Sittings,    \* what the user may ask, the operations queued in all, whether list 1 has a task
    MaxPhone,    \* changes made on the phone
    MaxFaults    \* answers lost and writes Graph refuses

ASSUME ListsConstants ==
    /\ {"home", "old", "new"} \subseteq Names
    /\ \A s \in Sittings : s.asks \subseteq STRING /\ s.ops \in Nat /\ s.full \in BOOLEAN
    /\ {MaxPhone, MaxFaults} \subseteq Nat

LocalRows == 1..4     \* local IDs; 1 is a list of the user's, 2 is "Tasks"
BuiltIn == 2
Gids == 1..4          \* Graph IDs, never used twice
Tasks == 1..2         \* 1 is in list 1; 2 is one the phone may add to it
Idle == "idle"

VARIABLES
    db,      \* rows, tasks, ops and sync links: the cache, one transaction at a time
    graph,   \* Graph's lists and where its tasks are
    net,     \* what the worker is sending
    pass,    \* the pass over the lists
    plan,    \* a command planned and not queued yet
    left     \* what the user may still ask, and the phone changes and faults still to come

vars == <<db, graph, net, pass, plan, left>>

NoRow == [st |-> "none", gid |-> 0, name |-> "home", filed |-> FALSE]
NoList == [st |-> "free", name |-> "home", filed |-> FALSE]

Init ==
    /\ \E s \in Sittings :
          left = [phone |-> MaxPhone, fault |-> MaxFaults, asks |-> s.asks, ops |-> s.ops, full |-> s.full]
    /\ db = [rows  |-> [r \in LocalRows |->
                          CASE r = 1 -> [st |-> "live", gid |-> 1, name |-> "old", filed |-> FALSE]
                            [] r = BuiltIn -> [st |-> "live", gid |-> 2, name |-> "home", filed |-> FALSE]
                            [] OTHER -> NoRow],
             tasks |-> [t \in Tasks |-> [list |-> IF t = 1 /\ left.full THEN 1 ELSE 0, live |-> t = 1 /\ left.full]],
             ops   |-> <<>>,
             written |-> {},       \* rows written since the pass over the lists began
             parted |-> {},        \* rows whose queue no longer tells their name (ShownAsAsked)
             ready   |-> {1, 2},   \* Graph lists whose tasks have synced once
             reread  |-> FALSE,    \* whether Graph's lists moved past the link, or it was dropped
             link    |-> [g \in Gids |-> IF g \in {1, 2} THEN {} ELSE Tasks]]
                                   \* per list, the tasks its next delta brings
    /\ graph = [lists |-> [g \in Gids |->
                             CASE g = 1 -> [st |-> "here", name |-> "old", filed |-> FALSE]
                               [] g = 2 -> [st |-> "here", name |-> "home", filed |-> FALSE]
                               [] OTHER -> NoList],
                tasks |-> [t \in Tasks |-> IF t = 1 /\ left.full THEN 1 ELSE 0]]
    /\ net = [st |-> Idle]
    /\ pass = [st |-> Idle]
    /\ plan = [k |-> Idle]

(***************************************************************************)
(* The queue.                                                              *)
(***************************************************************************)
Unresolved(op) == op.st \in {"pending", "inflight", "unknown"}
Op(k, l, cmd) == [k |-> k, l |-> l, t |-> 0, name |-> "home", filed |-> FALSE,
                  wasName |-> "home", wasFiled |-> FALSE, gone |-> {}, counted |-> 0,
                  cmd |-> cmd, undoes |-> 0, dep |-> 0, st |-> "pending"]
Entity(op) == IF op.k = "move" THEN <<"task", op.t>> ELSE <<"list", op.l>>
Latest(S) == IF S = {} THEN 0 ELSE CHOOSE i \in S : \A j \in S : j <= i

\* The unresolved operations before the n-th that are on what op is on.
UnresolvedBefore(ops, n, op) ==
    {j \in DOMAIN ops : j < n /\ Entity(ops[j]) = Entity(op) /\ Unresolved(ops[j])}

(* insert_op: wait for the latest unresolved operation on the same entity. *)
InsertOp(c, op) ==
    [c EXCEPT !.ops = Append(@, [op EXCEPT !.dep = Latest(UnresolvedBefore(c.ops, Len(c.ops) + 1, op))])]

LiveIn(c, r) == {t \in Tasks : c.tasks[t].list = r /\ c.tasks[t].live}
TaskBusy(c, t) == \E i \in DOMAIN c.ops :
                     c.ops[i].k = "move" /\ c.ops[i].t = t /\ Unresolved(c.ops[i])
Busy(c, r) == \E i \in DOMAIN c.ops : Entity(c.ops[i]) = <<"list", r>> /\ Unresolved(c.ops[i])

\* tombstone: the list and its live tasks go, written now.
Tombstone(c, r) ==
    [c EXCEPT !.rows[r].st = "dead",
              !.tasks = [t \in Tasks |-> [c.tasks[t] EXCEPT !.live = @ /\ t \notin LiveIn(c, r)]],
              !.written = @ \union {r}]

(***************************************************************************)
(* A rejection: the row goes back, the operation fails, and everything     *)
(* that waited on it fails with it, its own change to the list left alone. *)
(***************************************************************************)
\* What waits on one of S; and, not sent yet, on operation i, directly or through others.
WaitingOn(ops, S) == {j \in DOMAIN ops : ops[j].dep \in S}
Behind(ops, i) ==
    {j \in DOMAIN ops :
        /\ ops[j].st \in {"pending", "unknown"}
        /\ \A S \in SUBSET DOMAIN ops : WaitingOn(ops, S \union {i}) \subseteq S => j \in S}

Cascade(c, i) ==
    [c EXCEPT !.ops = [j \in DOMAIN c.ops |->
        IF j \in Behind(c.ops, i) THEN [c.ops[j] EXCEPT !.st = "failed"] ELSE c.ops[j]]]

BringsBackTasks(op) == op.gone

\* restore_list and undo_local: what failing the operation does to the cache.
RestoreOp(c, op) ==
    CASE op.k \in {"create", "recreate"} -> Tombstone(c, op.l)
      [] op.k \in {"rename", "delete", "mdelete"} ->
            [c EXCEPT !.rows[op.l].name = op.wasName, !.rows[op.l].st = "live",
                      !.tasks = [t \in Tasks |-> [c.tasks[t] EXCEPT !.live = @ \/ t \in BringsBackTasks(op)]],
                      !.written = @ \union {op.l}]
      [] op.k = "folder" ->
            IF c.rows[op.l].st = "live"
            THEN [c EXCEPT !.rows[op.l].filed = op.wasFiled, !.written = @ \union {op.l}]
            ELSE c
      [] op.k = "move" -> [c EXCEPT !.tasks[op.t] = [list |-> op.l, live |-> graph.tasks[op.t] # 0]]

Reconcile(c, op) ==
    IF op.k = "move"
    THEN IF c.rows[op.l].gid = 0 THEN c ELSE [c EXCEPT !.link[c.rows[op.l].gid] = Tasks]
    ELSE [c EXCEPT !.reread = TRUE]

Fail(c, i, st) ==
    LET op == c.ops[i]
        restored == RestoreOp(c, op)
        undone == op.k \in {"create", "recreate"} /\ UnresolvedBefore(c.ops, i, op) # {}
    IN  Reconcile(Cascade([restored EXCEPT !.ops[i].st = st,
                                           !.parted = IF undone THEN @ \union {op.l} ELSE @], i), op)

(***************************************************************************)
(* Graph's answers, recorded.                                              *)
(***************************************************************************)
MergeDuplicate(c, g, r) ==
    LET dup == {d \in LocalRows \ {r} : c.rows[d].st # "none" /\ c.rows[d].gid = g}
    IN  [c EXCEPT !.rows = [d \in LocalRows |-> IF d \in dup THEN NoRow ELSE c.rows[d]],
                  !.tasks = [t \in Tasks |->
                                IF c.tasks[t].list \in dup THEN [c.tasks[t] EXCEPT !.list = r] ELSE c.tasks[t]],
                  !.ops = [i \in DOMAIN c.ops |->
                                IF c.ops[i].l \in dup THEN [c.ops[i] EXCEPT !.l = r] ELSE c.ops[i]],
                  !.parted = IF \E d \in dup : Busy(c, d) THEN (@ \ dup) \union {r} ELSE @ \ dup]

OnTop(c, i, name) ==
    LET later == {j \in DOMAIN c.ops : j > i /\ c.ops[j].k = "rename"
                     /\ c.ops[j].l = c.ops[i].l /\ Unresolved(c.ops[j])}
    IN  IF later = {} THEN name ELSE c.ops[Latest(later)].name

RecordListWritten(c, i, g, name) ==
    LET r == c.ops[i].l
        merged == MergeDuplicate(c, g, r)
    IN  [merged EXCEPT !.rows[r].gid = g, !.rows[r].name = OnTop(merged, i, name),
                       !.ops[i].st = "done", !.written = @ \union {r}]

RecordListDeleted(c, i) ==
    LET r == c.ops[i].l
        gone == Tombstone(c, r)
        g == c.rows[r].gid
    IN  [gone EXCEPT !.ops[i].st = "done",
                     !.ready = @ \ {g},
                     !.link = IF g = 0 THEN @ ELSE [@ EXCEPT ![g] = Tasks]]

RecordListExtension(c, i) ==
    LET r == c.ops[i].l
        later == {j \in DOMAIN c.ops : j > i /\ c.ops[j].k = "folder"
                     /\ c.ops[j].l = r /\ Unresolved(c.ops[j])}
    IN  [c EXCEPT !.rows[r].filed = IF later = {} THEN c.ops[i].filed ELSE c.ops[Latest(later)].filed,
                  !.ops[i].st = "done", !.written = @ \union {r}]

(***************************************************************************)
(* The user: a command is planned against the cached lists, and queued     *)
(* later.  Nothing holds the cache between the two.                        *)
(***************************************************************************)
NewCmd(c) == IF c.ops = <<>> THEN 1 ELSE c.ops[Len(c.ops)].cmd + 1
Live(c, r) == c.rows[r].st = "live"
FreeRows(c) == {r \in LocalRows : c.rows[r].st = "none"}
FreeRow(c) == CHOOSE r \in FreeRows(c) : TRUE

\* new_name: no other live list's.
Free(c, name, r) == \A o \in LocalRows \ {r} : Live(c, o) => c.rows[o].name # name

CanPlan(k) ==
    /\ plan.k = Idle
    /\ k \in left.asks
    /\ Len(db.ops) < left.ops

PlanCreate ==
    /\ CanPlan("create")
    /\ FreeRows(db) # {}
    /\ \E name \in Names, filed \in BOOLEAN :
          /\ Free(db, name, 0)
          /\ filed => Len(db.ops) + 2 <= left.ops
          /\ plan' = [k |-> "create", l |-> 0, name |-> name, filed |-> filed]
    /\ UNCHANGED <<db, graph, net, pass, left>>

PlanRename ==
    /\ CanPlan("rename")
    /\ \E r \in LocalRows \ {BuiltIn}, name \in Names :
          /\ Live(db, r)
          /\ Free(db, name, r)
          /\ db.rows[r].name # name
          /\ plan' = [k |-> "rename", l |-> r, name |-> name]
    /\ UNCHANGED <<db, graph, net, pass, left>>

PlanFolder ==
    /\ CanPlan("folder")
    /\ \E r \in LocalRows \ {BuiltIn} :
          /\ Live(db, r)
          /\ plan' = [k |-> "folder", l |-> r, filed |-> ~db.rows[r].filed]
    /\ UNCHANGED <<db, graph, net, pass, left>>

\* confirmed_tasks: the cache's count once the list's tasks have synced, else Graph is asked.
ConfirmedTasks(r) ==
    LET g == db.rows[r].gid
        cached == Cardinality(LiveIn(db, r))
        there == Cardinality({t \in Tasks : graph.tasks[t] = g})
    IN  IF g = 0 \/ g \in db.ready \/ there < cached THEN cached ELSE there

PlanDelete ==
    /\ CanPlan("delete")
    /\ \E r \in LocalRows \ {BuiltIn} :
          /\ Live(db, r)
          /\ \A t \in Tasks : db.tasks[t].list = r => ~TaskBusy(db, t)
          /\ plan' = [k |-> "delete", l |-> r, counted |-> ConfirmedTasks(r)]
    /\ UNCHANGED <<db, graph, net, pass, left>>

\* merge --delete-source: the tasks cached now are moved, then the list goes.
PlanMerge ==
    /\ CanPlan("merge")
    /\ \E r \in LocalRows \ {BuiltIn} :
          /\ Live(db, r)
          /\ db.rows[r].gid = 0 \/ db.rows[r].gid \in db.ready
          /\ Len(db.ops) + Cardinality(LiveIn(db, r)) + 1 <= left.ops
          /\ plan' = [k |-> "merge", l |-> r, moving |-> LiveIn(db, r)]
    /\ UNCHANGED <<db, graph, net, pass, left>>

DeleteOp(c, r, counted, cmd, undoes) ==
    [Op("delete", r, cmd) EXCEPT !.counted = counted, !.wasName = c.rows[r].name,
                                 !.gone = LiveIn(c, r), !.undoes = undoes]

\* apply_write: each write's change to the cached list, with its operation queued.
EnqueueDelete(c, r, counted, cmd, undoes) ==
    LET queued == InsertOp(c, DeleteOp(c, r, counted, cmd, undoes))
    IN  Tombstone(queued, r)
EnqueueRename(c, r, name, cmd, undoes) ==
    LET queued == InsertOp(c, [Op("rename", r, cmd) EXCEPT !.name = name,
                                 !.wasName = c.rows[r].name, !.undoes = undoes])
    IN  [queued EXCEPT !.rows[r].name = name, !.written = @ \union {r}]
EnqueueFolder(c, r, filed, cmd, undoes) ==
    LET queued == InsertOp(c, [Op("folder", r, cmd) EXCEPT !.filed = filed,
                                 !.wasFiled = c.rows[r].filed, !.undoes = undoes])
    IN  [queued EXCEPT !.rows[r].filed = filed, !.written = @ \union {r}]
EnqueueCreate(c, r, name, cmd) ==
    LET queued == InsertOp(c, [Op("create", r, cmd) EXCEPT !.name = name])
    IN  [queued EXCEPT !.rows[r] = [st |-> "live", gid |-> 0, name |-> name, filed |-> FALSE],
                       !.written = @ \union {r}]
EnqueueRecreate(c, r, cmd, undoes) ==
    LET queued == InsertOp(c, [Op("recreate", r, cmd) EXCEPT !.name = c.rows[r].name,
                                 !.undoes = undoes])
    IN  [queued EXCEPT !.rows[r].gid = 0, !.rows[r].st = "live", !.written = @ \union {r}]

QueueMove(c, r, t, cmd) ==
    [InsertOp(c, [Op("move", r, cmd) EXCEPT !.t = t]) EXCEPT !.tasks[t].list = BuiltIn]
QueueMoves(c, moving, r, cmd) ==
    CASE moving = {} -> c
      [] moving = Tasks -> QueueMove(QueueMove(c, r, 1, cmd), r, 2, cmd)
      [] OTHER -> QueueMove(c, r, CHOOSE t \in moving : TRUE, cmd)
QueueMerge(c, p, cmd) ==
    LET moves == QueueMoves(c, p.moving, p.l, cmd)
    IN  InsertOp(moves, [Op("mdelete", p.l, cmd + 1) EXCEPT !.wasName = c.rows[p.l].name,
                           !.counted = Cardinality(p.moving)])

\* enqueue_lists: a list not cached any more fails the command, and nothing is queued.
Queue ==
    /\ plan.k # Idle
    /\ LET cmd == NewCmd(db)
           fresh == FreeRow(db)
           made == EnqueueCreate(db, fresh, plan.name, cmd)
       IN  db' =
             IF plan.k = "create"
             THEN IF FreeRows(db) = {} THEN db
                  ELSE IF plan.filed THEN EnqueueFolder(made, fresh, TRUE, cmd, 0) ELSE made
             ELSE IF db.rows[plan.l].st = "none" THEN db
             ELSE CASE plan.k = "rename" -> EnqueueRename(db, plan.l, plan.name, cmd, 0)
                    [] plan.k = "folder" ->
                         IF Live(db, plan.l) THEN EnqueueFolder(db, plan.l, plan.filed, cmd, 0) ELSE db
                    [] plan.k = "delete" -> EnqueueDelete(db, plan.l, plan.counted, cmd, 0)
                    [] plan.k = "merge" ->
                         \* a task gone or busy elsewhere since fails its move's queueing
                         IF \A t \in plan.moving : t \in LiveIn(db, plan.l)
                         THEN QueueMerge(db, plan, cmd) ELSE db
    /\ plan' = [k |-> Idle]
    /\ UNCHANGED <<graph, net, pass, left>>

(***************************************************************************)
(* Undo of one list operation's command.                                   *)
(***************************************************************************)
Held(op) == IF Cardinality(op.gone) > op.counted THEN Cardinality(op.gone) ELSE op.counted
UndoOf(i) ==
    LET op == db.ops[i]
        row == db.rows[op.l]
        cmd == NewCmd(db)
    IN  /\ op.st \in {"pending", "inflight", "done"}
        /\ \A j \in DOMAIN db.ops : db.ops[j].undoes # op.cmd
        /\ row.st # "none"
        /\ \/ /\ op.k = "folder"
              /\ ~\E j \in DOMAIN db.ops : db.ops[j].cmd = op.cmd /\ db.ops[j].k = "create"
              /\ row.st = "live" /\ row.filed = op.filed
              /\ db' = EnqueueFolder(db, op.l, op.wasFiled, cmd, op.cmd)
           \/ /\ op.k \in {"create", "recreate"}
              /\ row.st = "live" /\ row.name = op.name
              /\ LiveIn(db, op.l) = {}
              /\ db' = EnqueueDelete(db, op.l, 0, cmd, op.cmd)
           \/ /\ op.k = "rename"
              /\ row.st = "live" /\ row.name = op.name
              /\ db' = EnqueueRename(db, op.l, op.wasName, cmd, op.cmd)
           \/ /\ op.k \in {"delete", "mdelete"}
              /\ op.k = "mdelete" => op.st = "done"
              /\ row.st = "dead"
              /\ (IF op.k = "delete" THEN Held(op) ELSE 0) = 0
              /\ row.filed => Len(db.ops) + 2 <= left.ops
              /\ LET made == EnqueueRecreate(db, op.l, cmd, op.cmd)
                 IN  db' = IF row.filed THEN EnqueueFolder(made, op.l, TRUE, cmd, op.cmd) ELSE made
Undo ==
    /\ "undo" \in left.asks
    /\ plan.k = Idle
    /\ Len(db.ops) < left.ops
    /\ \E i \in DOMAIN db.ops : UndoOf(i)
    /\ UNCHANGED <<graph, net, pass, plan, left>>

\* outbox discard of what isn't being sent; the lists are read again when Graph may have made the
\* list, or something waited on it.
Dropped(c, i) ==
    LET gone == Fail(c, i, "gone")
    IN  IF c.ops[i].st = "unknown" \/ Behind(c.ops, i) # {} THEN gone
        ELSE [gone EXCEPT !.reread = c.reread]
Discard ==
    /\ "discard" \in left.asks
    /\ \E i \in DOMAIN db.ops :
          /\ db.ops[i].k \notin {"move", "folder"}
          /\ db.ops[i].st \in {"pending", "unknown"}
          /\ db' = Dropped(db, i)
    /\ UNCHANGED <<graph, net, pass, plan, left>>

(***************************************************************************)
(* The worker: one operation at a time.                                    *)
(***************************************************************************)
ReadyOp(i) ==
    LET op == db.ops[i]
    IN  /\ op.st = "pending"
        /\ op.dep # 0 => db.ops[op.dep].st = "done"
        /\ op.k = "mdelete" => \A j \in DOMAIN db.ops : db.ops[j].cmd = op.cmd - 1 => ~Unresolved(db.ops[j])

Claim ==
    /\ net.st = Idle
    /\ \E i \in DOMAIN db.ops :
          /\ ReadyOp(i)
          /\ \A j \in 1..(i - 1) : ~ReadyOp(j)
          /\ db' = [db EXCEPT !.ops[i].st = "inflight"]
          /\ net' = [st |-> IF db.ops[i].k = "mdelete" THEN "check" ELSE "send",
                     i |-> i, gid |-> db.rows[db.ops[i].l].gid]
    /\ UNCHANGED <<graph, pass, plan, left>>

Emptied(i, g) ==
    LET op == db.ops[i]
    IN  /\ Cardinality({j \in DOMAIN db.ops : db.ops[j].cmd = op.cmd - 1 /\ db.ops[j].st = "done"}) >= op.counted
        /\ LiveIn(db, op.l) = {}
        /\ \A t \in Tasks : graph.tasks[t] # g

CheckEmptied ==
    /\ net.st = "check"
    /\ IF net.gid # 0 /\ Emptied(net.i, net.gid)
       THEN net' = [net EXCEPT !.st = "send"] /\ UNCHANGED db
       ELSE net' = [st |-> Idle] /\ db' = Fail(db, net.i, "failed")
    /\ UNCHANGED <<graph, pass, plan, left>>

Here(g) == g # 0 /\ graph.lists[g].st = "here"
FreshGid == CHOOSE g \in Gids : graph.lists[g].st = "free" /\ \A h \in 1..(g - 1) : graph.lists[h].st # "free"

\* Graph's lists move past the link, and past a pass that has read them.
ListsMoved ==
    pass' = IF pass.st = "fetched" THEN [pass EXCEPT !.moved = TRUE] ELSE pass

Answer(ans, to) == net' = [st |-> "sent", i |-> net.i, gid |-> net.gid, ans |-> ans, to |-> to]

SendCreate ==
    /\ db.ops[net.i].k \in {"create", "recreate"}
    /\ \E g \in Gids : graph.lists[g].st = "free"
    /\ graph' = [graph EXCEPT !.lists[FreshGid] =
                    [st |-> "here", name |-> db.ops[net.i].name, filed |-> FALSE]]
    /\ Answer("ok", FreshGid)
    /\ db' = [db EXCEPT !.reread = TRUE]
    /\ ListsMoved

SendChange ==
    /\ LET op == db.ops[net.i]
       IN  /\ op.k \in {"rename", "folder"}
           /\ Here(net.gid)
           /\ op.k = "folder" => Live(db, op.l)
           /\ graph' = IF op.k = "rename" THEN [graph EXCEPT !.lists[net.gid].name = op.name]
                       ELSE [graph EXCEPT !.lists[net.gid].filed = op.filed]
    /\ Answer("ok", net.gid)
    /\ db' = [db EXCEPT !.reread = TRUE]
    /\ ListsMoved

\* A delete takes whatever the list holds with it; 404 counts as done.
SendDelete ==
    /\ db.ops[net.i].k \in {"delete", "mdelete"}
    /\ net.gid # 0
    /\ LET holds == {t \in Tasks : graph.tasks[t] = net.gid}
       IN  /\ graph' = [lists |-> [graph.lists EXCEPT ![net.gid].st = "gone"],
                        tasks |-> [t \in Tasks |-> IF t \in holds THEN 0 ELSE graph.tasks[t]]]
    /\ Answer("ok", net.gid)
    /\ db' = [db EXCEPT !.reread = TRUE]
    /\ ListsMoved

SendMove ==
    /\ db.ops[net.i].k = "move"
    /\ LET t == db.ops[net.i].t
           from == graph.tasks[t]
       IN  /\ from # 0
           /\ graph' = [graph EXCEPT !.tasks[t] = BuiltIn]
           /\ db' = [db EXCEPT !.link[from] = @ \union {t}, !.link[BuiltIn] = @ \union {t}]
    /\ Answer("ok", BuiltIn)
    /\ UNCHANGED pass

SendWrite ==
    /\ net.st = "send"
    /\ SendCreate \/ SendChange \/ SendDelete \/ SendMove
    /\ UNCHANGED <<plan, left>>

\* What can't be written is refused: no list on Graph, no Graph ID, no task.
Unsendable ==
    LET op == db.ops[net.i]
    IN  \/ op.k \in {"rename", "folder"} /\ ~Here(net.gid)
        \/ op.k = "folder" /\ ~Live(db, op.l)
        \/ op.k \in {"delete", "mdelete"} /\ net.gid = 0
        \/ op.k = "move" /\ graph.tasks[op.t] = 0

Refuse ==
    /\ net.st = "send"
    /\ \/ Unsendable /\ UNCHANGED left
       \/ left.fault > 0 /\ left' = [left EXCEPT !.fault = @ - 1]
    /\ Answer("no", 0)
    /\ UNCHANGED <<db, graph, pass, plan>>

\* A lost answer: a create's outcome is unknown, the rest are sent again.
WriteLost ==
    /\ net.st = "sent" /\ net.ans = "ok"
    /\ left.fault > 0
    /\ left' = [left EXCEPT !.fault = @ - 1]
    /\ db.ops[net.i].k # "move"
    /\ db' = [db EXCEPT !.ops[net.i].st =
                IF db.ops[net.i].k \in {"create", "recreate"} THEN "unknown" ELSE "pending"]
    /\ net' = [st |-> Idle]
    /\ UNCHANGED <<graph, pass, plan>>

Record ==
    /\ net.st = "sent"
    /\ LET op == db.ops[net.i]
       IN  db' =
             IF net.ans = "no" THEN Fail(db, net.i, "failed")
             ELSE CASE op.k \in {"create", "recreate", "rename"} ->
                         RecordListWritten(db, net.i, net.to, op.name)
                    [] op.k \in {"delete", "mdelete"} -> RecordListDeleted(db, net.i)
                    [] op.k = "folder" -> RecordListExtension(db, net.i)
                    [] op.k = "move" -> [db EXCEPT !.ops[net.i].st = "done"]
    /\ net' = [st |-> Idle]
    /\ UNCHANGED <<graph, pass, plan, left>>

(***************************************************************************)
(* The pass over the lists, and over one list's tasks.                     *)
(***************************************************************************)
BeginLists ==
    /\ pass.st = Idle
    /\ db.reread
    /\ db' = [db EXCEPT !.written = {}]
    /\ pass' = [st |-> "began"]
    /\ UNCHANGED <<graph, net, plan, left>>

FetchLists ==
    /\ pass.st = "began"
    /\ pass' = [st |-> "fetched", seen |-> graph.lists, moved |-> FALSE]
    /\ UNCHANGED <<db, graph, net, plan, left>>

WrittenOnly(c, r) == r \in c.written  \* mutant: a list with a write on its way is overwritten
LeftAlone(c, r) == r \in c.written \/ Busy(c, r)

\* What is queued for a list and not sent, with what waits on that.
QueuedFor(c, r) ==
    LET failing == {i \in DOMAIN c.ops : c.ops[i].k # "move" /\ c.ops[i].l = r
                                          /\ c.ops[i].st \in {"pending", "unknown"}}
    IN  failing \union UNION {Behind(c.ops, i) : i \in failing}
Sent(c, r) == \E i \in DOMAIN c.ops : c.ops[i].k # "move" /\ c.ops[i].l = r /\ c.ops[i].st = "inflight"

FailQueued(c, r) ==
    [c EXCEPT !.ops = [i \in DOMAIN c.ops |->
                         IF i \in QueuedFor(c, r) THEN [c.ops[i] EXCEPT !.st = "failed"] ELSE c.ops[i]],
              !.parted = IF Sent(c, r) THEN @ \union {r} ELSE @]

\* tombstone_list: found gone; what was queued for it fails, and the tasks that aren't busy go.
LeftWith(c, r) == {t \in LiveIn(c, r) : ~TaskBusy(c, t)}
ListGone(c, r) ==
    [FailQueued(c, r) EXCEPT !.rows[r].st = "dead",
                             !.tasks = [t \in Tasks |-> [c.tasks[t] EXCEPT !.live = @ /\ t \notin LeftWith(c, r)]],
                             !.link[c.rows[r].gid] = Tasks,
                             !.ready = @ \ {c.rows[r].gid}]

ApplyOne(c, g, seen) ==
    LET known == {r \in LocalRows : c.rows[r].st # "none" /\ c.rows[r].gid = g}
        as(r) == [st |-> "live", gid |-> g, name |-> seen[g].name, filed |-> seen[g].filed]
    IN  IF known = {}
        THEN [c EXCEPT !.rows[FreeRow(c)] = as(FreeRow(c))]
        ELSE LET r == CHOOSE r \in known : TRUE
             IN  IF LeftAlone(c, r) THEN c ELSE [c EXCEPT !.rows[r] = as(r)]

\* The lists of S that Graph has and the cache doesn't.
NotCached(c, seen, S) ==
    {g \in S : seen[g].st = "here" /\ \A r \in LocalRows \ FreeRows(c) : c.rows[r].gid # g}

ApplyAll(c, seen) ==
    LET one(d, g) == IF seen[g].st = "here" THEN ApplyOne(d, g, seen) ELSE d
    IN  one(one(one(one(c, 1), 2), 3), 4)

GoneOf(c, seen) ==
    {r \in LocalRows : /\ c.rows[r].st = "live" /\ c.rows[r].gid # 0
                  /\ r \notin c.written
                  /\ seen[c.rows[r].gid].st # "here"}
DropGone(c, seen) ==
    LET drop(d, r) == IF r \in GoneOf(c, seen) THEN ListGone(d, r) ELSE d
    IN  drop(drop(drop(drop(c, 1), 2), 3), 4)

ApplyLists ==
    /\ pass.st = "fetched"
    /\ Cardinality(NotCached(db, pass.seen, Gids)) <= Cardinality(FreeRows(db))
    /\ db' = [DropGone(ApplyAll(db, pass.seen), pass.seen) EXCEPT !.reread = pass.moved]
    /\ pass' = [st |-> Idle]
    /\ UNCHANGED <<graph, net, plan, left>>

SyncTasks ==
    /\ \E r \in LocalRows :
          LET g == db.rows[r].gid
          IN  /\ Live(db, r) /\ Here(g)
              /\ db.link[g] # {} \/ g \notin db.ready
              /\ db' = [db EXCEPT !.link[g] = {}, !.ready = @ \union {g},
                          !.tasks = [t \in Tasks |->
                            IF t \notin db.link[g] \/ TaskBusy(db, t) THEN db.tasks[t]
                            ELSE IF graph.tasks[t] = g THEN [list |-> r, live |-> TRUE]
                            ELSE IF db.tasks[t].list = r THEN [db.tasks[t] EXCEPT !.live = FALSE] ELSE db.tasks[t]]]
    /\ UNCHANGED <<graph, net, pass, plan, left>>

(***************************************************************************)
(* The phone.                                                              *)
(***************************************************************************)
PhoneRename ==
    /\ left.phone > 0
    /\ \E g \in Gids \ {BuiltIn}, name \in Names :
          /\ Here(g) /\ graph.lists[g].name # name
          /\ graph' = [graph EXCEPT !.lists[g].name = name]
    /\ left' = [left EXCEPT !.phone = @ - 1]
    /\ db' = [db EXCEPT !.reread = TRUE]
    /\ ListsMoved
    /\ UNCHANGED <<net, plan>>

PhoneDelete ==
    /\ left.phone > 0
    /\ \E g \in Gids \ {BuiltIn} :
          /\ Here(g)
          /\ graph' = [lists |-> [graph.lists EXCEPT ![g].st = "gone"],
                       tasks |-> [t \in Tasks |-> IF graph.tasks[t] = g THEN 0 ELSE graph.tasks[t]]]
    /\ left' = [left EXCEPT !.phone = @ - 1]
    /\ db' = [db EXCEPT !.reread = TRUE]
    /\ ListsMoved
    /\ UNCHANGED <<net, plan>>

PhoneAdd ==
    /\ left.phone > 0
    /\ graph.tasks[2] = 0 /\ Here(1)
    /\ graph' = [graph EXCEPT !.tasks[2] = 1]
    /\ left' = [left EXCEPT !.phone = @ - 1]
    /\ db' = [db EXCEPT !.link[1] = @ \union {2}]
    /\ UNCHANGED <<net, pass, plan>>

Next ==
    \/ PlanCreate \/ PlanRename \/ PlanFolder \/ PlanDelete \/ PlanMerge \/ Queue
    \/ Undo \/ Discard
    \/ Claim \/ CheckEmptied \/ SendWrite \/ Refuse \/ WriteLost \/ Record
    \/ BeginLists \/ FetchLists \/ ApplyLists \/ SyncTasks
    \/ PhoneRename \/ PhoneDelete \/ PhoneAdd

Spec == Init /\ [][Next]_vars

(***************************************************************************)
(* Properties.                                                             *)
(***************************************************************************)

\* A name the user gave stays on screen until Graph answers its last rename: no pass and no answer
\* to an earlier operation puts an older name back (apply_lists' busy rows, record_list_written),
\* and a discarded operation puts back the one asked for before it.  Not said of a row whose queue
\* parted from it: another row's queue was joined to it, or the list was found gone, or its
\* re-creation discarded, with an earlier write still to be answered.
ShownAsAsked ==
    \A i \in DOMAIN db.ops :
        LET op == db.ops[i]
            later == {j \in DOMAIN db.ops : j > i /\ db.ops[j].l = op.l /\ db.ops[j].k = "rename"
                                             /\ Unresolved(db.ops[j])}
        IN  (op.k = "rename" /\ Unresolved(op) /\ later = {} /\ Live(db, op.l) /\ op.l \notin db.parted)
              => db.rows[op.l].name = op.name

=============================================================================
