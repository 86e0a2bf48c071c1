----------------------------- MODULE ListProofs -----------------------------
(* ShownAsAsked, for any number of commands, undos, discards, refusals and *)
(* lost answers: by the invariant ListsInv, whose core says of every row   *)
(* that its unresolved writes wait on one another in a single chain, and   *)
(* which name each row goes back to if the write at the chain's end fails. *)
EXTENDS Lists, FiniteSetTheorems, TLAPS

\* Of finitely many positions one is the first.
LEMMA FirstPosition ==
  ASSUME NEW n \in Nat, NEW S \in SUBSET (1 .. n), S # {}
  PROVE  \E i \in S : \A j \in S : i <= j
<1> DEFINE UpTo(i) == {k \in S : k <= i}
<1> DEFINE T == {UpTo(i) : i \in S}
<1>1. IsFiniteSet(S)
  <2>1. IsFiniteSet(1 .. n)
    BY FS_Interval
  <2> QED
    BY <2>1, FS_Subset
<1>2. T \subseteq FiniteSubsetsOf(S)
  <2> SUFFICES ASSUME NEW i \in S PROVE UpTo(i) \in FiniteSubsetsOf(S)
    OBVIOUS
  <2>1. UpTo(i) \in SUBSET S
    OBVIOUS
  <2>2. IsFiniteSet(UpTo(i))
    BY <1>1, <2>1, FS_Subset
  <2> QED
    BY <2>1, <2>2 DEF FiniteSubsetsOf
<1>3. PICK t \in T : \A u \in T : ~(<<u, t>> \in StrictSubsetOrdering(S))
  <2>1. T # {}
    OBVIOUS
  <2>2. IsWellFoundedOn(StrictSubsetOrdering(S), FiniteSubsetsOf(S))
    BY FS_StrictSubsetOrderingWellFounded
  <2> HIDE DEF T
  <2> QED
    BY <1>2, <2>1, <2>2, WFMin
<1>4. PICK i \in S : t = UpTo(i)
  BY <1>3
<1>5. ASSUME NEW j \in S, j < i PROVE FALSE
  <2>1. UpTo(j) \subseteq UpTo(i) /\ UpTo(j) # UpTo(i)
    <3>1. i \in UpTo(i) /\ i \notin UpTo(j)
      BY <1>5
    <3>2. \A k \in S : k <= j => k <= i
      <4>1. \A k \in S : k \in Int
        OBVIOUS
      <4> QED
        BY <1>5, <4>1
    <3> QED
      BY <3>1, <3>2
  <2>2. UpTo(j) \in SUBSET S /\ UpTo(i) \in SUBSET S /\ UpTo(j) \in T
    OBVIOUS
  <2> HIDE DEF UpTo, T
  <2> QED
    BY <1>3, <1>4, <2>1, <2>2 DEF StrictSubsetOrdering
<1> HIDE DEF UpTo, T
<1>6. \A j \in S : ~(j < i)
  <2> SUFFICES ASSUME NEW j \in S, j < i PROVE FALSE
    OBVIOUS
  <2> QED
    BY <1>5
<1>7. \A j \in S : i \in Int /\ j \in Int
  OBVIOUS
<1> QED
  BY <1>6, <1>7

(* The queue of list writes.                                               *)

RowType == [st : {"none", "live", "dead"}, gid : 0 .. 4, name : Names, filed : BOOLEAN]
OpType ==
  [k : {"create", "recreate", "rename", "folder", "delete", "mdelete", "move"}, l : LocalRows, t : 0 .. 2,
   name : Names, filed : BOOLEAN, wasName : Names, wasFiled : BOOLEAN, gone : SUBSET Tasks,
   counted : Nat, cmd : Nat, undoes : Nat, dep : Nat,
   st : {"pending", "inflight", "unknown", "done", "failed", "gone"}]
CacheType ==
  [rows : [LocalRows -> RowType], tasks : [Tasks -> [list : 0 .. 4, live : BOOLEAN]], ops : Seq(OpType),
   written : SUBSET LocalRows, parted : SUBSET LocalRows, ready : SUBSET Gids, reread : BOOLEAN,
   link : [Gids -> SUBSET (0 .. 2)]]

SameList(ops, i, j) == ops[i].k # "move" /\ ops[j].k # "move" /\ ops[i].l = ops[j].l

\* Of the renames of r before the n-th operation, e is the last one still to be answered.
LastAsked(ops, n, r, e) ==
  /\ e < n /\ ops[e].k = "rename" /\ ops[e].l = r /\ Unresolved(ops[e])
  /\ \A x \in DOMAIN ops : e < x /\ x < n /\ ops[x].k = "rename" /\ ops[x].l = r => ~Unresolved(ops[x])

\* An operation waits only for an earlier one on the same thing, and its row is cached.
WaitsOK(rows, ops) ==
  \A i \in DOMAIN ops :
    /\ rows[ops[i].l].st # "none"
    /\ ops[i].dep # 0 => ops[i].dep < i /\ Entity(ops[ops[i].dep]) = Entity(ops[i])

\* It waits for every earlier one on its list: for the last of them, which waits in turn.
Chained(ops, parted) ==
  \A i, j \in DOMAIN ops :
    /\ j < i /\ SameList(ops, i, j) /\ ops[i].l \notin parted
    /\ Unresolved(ops[i]) /\ Unresolved(ops[j])
    => ops[i].st # "inflight" /\ j <= ops[i].dep /\ Unresolved(ops[ops[i].dep])

\* What undoing it puts back is the name asked for before it.
GoesBack(ops, parted) ==
  \A i \in DOMAIN ops :
    ops[i].k \in {"rename", "delete", "mdelete"} /\ Unresolved(ops[i]) /\ ops[i].l \notin parted =>
      \A e \in DOMAIN ops : LastAsked(ops, i, ops[i].l, e) => ops[i].wasName = ops[e].name

\* A row has the name asked for last.
NamedAsAsked(rows, ops, parted) ==
  \A r \in LocalRows \ parted : \A e \in DOMAIN ops :
    LastAsked(ops, Len(ops) + 1, r, e) => rows[r].name = ops[e].name

QueueOK(rows, ops, parted) ==
  /\ WaitsOK(rows, ops)
  /\ Chained(ops, parted)
  /\ GoesBack(ops, parted)
  /\ NamedAsAsked(rows, ops, parted)

CacheOK(c) == c \in CacheType /\ QueueOK(c.rows, c.ops, c.parted)

\* The same write, whatever became of it.
SameWrite(o, p) ==
  o.k = p.k /\ o.l = p.l /\ o.t = p.t /\ o.name = p.name /\ o.wasName = p.wasName /\ o.dep = p.dep

\* Answers leave no gap: what stays unresolved on a list is what is before one of its operations, or all
\* but the first of them.
LEMMA AnswersKeepQueue ==
  ASSUME NEW rows \in [LocalRows -> RowType], NEW ops \in Seq(OpType), NEW parted,
         NEW rows2 \in [LocalRows -> RowType], NEW ops2 \in Seq(OpType), NEW parted2,
         QueueOK(rows, ops, parted), Len(ops2) = Len(ops), parted \subseteq parted2,
         \A i \in DOMAIN ops : SameWrite(ops[i], ops2[i]) /\ (Unresolved(ops2[i]) => Unresolved(ops[i])),
         \A r \in LocalRows : rows[r].st # "none" => rows2[r].st # "none",
         \A i \in DOMAIN ops : ops2[i].st = "inflight" =>
            \/ ops[i].st = "inflight"
            \/ \A j \in DOMAIN ops : j < i /\ SameList(ops, i, j) /\ ops[i].l \notin parted2 => ~Unresolved(ops[j]),
         \A i, x, y \in DOMAIN ops :
            /\ y < x /\ x < i /\ SameList(ops, i, x) /\ SameList(ops, i, y) /\ ops[i].l \notin parted2
            /\ Unresolved(ops[y]) /\ Unresolved(ops[x]) /\ Unresolved(ops2[i])
            => Unresolved(ops2[x]),
         NamedAsAsked(rows2, ops2, parted2)
  PROVE  QueueOK(rows2, ops2, parted2)
<1>1. DOMAIN ops = 1 .. Len(ops) /\ DOMAIN ops2 = DOMAIN ops /\ Len(ops) \in Nat
  OBVIOUS
<1>2. \A i \in DOMAIN ops : ops[i] \in OpType /\ ops2[i] \in OpType
  BY <1>1
<1>3. \A i \in DOMAIN ops : Entity(ops[i]) = Entity(ops2[i])
  BY DEF SameWrite, Entity
<1>4. \A i, j \in DOMAIN ops : SameList(ops, i, j) <=> SameList(ops2, i, j)
  BY DEF SameWrite, SameList
<1>5. WaitsOK(rows2, ops2)
  <2> SUFFICES ASSUME NEW i \in DOMAIN ops
               PROVE  /\ rows2[ops2[i].l].st # "none"
                      /\ ops2[i].dep # 0 => ops2[i].dep < i /\ Entity(ops2[ops2[i].dep]) = Entity(ops2[i])
    BY <1>1 DEF WaitsOK
  <2>1. rows[ops[i].l].st # "none" /\ ops[i].l \in LocalRows /\ ops[i].l = ops2[i].l /\ ops[i].dep = ops2[i].dep
        /\ ops[i].dep \in Nat
    BY <1>2 DEF QueueOK, WaitsOK, SameWrite, OpType
  <2>2. ops[i].dep # 0 => ops[i].dep < i /\ Entity(ops[ops[i].dep]) = Entity(ops[i])
    BY DEF QueueOK, WaitsOK
  <2>3. ops[i].dep # 0 => ops[i].dep \in DOMAIN ops
    BY <1>1, <2>1, <2>2
  <2> QED
    BY <1>3, <2>1, <2>2, <2>3
<1>6. Chained(ops2, parted2)
  <2> SUFFICES ASSUME NEW i \in DOMAIN ops, NEW j \in DOMAIN ops, j < i, SameList(ops, i, j), ops[i].l \notin parted2,
                      Unresolved(ops2[i]), Unresolved(ops2[j])
               PROVE  ops2[i].st # "inflight" /\ j <= ops2[i].dep /\ Unresolved(ops2[ops2[i].dep])
    BY <1>1, <1>4 DEF Chained, SameWrite
  <2>1. Unresolved(ops[i]) /\ Unresolved(ops[j]) /\ ops[i].l \notin parted
    OBVIOUS
  <2>2. ops[i].st # "inflight" /\ j <= ops[i].dep /\ Unresolved(ops[ops[i].dep])
    BY <2>1 DEF QueueOK, Chained
  <2>3. ops[i].dep = ops2[i].dep /\ ops[i].dep \in Nat /\ i \in Nat /\ j \in Nat /\ j > 0
    <3>1. ops[i].dep = ops2[i].dep
      BY DEF SameWrite
    <3>2. ops[i].dep \in Nat
      BY <1>2 DEF OpType
    <3> QED
      BY <1>1, <3>1, <3>2
  <2>4. ops[i].dep # 0 /\ ops[i].dep < i /\ Entity(ops[ops[i].dep]) = Entity(ops[i])
    BY <2>2, <2>3 DEF QueueOK, WaitsOK
  <2>5. ops[i].dep \in DOMAIN ops
    BY <1>1, <2>3, <2>4
  <2>6. SameList(ops, i, ops[i].dep)
    BY <2>4 DEF SameList, Entity
  <2>7. Unresolved(ops2[ops[i].dep])
    <3>1. CASE j = ops[i].dep
      BY <3>1
    <3>2. CASE j < ops[i].dep
      BY <2>1, <2>2, <2>4, <2>5, <2>6, <3>2
    <3> QED
      BY <2>2, <2>3, <3>1, <3>2
  <2>8. ops2[i].st # "inflight"
    BY <2>1, <2>2
  <2> QED
    BY <2>2, <2>3, <2>7, <2>8
<1>7. GoesBack(ops2, parted2)
  <2> SUFFICES ASSUME NEW i \in DOMAIN ops, NEW e \in DOMAIN ops, ops[i].k \in {"rename", "delete", "mdelete"},
                      Unresolved(ops2[i]), ops[i].l \notin parted2, LastAsked(ops2, i, ops[i].l, e)
               PROVE  ops[i].wasName = ops[e].name
    BY <1>1 DEF GoesBack, SameWrite
  <2>1. e < i /\ ops[e].k = "rename" /\ ops[e].l = ops[i].l /\ Unresolved(ops2[e]) /\ Unresolved(ops[e])
    BY DEF LastAsked, SameWrite
  <2>2. ASSUME NEW x \in DOMAIN ops, e < x, x < i, ops[x].k = "rename", ops[x].l = ops[i].l PROVE ~Unresolved(ops[x])
    <3>1. ~Unresolved(ops2[x])
      BY <1>1, <2>2 DEF LastAsked, SameWrite
    <3>2. SameList(ops, i, x) /\ SameList(ops, i, e)
      BY <2>1, <2>2 DEF SameList
    <3> QED
      BY <2>1, <2>2, <3>1, <3>2
  <2>3. LastAsked(ops, i, ops[i].l, e)
    BY <2>1, <2>2 DEF LastAsked
  <2>4. Unresolved(ops[i]) /\ ops[i].l \notin parted
    OBVIOUS
  <2> QED
    BY <2>3, <2>4 DEF QueueOK, GoesBack
<1> QED
  BY <1>5, <1>6, <1>7 DEF QueueOK

\* Everything queued on a list after an operation of its waits on it: nothing of it is sent.
LEMMA LaterWaits ==
  ASSUME NEW rows, NEW ops \in Seq(OpType), NEW parted, QueueOK(rows, ops, parted),
         NEW i \in DOMAIN ops, Unresolved(ops[i]), ops[i].l \notin parted,
         NEW j \in DOMAIN ops, i < j, SameList(ops, i, j), Unresolved(ops[j])
  PROVE  j \in Behind(ops, i)
<1>1. DOMAIN ops = 1 .. Len(ops) /\ Len(ops) \in Nat /\ \A x \in DOMAIN ops : ops[x] \in OpType
  OBVIOUS
<1>2. ops[j].st # "inflight" /\ ops[j].l \notin parted
  BY DEF QueueOK, Chained, SameList
<1>3. ASSUME NEW S \in SUBSET DOMAIN ops, WaitingOn(ops, S \union {i}) \subseteq S, j \notin S PROVE FALSE
  <2> DEFINE T == {x \in DOMAIN ops : i < x /\ SameList(ops, i, x) /\ Unresolved(ops[x]) /\ x \notin S}
  <2>1. PICK x \in T : \A y \in T : x <= y
    <3>1. T # {} /\ T \in SUBSET (1 .. Len(ops))
      BY <1>1, <1>3
    <3> HIDE DEF T
    <3> QED
      BY <1>1, <3>1, FirstPosition
  <2>2. x \in DOMAIN ops /\ i < x /\ SameList(ops, x, i) /\ ops[x].l \notin parted /\ Unresolved(ops[x])
    BY <2>1 DEF SameList
  <2>3. i <= ops[x].dep /\ Unresolved(ops[ops[x].dep])
    BY <2>2 DEF QueueOK, Chained
  <2>4. ops[x].dep \in Nat /\ i \in Nat /\ i > 0 /\ x \in Nat
    <3>1. ops[x].dep \in Nat
      BY <1>1, <2>2 DEF OpType
    <3> QED
      BY <1>1, <2>2, <3>1
  <2>5. ops[x].dep < x /\ Entity(ops[ops[x].dep]) = Entity(ops[x])
    BY <2>2, <2>3, <2>4 DEF QueueOK, WaitsOK
  <2>6. ops[x].dep \in DOMAIN ops /\ SameList(ops, i, ops[x].dep)
    BY <1>1, <2>2, <2>3, <2>4, <2>5 DEF SameList, Entity
  <2>7. ops[x].dep \in S \union {i}
    <3>1. CASE ops[x].dep = i
      BY <3>1
    <3>2. CASE i < ops[x].dep
      <4>1. ops[x].dep \notin T
        BY <2>1, <2>4, <2>5
      <4> QED
        BY <2>3, <2>6, <3>2, <4>1
    <3> QED
      BY <2>3, <2>4, <3>1, <3>2
  <2>8. x \in S
    BY <1>3, <2>2, <2>7 DEF WaitingOn
  <2> QED
    BY <2>1, <2>8
<1> QED
  BY <1>2, <1>3 DEF Behind, Unresolved

\* What waits on an operation is a later one on the same list, or task.
LEMMA BehindIsLater ==
  ASSUME NEW rows, NEW ops \in Seq(OpType), WaitsOK(rows, ops), NEW i \in DOMAIN ops, NEW j \in Behind(ops, i)
  PROVE  j \in DOMAIN ops /\ i < j /\ Entity(ops[j]) = Entity(ops[i]) /\ ops[j].st \in {"pending", "unknown"}
<1> DEFINE S == {x \in DOMAIN ops : i < x /\ Entity(ops[x]) = Entity(ops[i])}
<1>1. DOMAIN ops = 1 .. Len(ops) /\ Len(ops) \in Nat /\ \A x \in DOMAIN ops : ops[x] \in OpType
  OBVIOUS
<1>2. WaitingOn(ops, S \union {i}) \subseteq S
  <2> SUFFICES ASSUME NEW x \in DOMAIN ops, ops[x].dep \in S \union {i} PROVE x \in S
    BY DEF WaitingOn
  <2>1. ops[x].dep \in DOMAIN ops /\ i <= ops[x].dep /\ Entity(ops[ops[x].dep]) = Entity(ops[i])
    BY <1>1
  <2>2. ops[x].dep < x /\ Entity(ops[ops[x].dep]) = Entity(ops[x])
    BY <1>1, <2>1 DEF WaitsOK
  <2> QED
    BY <1>1, <2>1, <2>2
<1>3. S \in SUBSET DOMAIN ops
  OBVIOUS
<1> HIDE DEF S
<1>4. j \in S /\ j \in DOMAIN ops /\ ops[j].st \in {"pending", "unknown"}
  BY <1>2, <1>3 DEF Behind
<1> QED
  BY <1>4 DEF S

\* Of some writes of one kind on a row, one is the latest.
LEMMA LatestOfSome ==
  ASSUME NEW n \in Nat, NEW S \in SUBSET (1 .. n)
  PROVE  IF S = {} THEN Latest(S) = 0 ELSE Latest(S) \in S /\ \A j \in S : j <= Latest(S)
<1>1. CASE S = {}
  BY <1>1 DEF Latest
<1>2. CASE S # {}
  <2> DEFINE T == {n + 1 - i : i \in S}
  <2>1. T \in SUBSET (1 .. n) /\ T # {}
    <3>1. \A i \in S : i \in Nat /\ 1 <= i /\ i <= n
      OBVIOUS
    <3>2. \A i \in S : n + 1 - i \in 1 .. n
      BY <3>1
    <3> QED
      BY <1>2, <3>2
  <2>2. PICK t \in T : \A u \in T : t <= u
    <3> HIDE DEF T
    <3> QED
      BY <2>1, FirstPosition
  <2>3. PICK i \in S : t = n + 1 - i
    BY <2>2
  <2>4. \A j \in S : j <= i
    <3> SUFFICES ASSUME NEW j \in S PROVE j <= i
      OBVIOUS
    <3>1. n + 1 - j \in T
      OBVIOUS
    <3>2. n + 1 - i <= n + 1 - j
      BY <2>2, <2>3, <3>1
    <3> QED
      BY <3>2
  <2> HIDE DEF T
  <2>5. Latest(S) = CHOOSE x \in S : \A j \in S : j <= x
    BY <1>2 DEF Latest
  <2> QED
    BY <1>2, <2>4, <2>5
<1> QED
  BY <1>1, <1>2

\* An operation added waits for what is on its list, and its row has the name it asks for.
Waiting(ops, op) == [op EXCEPT !.dep = Latest(UnresolvedBefore(ops, Len(ops) + 1, op))]

\* What an operation waits on is an earlier one, or nothing.
LEMMA WaitingType ==
  ASSUME NEW ops \in Seq(OpType), NEW op \in OpType
  PROVE  /\ Waiting(ops, op) \in OpType /\ SameWrite([op EXCEPT !.dep = 0], [Waiting(ops, op) EXCEPT !.dep = 0])
         /\ Waiting(ops, op).st = op.st /\ Entity(Waiting(ops, op)) = Entity(op)
         /\ LET d == Waiting(ops, op).dep
                before == UnresolvedBefore(ops, Len(ops) + 1, op)
            IN  IF before = {} THEN d = 0 ELSE d \in before /\ \A j \in before : j <= d
<1> DEFINE before == UnresolvedBefore(ops, Len(ops) + 1, op)
<1>1. before \in SUBSET (1 .. Len(ops)) /\ Len(ops) \in Nat
  BY DEF UnresolvedBefore
<1> HIDE DEF before
<1>2. IF before = {} THEN Latest(before) = 0 ELSE Latest(before) \in before /\ \A j \in before : j <= Latest(before)
  BY <1>1, LatestOfSome
<1>3. Latest(before) \in Nat
  <2>1. \A j \in before : j \in Nat
    BY <1>1
  <2> QED
    BY <1>2, <2>1
<1>4. Waiting(ops, op) = [op EXCEPT !.dep = Latest(before)]
  BY DEF Waiting, before
<1>5. Waiting(ops, op) \in OpType
  BY <1>3, <1>4 DEF OpType
<1>6. Waiting(ops, op).dep = Latest(before)
  BY <1>4 DEF OpType
<1>7. SameWrite([op EXCEPT !.dep = 0], [Waiting(ops, op) EXCEPT !.dep = 0])
  BY <1>3, <1>4 DEF OpType, SameWrite
<1>8. Waiting(ops, op).st = op.st /\ Entity(Waiting(ops, op)) = Entity(op)
  BY <1>3, <1>4 DEF OpType, Entity
<1> QED
  BY <1>2, <1>5, <1>6, <1>7, <1>8 DEF before

\* Queueing behind the latest unresolved write of the same list keeps the queue in order.
LEMMA InsertKeepsQueue ==
  ASSUME NEW rows \in [LocalRows -> RowType], NEW ops \in Seq(OpType), NEW parted,
         NEW rows2 \in [LocalRows -> RowType], NEW op \in OpType, QueueOK(rows, ops, parted), op.st = "pending",
         rows2[op.l].st # "none", \A r \in LocalRows : rows[r].st # "none" => rows2[r].st # "none",
         op.k = "rename" => rows2[op.l].name = op.name,
         op.k \in {"rename", "delete", "mdelete"} => op.wasName = rows[op.l].name,
         \A r \in LocalRows : \/ rows2[r].name = rows[r].name
                              \/ r = op.l /\ op.k = "rename"
                              \/ \A i \in DOMAIN ops : ops[i].l # r
  PROVE  QueueOK(rows2, Append(ops, Waiting(ops, op)), parted)
<1> DEFINE new == Waiting(ops, op)
           n == Len(ops) + 1
           ops2 == Append(ops, new)
           before == UnresolvedBefore(ops, n, op)
<1>1. new \in OpType /\ new.st = "pending" /\ Entity(new) = Entity(op)
  BY WaitingType
<1>2. IF before = {} THEN new.dep = 0 ELSE new.dep \in before /\ \A j \in before : j <= new.dep
  BY WaitingType
<1>3. new.k = op.k /\ new.l = op.l /\ new.name = op.name /\ new.wasName = op.wasName
  BY DEF Waiting, OpType
<1>4. DOMAIN ops = 1 .. Len(ops) /\ Len(ops) \in Nat /\ n \in Nat /\ Len(ops2) = n /\ DOMAIN ops2 = 1 .. n
  BY <1>1
<1>5. \A i \in DOMAIN ops : ops2[i] = ops[i] /\ ops[i] \in OpType /\ i < n /\ i \in DOMAIN ops2
  BY <1>1, <1>4
<1>6. ops2[n] = new /\ \A i \in DOMAIN ops2 : i = n \/ i \in DOMAIN ops
  BY <1>1, <1>4
<1>7. Unresolved(new)
  BY <1>1 DEF Unresolved
<1> HIDE DEF new, ops2
<1>8. \A m, e \in Nat : \A r : m <= n /\ e \in DOMAIN ops /\ LastAsked(ops2, m, r, e) => LastAsked(ops, m, r, e)
  <2> SUFFICES ASSUME NEW m \in Nat, NEW e \in DOMAIN ops, NEW r, m <= n, LastAsked(ops2, m, r, e)
               PROVE  LastAsked(ops, m, r, e)
    OBVIOUS
  <2> QED
    BY <1>5 DEF LastAsked
<1>9. WaitsOK(rows2, ops2)
  <2> SUFFICES ASSUME NEW i \in DOMAIN ops2
               PROVE  /\ rows2[ops2[i].l].st # "none"
                      /\ ops2[i].dep # 0 => ops2[i].dep < i /\ Entity(ops2[ops2[i].dep]) = Entity(ops2[i])
    BY DEF WaitsOK
  <2>1. CASE i = n
    <3>1. new.dep # 0 => new.dep \in before
      BY <1>2
    <3>2. new.dep # 0 => new.dep \in DOMAIN ops /\ new.dep < n /\ Entity(ops[new.dep]) = Entity(op)
      BY <3>1 DEF UnresolvedBefore
    <3> QED
      BY <1>1, <1>3, <1>5, <1>6, <2>1, <3>2
  <2>2. CASE i \in DOMAIN ops
    <3>1. rows[ops[i].l].st # "none" /\ (ops[i].dep # 0 => ops[i].dep < i /\ Entity(ops[ops[i].dep]) = Entity(ops[i]))
      BY <2>2 DEF QueueOK, WaitsOK
    <3>2. ops[i].dep \in Nat /\ ops[i].l \in LocalRows
      BY <1>5, <2>2 DEF OpType
    <3>3. ops[i].dep # 0 => ops[i].dep \in DOMAIN ops
      BY <1>4, <2>2, <3>1, <3>2
    <3> QED
      BY <1>5, <2>2, <3>1, <3>2, <3>3
  <2> QED
    BY <1>6, <2>1, <2>2
<1>10. Chained(ops2, parted)
  <2> SUFFICES ASSUME NEW i \in DOMAIN ops2, NEW j \in DOMAIN ops2, j < i, SameList(ops2, i, j),
                      ops2[i].l \notin parted, Unresolved(ops2[i]), Unresolved(ops2[j])
               PROVE  ops2[i].st # "inflight" /\ j <= ops2[i].dep /\ Unresolved(ops2[ops2[i].dep])
    BY DEF Chained
  <2>1. j \in DOMAIN ops
    BY <1>4, <1>6
  <2>2. CASE i = n
    <3>1. Entity(ops[j]) = Entity(op)
      BY <1>3, <1>5, <1>6, <2>1, <2>2 DEF SameList, Entity
    <3>2. j \in before
      BY <1>5, <2>1, <3>1 DEF UnresolvedBefore
    <3>3. j <= new.dep /\ new.dep \in before
      BY <1>2, <3>2
    <3>4. Unresolved(ops2[new.dep])
      BY <1>5, <3>3 DEF UnresolvedBefore
    <3> QED
      BY <1>1, <1>6, <2>2, <3>3, <3>4
  <2>3. CASE i \in DOMAIN ops
    <3>1. SameList(ops, i, j) /\ ops[i].l \notin parted /\ Unresolved(ops[i]) /\ Unresolved(ops[j])
      BY <1>5, <2>1, <2>3 DEF SameList
    <3>2. ops[i].st # "inflight" /\ j <= ops[i].dep /\ Unresolved(ops[ops[i].dep])
      BY <2>1, <2>3, <3>1 DEF QueueOK, Chained
    <3>3. ops[i].dep \in Nat
      BY <1>5, <2>3 DEF OpType
    <3>4. ops[i].dep \in DOMAIN ops
      <4>1. ops[i].dep # 0 /\ ops[i].dep < i
        BY <1>4, <2>1, <2>3, <3>2, <3>3 DEF QueueOK, WaitsOK
      <4> QED
        BY <1>4, <2>3, <3>3, <4>1
    <3> QED
      BY <1>5, <2>3, <3>2, <3>4
  <2> QED
    BY <1>6, <2>2, <2>3
<1>11. GoesBack(ops2, parted)
  <2> SUFFICES ASSUME NEW i \in DOMAIN ops2, ops2[i].k \in {"rename", "delete", "mdelete"},
                      Unresolved(ops2[i]), ops2[i].l \notin parted,
                      NEW e \in DOMAIN ops2, LastAsked(ops2, i, ops2[i].l, e)
               PROVE  ops2[i].wasName = ops2[e].name
    BY DEF GoesBack
  <2>1. e \in DOMAIN ops /\ i \in Nat /\ i <= n /\ e \in Nat
    BY <1>4, <1>6 DEF LastAsked
  <2>2. LastAsked(ops, i, ops2[i].l, e)
    BY <1>8, <2>1
  <2>3. CASE i = n
    <3>1. op.l \in LocalRows /\ op.l \notin parted /\ op.wasName = rows[op.l].name
      BY <1>3, <1>6, <2>3 DEF OpType
    <3> QED
      BY <1>3, <1>5, <1>6, <2>1, <2>2, <2>3, <3>1 DEF QueueOK, NamedAsAsked
  <2>4. CASE i \in DOMAIN ops
    BY <1>5, <2>1, <2>2, <2>4 DEF QueueOK, GoesBack
  <2> QED
    BY <1>6, <2>3, <2>4
<1>12. NamedAsAsked(rows2, ops2, parted)
  <2> SUFFICES ASSUME NEW r \in LocalRows \ parted, NEW e \in DOMAIN ops2, LastAsked(ops2, n + 1, r, e)
               PROVE  rows2[r].name = ops2[e].name
    BY <1>4 DEF NamedAsAsked
  <2>1. CASE e = n
    BY <1>3, <1>6, <2>1 DEF LastAsked
  <2>2. CASE e \in DOMAIN ops
    <3>1. ~(op.k = "rename" /\ op.l = r)
      <4>1. n \in DOMAIN ops2 /\ e < n /\ n < n + 1
        BY <1>4, <1>5, <2>2
      <4> QED
        BY <1>3, <1>6, <1>7, <4>1 DEF LastAsked
    <3>2. LastAsked(ops2, n, r, e)
      BY <1>4, <1>5, <2>2 DEF LastAsked
    <3>3. LastAsked(ops, n, r, e)
      BY <1>4, <1>8, <2>2, <3>2
    <3>4. rows[r].name = ops[e].name
      BY <2>2, <3>3 DEF QueueOK, NamedAsAsked
    <3>5. ops[e].l = r
      BY <3>3 DEF LastAsked
    <3> QED
      BY <1>5, <2>2, <3>1, <3>4, <3>5
  <2> QED
    BY <1>6, <2>1, <2>2
<1> QED
  BY <1>9, <1>10, <1>11, <1>12 DEF QueueOK, new, ops2

\* What is being sent stays so.
StillSent(c, d) ==
  \A i \in DOMAIN c.ops : c.ops[i].st = "inflight" =>
    i \in DOMAIN d.ops /\ d.ops[i].st = "inflight" /\ d.ops[i].k = c.ops[i].k

\* What is queued is an operation.
LEMMA NewOpType ==
  ASSUME NEW k \in {"create", "recreate", "rename", "folder", "delete", "mdelete", "move"},
         NEW l \in LocalRows, NEW cmd \in Nat
  PROVE  Op(k, l, cmd) \in OpType /\ Op(k, l, cmd).k = k /\ Op(k, l, cmd).l = l /\ Op(k, l, cmd).st = "pending"
BY ListsConstants DEF Op, OpType

\* A command has a number of its own.
LEMMA NewCmdType == ASSUME NEW c \in CacheType PROVE NewCmd(c) \in Nat
<1>1. c.ops \in Seq(OpType)
  BY DEF CacheType
<1>2. CASE c.ops = <<>>
  BY <1>2 DEF NewCmd
<1>3. CASE c.ops # <<>>
  <2>1. Len(c.ops) \in 1 .. Len(c.ops)
    BY <1>1, <1>3
  <2>2. c.ops[Len(c.ops)] \in OpType
    BY <1>1, <2>1
  <2>3. c.ops[Len(c.ops)].cmd \in Nat
    BY <2>2 DEF OpType
  <2> QED
    BY <1>3, <2>3 DEF NewCmd
<1> QED
  BY <1>2, <1>3

\* Adding an operation, with its change to its row.
LEMMA AddedKeepsCache ==
  ASSUME NEW c, CacheOK(c), NEW op \in OpType, op.st = "pending", NEW d \in CacheType,
         d.ops = InsertOp(c, op).ops, d.parted = c.parted,
         d.rows[op.l].st # "none", \A r \in LocalRows : c.rows[r].st # "none" => d.rows[r].st # "none",
         op.k = "rename" => d.rows[op.l].name = op.name,
         op.k \in {"rename", "delete", "mdelete"} => op.wasName = c.rows[op.l].name,
         \A r \in LocalRows : \/ d.rows[r].name = c.rows[r].name
                              \/ r = op.l /\ op.k = "rename"
                              \/ \A i \in DOMAIN c.ops : c.ops[i].l # r
  PROVE  CacheOK(d) /\ StillSent(c, d)
<1>1. c \in CacheType /\ QueueOK(c.rows, c.ops, c.parted)
  BY DEF CacheOK
<1>2. c.ops \in Seq(OpType) /\ c.rows \in [LocalRows -> RowType] /\ d.rows \in [LocalRows -> RowType]
  BY <1>1 DEF CacheType
<1>3. d.ops = Append(c.ops, Waiting(c.ops, op))
  BY <1>1 DEF CacheType, InsertOp, Waiting
<1>4. QueueOK(d.rows, d.ops, d.parted)
  BY <1>1, <1>2, <1>3, InsertKeepsQueue
<1>5. StillSent(c, d)
  <2>1. Waiting(c.ops, op) \in OpType
    BY <1>2, WaitingType
  <2>2. \A i \in DOMAIN c.ops : i \in DOMAIN d.ops /\ d.ops[i] = c.ops[i]
    BY <1>2, <1>3, <2>1
  <2> QED
    BY <2>2 DEF StillSent
<1> QED
  BY <1>4, <1>5 DEF CacheOK

\* Queueing an operation leaves a cache.
LEMMA InsertType ==
  ASSUME NEW c \in CacheType, NEW op \in OpType
  PROVE  /\ InsertOp(c, op) \in CacheType
         /\ InsertOp(c, op) = [c EXCEPT !.ops = InsertOp(c, op).ops]
         /\ InsertOp(c, op).rows = c.rows /\ InsertOp(c, op).parted = c.parted /\ InsertOp(c, op).tasks = c.tasks
         /\ InsertOp(c, op).written = c.written
<1>1. c.ops \in Seq(OpType)
  BY DEF CacheType
<1>2. Waiting(c.ops, op) \in OpType
  BY <1>1, WaitingType
<1>3. InsertOp(c, op) = [c EXCEPT !.ops = Append(c.ops, Waiting(c.ops, op))]
  BY DEF InsertOp, Waiting
<1>4. Append(c.ops, Waiting(c.ops, op)) \in Seq(OpType)
  BY <1>1, <1>2
<1> QED
  BY <1>3, <1>4 DEF CacheType

\* rename_list keeps the cache: the row shows the name it just queued.
LEMMA RenameKeepsCache ==
  ASSUME NEW c, CacheOK(c), NEW r \in LocalRows, c.rows[r].st # "none", NEW name \in Names,
         NEW cmd \in Nat, NEW undoes \in Nat
  PROVE  CacheOK(EnqueueRename(c, r, name, cmd, undoes)) /\ StillSent(c, EnqueueRename(c, r, name, cmd, undoes))
<1> DEFINE op == [Op("rename", r, cmd) EXCEPT !.name = name, !.wasName = c.rows[r].name, !.undoes = undoes]
           d == EnqueueRename(c, r, name, cmd, undoes)
           queued == InsertOp(c, op)
<1>1. c \in CacheType /\ c.rows[r] \in RowType
  BY DEF CacheOK, CacheType
<1>0. Op("rename", r, cmd) \in OpType /\ Op("rename", r, cmd).k = "rename" /\ Op("rename", r, cmd).l = r /\ Op("rename", r, cmd).st = "pending"
  BY NewOpType
<1>2. op \in OpType /\ op.k = "rename" /\ op.l = r /\ op.st = "pending" /\ op.name = name /\ op.wasName = c.rows[r].name
  BY <1>0, <1>1 DEF OpType, RowType
<1>3. queued \in CacheType /\ queued.rows = c.rows /\ queued.parted = c.parted /\ queued.written = c.written
  BY <1>1, <1>2, InsertType
<1>4. d = [queued EXCEPT !.rows[r].name = name, !.written = @ \union {r}]
  BY DEF EnqueueRename
<1> HIDE DEF op, d, queued
<1>6. \A x \in LocalRows : c.rows[x] \in RowType
  BY <1>1 DEF CacheType
<1>5. d \in CacheType /\ d.ops = queued.ops /\ d.parted = c.parted /\ d.rows = [c.rows EXCEPT ![r].name = name]
  <2>1. [c.rows EXCEPT ![r].name = name] \in [LocalRows -> RowType]
    BY <1>1, <1>6 DEF CacheType, RowType
  <2>2. d = [queued EXCEPT !.rows = [c.rows EXCEPT ![r].name = name], !.written = c.written \union {r}]
    BY <1>3, <1>4 DEF CacheType
  <2> QED
    BY <1>3, <2>1, <2>2 DEF CacheType
<1>7. /\ d.rows[r].name = name /\ d.rows[r].st = c.rows[r].st
      /\ \A x \in LocalRows : d.rows[x].st = c.rows[x].st /\ (x # r => d.rows[x].name = c.rows[x].name)
  BY <1>1, <1>5, <1>6 DEF CacheType, RowType
<1> QED
  BY <1>2, <1>5, <1>7, AddedKeepsCache DEF op, d, queued

\* Filing a list keeps the cache: it queues no name.
LEMMA FolderKeepsCache ==
  ASSUME NEW c, CacheOK(c), NEW r \in LocalRows, c.rows[r].st # "none", NEW filed \in BOOLEAN,
         NEW cmd \in Nat, NEW undoes \in Nat
  PROVE  CacheOK(EnqueueFolder(c, r, filed, cmd, undoes)) /\ StillSent(c, EnqueueFolder(c, r, filed, cmd, undoes))
<1> DEFINE op == [Op("folder", r, cmd) EXCEPT !.filed = filed, !.wasFiled = c.rows[r].filed, !.undoes = undoes]
           d == EnqueueFolder(c, r, filed, cmd, undoes)
           queued == InsertOp(c, op)
<1>1. c \in CacheType /\ c.rows[r] \in RowType
  BY DEF CacheOK, CacheType
<1>0. Op("folder", r, cmd) \in OpType /\ Op("folder", r, cmd).k = "folder" /\ Op("folder", r, cmd).l = r /\ Op("folder", r, cmd).st = "pending"
  BY NewOpType
<1>2. op \in OpType /\ op.k = "folder" /\ op.l = r /\ op.st = "pending"
  BY <1>0, <1>1 DEF OpType, RowType
<1>3. queued \in CacheType /\ queued.rows = c.rows /\ queued.parted = c.parted /\ queued.written = c.written
  BY <1>1, <1>2, InsertType
<1>4. d = [queued EXCEPT !.rows[r].filed = filed, !.written = @ \union {r}]
  BY DEF EnqueueFolder
<1> HIDE DEF op, d, queued
<1>6. \A x \in LocalRows : c.rows[x] \in RowType
  BY <1>1 DEF CacheType
<1>5. d \in CacheType /\ d.ops = queued.ops /\ d.parted = c.parted /\ d.rows = [c.rows EXCEPT ![r].filed = filed]
  <2>1. [c.rows EXCEPT ![r].filed = filed] \in [LocalRows -> RowType]
    BY <1>1, <1>6 DEF CacheType, RowType
  <2>2. d = [queued EXCEPT !.rows = [c.rows EXCEPT ![r].filed = filed], !.written = c.written \union {r}]
    BY <1>3, <1>4 DEF CacheType
  <2> QED
    BY <1>3, <2>1, <2>2 DEF CacheType
<1>7. \A x \in LocalRows : d.rows[x].st = c.rows[x].st /\ d.rows[x].name = c.rows[x].name
  BY <1>1, <1>5, <1>6 DEF CacheType, RowType
<1>8. d.ops = InsertOp(c, op).ops /\ \A x \in LocalRows : c.rows[x].st # "none" => d.rows[x].st # "none"
  BY <1>5, <1>7 DEF queued
<1>9. CacheOK(d) /\ StillSent(c, d)
  BY <1>2, <1>5, <1>7, <1>8, AddedKeepsCache
<1> QED
  BY <1>9 DEF d

\* create_list keeps the cache: the new row shows the name it queued.
LEMMA CreateKeepsCache ==
  ASSUME NEW c, CacheOK(c), NEW r \in LocalRows, c.rows[r].st = "none", NEW name \in Names, NEW cmd \in Nat
  PROVE  /\ CacheOK(EnqueueCreate(c, r, name, cmd)) /\ StillSent(c, EnqueueCreate(c, r, name, cmd))
         /\ EnqueueCreate(c, r, name, cmd).rows[r].st = "live"
<1> DEFINE op == [Op("create", r, cmd) EXCEPT !.name = name]
           d == EnqueueCreate(c, r, name, cmd)
           queued == InsertOp(c, op)
           row == [st |-> "live", gid |-> 0, name |-> name, filed |-> FALSE]
<1>1. c \in CacheType /\ c.rows[r] \in RowType
  BY DEF CacheOK, CacheType
<1>0. Op("create", r, cmd) \in OpType /\ Op("create", r, cmd).k = "create" /\ Op("create", r, cmd).l = r /\ Op("create", r, cmd).st = "pending"
  BY NewOpType
<1>2. op \in OpType /\ op.k = "create" /\ op.l = r /\ op.st = "pending"
  BY <1>0, <1>1 DEF OpType
<1>3. queued \in CacheType /\ queued.rows = c.rows /\ queued.parted = c.parted /\ queued.written = c.written
  BY <1>1, <1>2, InsertType
<1>4. d = [queued EXCEPT !.rows[r] = row, !.written = @ \union {r}]
  BY DEF EnqueueCreate
<1>5. row \in RowType /\ row.st = "live"
  BY DEF RowType
<1> HIDE DEF op, d, queued, row
<1>6. d \in CacheType /\ d.ops = queued.ops /\ d.parted = c.parted /\ d.rows = [c.rows EXCEPT ![r] = row]
  BY <1>3, <1>4, <1>5 DEF CacheType
<1>7. d.rows[r].st = "live" /\ \A x \in LocalRows : x # r => d.rows[x] = c.rows[x]
  BY <1>1, <1>5, <1>6 DEF CacheType
<1>8. \A i \in DOMAIN c.ops : c.ops[i].l # r
  BY DEF CacheOK, QueueOK, WaitsOK
<1>9. d.ops = InsertOp(c, op).ops /\ \A x \in LocalRows : c.rows[x].st # "none" => d.rows[x].st # "none"
  BY <1>6, <1>7 DEF queued
<1>10. \A x \in LocalRows : d.rows[x].name = c.rows[x].name \/ \A i \in DOMAIN c.ops : c.ops[i].l # x
  BY <1>7, <1>8
<1>11. CacheOK(d) /\ StillSent(c, d)
  BY <1>2, <1>6, <1>7, <1>9, <1>10, AddedKeepsCache
<1> QED
  BY <1>7, <1>11 DEF d

\* Undoing a delete keeps the cache: the row is live again, its create queued behind what is on it.
LEMMA RecreateKeepsCache ==
  ASSUME NEW c, CacheOK(c), NEW r \in LocalRows, c.rows[r].st # "none", NEW cmd \in Nat, NEW undoes \in Nat
  PROVE  /\ CacheOK(EnqueueRecreate(c, r, cmd, undoes)) /\ StillSent(c, EnqueueRecreate(c, r, cmd, undoes))
         /\ EnqueueRecreate(c, r, cmd, undoes).rows[r].st = "live"
<1> DEFINE op == [Op("recreate", r, cmd) EXCEPT !.name = c.rows[r].name, !.undoes = undoes]
           d == EnqueueRecreate(c, r, cmd, undoes)
           queued == InsertOp(c, op)
<1>1. c \in CacheType /\ c.rows[r] \in RowType
  BY DEF CacheOK, CacheType
<1>0. Op("recreate", r, cmd) \in OpType /\ Op("recreate", r, cmd).k = "recreate" /\ Op("recreate", r, cmd).l = r /\ Op("recreate", r, cmd).st = "pending"
  BY NewOpType
<1>2. op \in OpType /\ op.k = "recreate" /\ op.l = r /\ op.st = "pending"
  BY <1>0, <1>1 DEF OpType, RowType
<1>3. queued \in CacheType /\ queued.rows = c.rows /\ queued.parted = c.parted /\ queued.written = c.written
  BY <1>1, <1>2, InsertType
<1>4. d = [queued EXCEPT !.rows[r].gid = 0, !.rows[r].st = "live", !.written = @ \union {r}]
  BY DEF EnqueueRecreate
<1> HIDE DEF op, d, queued
<1> DEFINE rows2 == [c.rows EXCEPT ![r] = [@ EXCEPT !.gid = 0, !.st = "live"]]
<1>7. \A x \in LocalRows : c.rows[x] \in RowType
  BY <1>1 DEF CacheType
<1>9. d = [queued EXCEPT !.rows = rows2, !.written = c.written \union {r}]
  BY <1>1, <1>3, <1>4 DEF CacheType, RowType
<1>5. rows2 \in [LocalRows -> RowType]
  <2>1. [c.rows[r] EXCEPT !.gid = 0, !.st = "live"] \in RowType
    <3>1. [c.rows[r] EXCEPT !.gid = 0] \in RowType
      BY <1>1 DEF RowType
    <3>2. [c.rows[r] EXCEPT !.gid = 0, !.st = "live"] = [[c.rows[r] EXCEPT !.gid = 0] EXCEPT !.st = "live"]
      BY <1>1 DEF RowType
    <3> QED
      BY <3>1, <3>2 DEF RowType
  <2>2. c.rows \in [LocalRows -> RowType]
    BY <1>1 DEF CacheType
  <2> QED
    BY <2>1, <2>2
<1>6. d \in CacheType /\ d.rows = rows2 /\ d.ops = queued.ops /\ d.parted = c.parted
  <2> HIDE DEF rows2
  <2> QED
    BY <1>3, <1>5, <1>9 DEF CacheType
<1>8. d.rows[r].st = "live" /\ d.rows[r].name = c.rows[r].name /\ \A x \in LocalRows : x # r => d.rows[x] = c.rows[x]
  BY <1>1, <1>6, <1>7 DEF CacheType, RowType
<1>10. d.ops = InsertOp(c, op).ops /\ \A x \in LocalRows : d.rows[x].name = c.rows[x].name
  BY <1>6, <1>8 DEF queued
<1>11. \A x \in LocalRows : c.rows[x].st # "none" => d.rows[x].st # "none"
  BY <1>8
<1>12. CacheOK(d) /\ StillSent(c, d)
  BY <1>2, <1>6, <1>8, <1>10, <1>11, AddedKeepsCache
<1> QED
  BY <1>8, <1>12 DEF d

\* A row may change while nothing asks for its name.
LEMMA RowsKeepCache ==
  ASSUME NEW c, CacheOK(c), NEW d \in CacheType, d.ops = c.ops, d.parted = c.parted,
         \A r \in LocalRows : c.rows[r].st # "none" => d.rows[r].st # "none",
         \A r \in LocalRows : \/ d.rows[r].name = c.rows[r].name
                              \/ \A i \in DOMAIN c.ops : c.ops[i].l = r /\ c.ops[i].k = "rename" => ~Unresolved(c.ops[i])
  PROVE  CacheOK(d) /\ StillSent(c, d)
<1>1. c \in CacheType /\ QueueOK(c.rows, c.ops, c.parted) /\ c.ops \in Seq(OpType)
  BY DEF CacheOK, CacheType
<1>2. \A i \in DOMAIN c.ops : c.ops[i].l \in LocalRows
  <2>1. \A i \in DOMAIN c.ops : c.ops[i] \in OpType
    BY <1>1
  <2> QED
    BY <2>1 DEF OpType
<1>3. WaitsOK(d.rows, d.ops)
  BY <1>1, <1>2 DEF QueueOK, WaitsOK
<1>4. NamedAsAsked(d.rows, d.ops, d.parted)
  <2> SUFFICES ASSUME NEW r \in LocalRows \ c.parted, NEW e \in DOMAIN c.ops, LastAsked(c.ops, Len(c.ops) + 1, r, e)
               PROVE  d.rows[r].name = c.ops[e].name
    BY DEF NamedAsAsked
  <2>1. c.ops[e].l = r /\ c.ops[e].k = "rename" /\ Unresolved(c.ops[e])
    BY DEF LastAsked
  <2>2. c.rows[r].name = c.ops[e].name
    BY <1>1 DEF QueueOK, NamedAsAsked
  <2> QED
    BY <2>1, <2>2
<1>5. QueueOK(d.rows, d.ops, d.parted)
  BY <1>1, <1>3, <1>4 DEF QueueOK
<1> QED
  BY <1>5 DEF CacheOK, StillSent

\* A row kept as deleted is still a row.
LEMMA TombstoneType ==
  ASSUME NEW c \in CacheType, NEW r \in LocalRows
  PROVE  /\ Tombstone(c, r) \in CacheType
         /\ Tombstone(c, r).ops = c.ops /\ Tombstone(c, r).parted = c.parted /\ Tombstone(c, r).link = c.link
         /\ Tombstone(c, r).ready = c.ready
         /\ Tombstone(c, r).rows[r].st = "dead"
         /\ \A x \in LocalRows : /\ Tombstone(c, r).rows[x].name = c.rows[x].name
                                 /\ Tombstone(c, r).rows[x].gid = c.rows[x].gid
                                 /\ x # r => Tombstone(c, r).rows[x].st = c.rows[x].st
<1> DEFINE rows2 == [c.rows EXCEPT ![r] = [@ EXCEPT !.st = "dead"]]
           tasks2 == [t \in Tasks |-> [c.tasks[t] EXCEPT !.live = c.tasks[t].live /\ t \notin LiveIn(c, r)]]
           d == Tombstone(c, r)
<1>1. c.rows \in [LocalRows -> RowType] /\ c.tasks \in [Tasks -> [list : 0 .. 4, live : BOOLEAN]]
  BY DEF CacheType
<1>2. d = [c EXCEPT !.rows = rows2, !.tasks = tasks2, !.written = c.written \union {r}]
  <2>1. d = [c EXCEPT !.rows[r].st = "dead", !.tasks = tasks2, !.written = @ \union {r}]
    BY DEF Tombstone
  <2>2. [c EXCEPT !.rows[r].st = "dead"] = [c EXCEPT !.rows = rows2]
    BY DEF CacheType
  <2> HIDE DEF tasks2, d
  <2> QED
    BY <2>1, <2>2 DEF CacheType
<1>3. \A x \in LocalRows : c.rows[x] \in RowType /\ [c.rows[x] EXCEPT !.st = "dead"] \in RowType
  <2>1. \A x \in LocalRows : c.rows[x] \in RowType
    BY <1>1
  <2> QED
    BY <2>1 DEF RowType
<1>4. rows2 \in [LocalRows -> RowType]
  BY <1>1, <1>3
<1>5. tasks2 \in [Tasks -> [list : 0 .. 4, live : BOOLEAN]]
  <2>1. \A t \in Tasks : c.tasks[t] \in [list : 0 .. 4, live : BOOLEAN]
    BY <1>1
  <2>2. \A t \in Tasks : \A b \in BOOLEAN : [c.tasks[t] EXCEPT !.live = b] \in [list : 0 .. 4, live : BOOLEAN]
    BY <2>1
  <2>3. \A t \in Tasks : (c.tasks[t].live /\ t \notin LiveIn(c, r)) \in BOOLEAN
    OBVIOUS
  <2> QED
    BY <2>2, <2>3
<1>6. /\ rows2[r].st = "dead"
      /\ \A x \in LocalRows : /\ rows2[x].name = c.rows[x].name /\ rows2[x].gid = c.rows[x].gid
                              /\ x # r => rows2[x].st = c.rows[x].st
  BY <1>1, <1>3 DEF RowType
<1> HIDE DEF rows2, tasks2, d
<1>7. d \in CacheType /\ d.rows = rows2 /\ d.ops = c.ops /\ d.parted = c.parted /\ d.link = c.link /\ d.ready = c.ready
  BY <1>2, <1>4, <1>5 DEF CacheType
<1>8. /\ d.rows[r].st = "dead"
      /\ \A x \in LocalRows : /\ d.rows[x].name = c.rows[x].name /\ d.rows[x].gid = c.rows[x].gid
                              /\ x # r => d.rows[x].st = c.rows[x].st
  BY <1>6, <1>7
<1> QED
  BY <1>7, <1>8 DEF d

\* delete_list keeps the cache: the row is kept as deleted until the answer.
LEMMA DeleteKeepsCache ==
  ASSUME NEW c, CacheOK(c), NEW r \in LocalRows, c.rows[r].st # "none", NEW counted \in Nat,
         NEW cmd \in Nat, NEW undoes \in Nat
  PROVE  CacheOK(EnqueueDelete(c, r, counted, cmd, undoes)) /\ StillSent(c, EnqueueDelete(c, r, counted, cmd, undoes))
<1> DEFINE op == DeleteOp(c, r, counted, cmd, undoes)
           queued == InsertOp(c, op)
           d == EnqueueDelete(c, r, counted, cmd, undoes)
<1>1. c \in CacheType /\ c.rows[r] \in RowType /\ c.rows[r].name \in Names
  BY DEF CacheOK, CacheType, RowType
<1>2. Op("delete", r, cmd) \in OpType /\ Op("delete", r, cmd).k = "delete" /\ Op("delete", r, cmd).l = r
      /\ Op("delete", r, cmd).st = "pending"
  BY NewOpType
<1>3. LiveIn(c, r) \in SUBSET Tasks
  BY DEF LiveIn
<1>4. op \in OpType /\ op.k = "delete" /\ op.l = r /\ op.st = "pending" /\ op.wasName = c.rows[r].name
  <2>1. op = [Op("delete", r, cmd) EXCEPT !.counted = counted, !.wasName = c.rows[r].name,
                                          !.gone = LiveIn(c, r), !.undoes = undoes]
    BY DEF DeleteOp
  <2> QED
    BY <1>1, <1>2, <1>3, <2>1 DEF OpType
<1>5. d = Tombstone(queued, r)
  BY DEF EnqueueDelete
<1> HIDE DEF op, queued, d
<1>6. queued \in CacheType /\ queued.rows = c.rows /\ queued.parted = c.parted
  BY <1>1, <1>4, InsertType DEF queued
<1>7. /\ d \in CacheType /\ d.ops = queued.ops /\ d.parted = c.parted /\ d.rows[r].st = "dead"
      /\ \A x \in LocalRows : d.rows[x].name = c.rows[x].name /\ (x # r => d.rows[x].st = c.rows[x].st)
  BY <1>5, <1>6, TombstoneType
<1>8. d.ops = InsertOp(c, op).ops /\ d.rows[op.l].st # "none" /\ \A x \in LocalRows : c.rows[x].st # "none" => d.rows[x].st # "none"
  BY <1>4, <1>7 DEF queued
<1>9. CacheOK(d) /\ StillSent(c, d)
  BY <1>4, <1>7, <1>8, AddedKeepsCache
<1> QED
  BY <1>9 DEF d

\* Moving a task out of a list keeps the cache: no name is queued.
LEMMA MoveKeepsCache ==
  ASSUME NEW c, CacheOK(c), NEW r \in LocalRows, c.rows[r].st # "none", NEW t \in Tasks, NEW cmd \in Nat
  PROVE  /\ CacheOK(QueueMove(c, r, t, cmd)) /\ StillSent(c, QueueMove(c, r, t, cmd))
         /\ QueueMove(c, r, t, cmd).rows = c.rows
<1> DEFINE op == [Op("move", r, cmd) EXCEPT !.t = t]
           queued == InsertOp(c, op)
           d == [queued EXCEPT !.tasks[t].list = BuiltIn]
           task == [queued.tasks[t] EXCEPT !.list = BuiltIn]
<1>1. c \in CacheType
  BY DEF CacheOK
<1>2. Op("move", r, cmd) \in OpType /\ Op("move", r, cmd).k = "move" /\ Op("move", r, cmd).l = r /\ Op("move", r, cmd).st = "pending"
  BY NewOpType
<1>3. op \in OpType /\ op.k = "move" /\ op.l = r /\ op.st = "pending"
  BY <1>2 DEF OpType, Tasks
<1> HIDE DEF op
<1>4. queued \in CacheType /\ queued.rows = c.rows /\ queued.parted = c.parted
  BY <1>1, <1>3, InsertType
<1> HIDE DEF queued
<1>5. task \in [list : 0 .. 4, live : BOOLEAN]
  <2>1. queued.tasks[t] \in [list : 0 .. 4, live : BOOLEAN]
    BY <1>4 DEF CacheType
  <2> QED
    BY <2>1 DEF BuiltIn
<1>6. d = [queued EXCEPT !.tasks = [queued.tasks EXCEPT ![t] = task]]
  BY <1>4 DEF CacheType
<1> HIDE DEF task, d
<1>7. d \in CacheType /\ d.rows = c.rows /\ d.ops = queued.ops /\ d.parted = c.parted
  BY <1>4, <1>5, <1>6 DEF CacheType
<1>8. d.ops = InsertOp(c, op).ops
  BY <1>7 DEF queued
<1>9. CacheOK(d) /\ StillSent(c, d)
  BY <1>3, <1>7, <1>8, AddedKeepsCache
<1> QED
  BY <1>7, <1>9 DEF d, queued, op, QueueMove

\* What is being sent stays so over two changes of the cache.
LEMMA SentOn ==
  ASSUME NEW c, NEW d, NEW e, StillSent(c, d), StillSent(d, e)
  PROVE  StillSent(c, e)
BY DEF StillSent

\* Merging a list into another keeps the cache: the moves are queued, and the delete behind them.
LEMMA MergeKeepsCache ==
  ASSUME NEW c, CacheOK(c), NEW p, p.l \in LocalRows, p.moving \in SUBSET Tasks, c.rows[p.l].st # "none", NEW cmd \in Nat
  PROVE  CacheOK(QueueMerge(c, p, cmd)) /\ StillSent(c, QueueMerge(c, p, cmd))
<1> DEFINE move(e, t) == QueueMove(e, p.l, t, cmd)
           moves == QueueMoves(c, p.moving, p.l, cmd)
<1>1. ASSUME NEW e, CacheOK(e), e.rows = c.rows, StillSent(c, e), NEW t \in Tasks
      PROVE  CacheOK(move(e, t)) /\ move(e, t).rows = c.rows /\ StillSent(c, move(e, t))
  <2>1. CacheOK(move(e, t)) /\ StillSent(e, move(e, t)) /\ move(e, t).rows = e.rows
    BY <1>1, MoveKeepsCache
  <2> HIDE DEF move
  <2> QED
    BY <1>1, <2>1, SentOn
<1>2. StillSent(c, c)
  BY DEF StillSent
<1>3. CacheOK(moves) /\ moves.rows = c.rows /\ StillSent(c, moves)
  <2>1. CASE p.moving = {}
    <3>1. moves = c
      BY <2>1 DEF QueueMoves, Tasks
    <3> QED
      BY <1>2, <3>1
  <2>2. CASE p.moving = Tasks
    <3>1. moves = move(move(c, 1), 2)
      BY <2>2 DEF QueueMoves, Tasks
    <3>2. 1 \in Tasks /\ 2 \in Tasks
      BY DEF Tasks
    <3> HIDE DEF move, moves
    <3>3. CacheOK(move(c, 1)) /\ move(c, 1).rows = c.rows /\ StillSent(c, move(c, 1))
      BY <1>1, <1>2, <3>2
    <3> QED
      BY <1>1, <3>1, <3>2, <3>3
  <2>3. CASE p.moving # {} /\ p.moving # Tasks
    <3> DEFINE t == CHOOSE t \in p.moving : TRUE
    <3>1. t \in Tasks
      BY <2>3
    <3>2. moves = move(c, t)
      BY <2>3 DEF QueueMoves
    <3> HIDE DEF move, moves, t
    <3> QED
      BY <1>1, <1>2, <3>1, <3>2
  <2> QED
    BY <2>1, <2>2, <2>3
<1> DEFINE op == [Op("mdelete", p.l, cmd + 1) EXCEPT !.wasName = c.rows[p.l].name, !.counted = Cardinality(p.moving)]
           d == InsertOp(moves, op)
<1>4. Cardinality(p.moving) \in Nat
  <2>1. IsFiniteSet(p.moving)
    <3>1. IsFiniteSet(Tasks)
      BY FS_Interval, 1 \in Int, 2 \in Int DEF Tasks
    <3> QED
      BY <3>1, FS_Subset
  <2> QED
    BY <2>1, FS_CardinalityType
<1>5. op \in OpType /\ op.k = "mdelete" /\ op.l = p.l /\ op.st = "pending" /\ op.wasName = c.rows[p.l].name
  <2>1. c.rows[p.l].name \in Names
    BY DEF CacheOK, CacheType, RowType
  <2>2. Op("mdelete", p.l, cmd + 1) \in OpType /\ Op("mdelete", p.l, cmd + 1).k = "mdelete"
        /\ Op("mdelete", p.l, cmd + 1).l = p.l /\ Op("mdelete", p.l, cmd + 1).st = "pending"
    BY NewOpType
  <2> QED
    BY <1>4, <2>1, <2>2 DEF OpType
<1>6. QueueMerge(c, p, cmd) = d
  BY DEF QueueMerge
<1> HIDE DEF moves, op, d
<1>7. d \in CacheType /\ d.rows = moves.rows /\ d.parted = moves.parted
  BY <1>3, <1>5, InsertType DEF CacheOK, d
<1>8. d.ops = InsertOp(moves, op).ops
  BY DEF d
<1>9. CacheOK(d) /\ StillSent(moves, d)
  BY <1>3, <1>5, <1>7, <1>8, AddedKeepsCache
<1> QED
  BY <1>3, <1>6, <1>9, SentOn

\* A row put back is still a row.
LEMMA RestoreType ==
  ASSUME NEW c \in CacheType, NEW op \in OpType, c.rows[op.l].st # "none"
  PROVE  /\ RestoreOp(c, op) \in CacheType
         /\ RestoreOp(c, op).ops = c.ops /\ RestoreOp(c, op).parted = c.parted
         /\ \A x \in LocalRows : c.rows[x].st # "none" => RestoreOp(c, op).rows[x].st # "none"
         /\ \A x \in LocalRows : x # op.l \/ op.k = "move" => RestoreOp(c, op).rows[x].name = c.rows[x].name
         /\ op.k \in {"rename", "delete", "mdelete"} => RestoreOp(c, op).rows[op.l].name = op.wasName
<1> DEFINE d == RestoreOp(c, op)
<1>1. /\ op.l \in LocalRows /\ op.wasName \in Names /\ op.wasFiled \in BOOLEAN /\ op.t \in 0 .. 2
      /\ op.k \in {"create", "recreate", "rename", "folder", "delete", "mdelete", "move"}
  BY DEF OpType
<1>2. c.rows \in [LocalRows -> RowType] /\ c.tasks \in [Tasks -> [list : 0 .. 4, live : BOOLEAN]]
      /\ c.written \in SUBSET LocalRows
  BY DEF CacheType
<1>3. \A x \in LocalRows : c.rows[x] \in RowType
  BY <1>2
<1>4. CASE op.k \in {"create", "recreate"}
  <2>1. d = Tombstone(c, op.l)
    BY <1>4 DEF RestoreOp
  <2>2. d \in CacheType /\ d.ops = c.ops /\ d.parted = c.parted
        /\ d.rows[op.l].st = "dead"
    BY <1>1, <2>1, TombstoneType
  <2>3. \A x \in LocalRows : d.rows[x].name = c.rows[x].name /\ (x # op.l => d.rows[x].st = c.rows[x].st)
    BY <1>1, <2>1, TombstoneType
  <2> HIDE DEF d
  <2> QED
    BY <1>4, <2>2, <2>3 DEF d
<1>5. CASE op.k \in {"rename", "delete", "mdelete"}
  <2> DEFINE row == [[c.rows[op.l] EXCEPT !.name = op.wasName] EXCEPT !.st = "live"]
             rows2 == [c.rows EXCEPT ![op.l] = row]
             tasks2 == [t \in Tasks |-> [c.tasks[t] EXCEPT !.live = c.tasks[t].live \/ t \in BringsBackTasks(op)]]
  <2>1. d = [c EXCEPT !.rows[op.l].name = op.wasName, !.rows[op.l].st = "live", !.tasks = tasks2,
                      !.written = @ \union {op.l}]
    BY <1>5 DEF RestoreOp
  <2>2. row \in RowType /\ row.name = op.wasName /\ row.st = "live"
    <3>1. c.rows[op.l] \in RowType
      BY <1>1, <1>3
    <3>2. [c.rows[op.l] EXCEPT !.name = op.wasName] \in RowType /\ [c.rows[op.l] EXCEPT !.name = op.wasName].name = op.wasName
      BY <1>1, <3>1 DEF RowType
    <3> QED
      BY <3>2 DEF RowType
  <2>3. tasks2 \in [Tasks -> [list : 0 .. 4, live : BOOLEAN]]
    <3>1. \A t \in Tasks : c.tasks[t] \in [list : 0 .. 4, live : BOOLEAN]
      BY <1>2
    <3>2. \A t \in Tasks : \A b \in BOOLEAN : [c.tasks[t] EXCEPT !.live = b] \in [list : 0 .. 4, live : BOOLEAN]
      BY <3>1
    <3>3. \A t \in Tasks : (c.tasks[t].live \/ t \in BringsBackTasks(op)) \in BOOLEAN
      OBVIOUS
    <3> QED
      BY <3>2, <3>3
  <2>4. [c EXCEPT !.rows[op.l].name = op.wasName, !.rows[op.l].st = "live"] = [c EXCEPT !.rows = rows2]
    BY <1>1, <1>2 DEF CacheType
  <2> HIDE DEF row, tasks2, d
  <2>5. d = [c EXCEPT !.rows = rows2, !.tasks = tasks2, !.written = c.written \union {op.l}]
    <3>1. d = [[c EXCEPT !.rows[op.l].name = op.wasName, !.rows[op.l].st = "live"]
                 EXCEPT !.tasks = tasks2, !.written = @ \union {op.l}]
      BY <2>1
    <3> HIDE DEF rows2
    <3> QED
      BY <2>4, <3>1 DEF CacheType
  <2>6. rows2 \in [LocalRows -> RowType] /\ rows2[op.l] = row /\ \A x \in LocalRows : x # op.l => rows2[x] = c.rows[x]
    BY <1>1, <1>2, <2>2
  <2> HIDE DEF rows2
  <2>7. d \in CacheType /\ d.rows = rows2 /\ d.ops = c.ops /\ d.parted = c.parted
    BY <1>1, <2>3, <2>5, <2>6 DEF CacheType
  <2> QED
    BY <1>5, <2>2, <2>6, <2>7 DEF d
<1>6. CASE op.k = "folder"
  <2>1. CASE c.rows[op.l].st # "live"
    BY <1>6, <2>1 DEF RestoreOp
  <2>2. CASE c.rows[op.l].st = "live"
    <3> DEFINE row == [c.rows[op.l] EXCEPT !.filed = op.wasFiled]
               rows2 == [c.rows EXCEPT ![op.l] = row]
    <3>1. d = [c EXCEPT !.rows[op.l].filed = op.wasFiled, !.written = @ \union {op.l}]
      BY <1>6, <2>2 DEF RestoreOp
    <3>2. row \in RowType /\ row.name = c.rows[op.l].name /\ row.st = "live"
      BY <1>1, <1>3, <2>2 DEF RowType
    <3>3. [c EXCEPT !.rows[op.l].filed = op.wasFiled] = [c EXCEPT !.rows = rows2]
      BY <1>1, <1>2 DEF CacheType
    <3> HIDE DEF row, d
    <3>4. d = [c EXCEPT !.rows = rows2, !.written = c.written \union {op.l}]
      BY <3>1, <3>3 DEF CacheType
    <3>5. rows2 \in [LocalRows -> RowType] /\ rows2[op.l] = row /\ \A x \in LocalRows : x # op.l => rows2[x] = c.rows[x]
      BY <1>1, <1>2, <3>2
    <3> HIDE DEF rows2
    <3>6. d \in CacheType /\ d.rows = rows2 /\ d.ops = c.ops /\ d.parted = c.parted
      BY <1>1, <1>2, <3>4, <3>5 DEF CacheType
    <3> QED
      BY <1>6, <3>2, <3>5, <3>6 DEF d
  <2> QED
    BY <2>1, <2>2
<1>7. CASE op.k = "move"
  <2> DEFINE task == [list |-> op.l, live |-> graph.tasks[op.t] # 0]
  <2>1. d = [c EXCEPT !.tasks[op.t] = task]
    BY <1>7 DEF RestoreOp
  <2>2. task \in [list : 0 .. 4, live : BOOLEAN]
    BY <1>1 DEF LocalRows
  <2> HIDE DEF task, d
  <2>3. d = [c EXCEPT !.tasks = [c.tasks EXCEPT ![op.t] = task]]
    BY <2>1 DEF CacheType
  <2>4. [c.tasks EXCEPT ![op.t] = task] \in [Tasks -> [list : 0 .. 4, live : BOOLEAN]]
    BY <1>2, <2>2
  <2>5. d \in CacheType /\ d.rows = c.rows /\ d.ops = c.ops /\ d.parted = c.parted
    BY <2>3, <2>4 DEF CacheType
  <2> QED
    BY <1>7, <2>5 DEF d
<1> QED
  BY <1>1, <1>4, <1>5, <1>6, <1>7

\* An operation answered.
Answered(op, st) == [op EXCEPT !.st = st]

\* An answered operation is still an operation.
LEMMA AnsweredType ==
  ASSUME NEW op \in OpType, NEW st \in {"pending", "inflight", "unknown", "done", "failed", "gone"}
  PROVE  Answered(op, st) \in OpType /\ Answered(op, st).st = st /\ SameWrite(op, Answered(op, st))
BY DEF Answered, OpType, SameWrite

\* What fails is the operation and what waits on it.
HasFailed(c, d, i, st) ==
  /\ d \in CacheType
  /\ d.rows = RestoreOp(c, c.ops[i]).rows
  /\ DOMAIN d.ops = DOMAIN c.ops /\ Len(d.ops) = Len(c.ops)
  /\ \A j \in DOMAIN c.ops : d.ops[j] = IF j = i THEN Answered(c.ops[i], st)
                                        ELSE IF j \in Behind(c.ops, i) THEN Answered(c.ops[j], "failed")
                                        ELSE c.ops[j]
  /\ d.parted = IF c.ops[i].k \in {"create", "recreate"} /\ UnresolvedBefore(c.ops, i, c.ops[i]) # {}
                THEN c.parted \union {c.ops[i].l} ELSE c.parted

\* Failing operations leaves a cache.
LEMMA FailType ==
  ASSUME NEW c, CacheOK(c), NEW i \in DOMAIN c.ops, Unresolved(c.ops[i]), NEW st \in {"failed", "gone"}
  PROVE  HasFailed(c, Fail(c, i, st), i, st)
<1> DEFINE op == c.ops[i]
           restored == RestoreOp(c, op)
           undone == op.k \in {"create", "recreate"} /\ UnresolvedBefore(c.ops, i, op) # {}
           parted2 == IF undone THEN c.parted \union {op.l} ELSE c.parted
           ended == [c.ops EXCEPT ![i] = Answered(c.ops[i], st)]
           b == [restored EXCEPT !.ops[i].st = st, !.parted = IF undone THEN @ \union {op.l} ELSE @]
           ops2 == [j \in DOMAIN ended |-> IF j \in Behind(ended, i) THEN Answered(ended[j], "failed") ELSE ended[j]]
           cc == Cascade(b, i)
<1>1. c \in CacheType /\ QueueOK(c.rows, c.ops, c.parted) /\ c.ops \in Seq(OpType) /\ c.parted \in SUBSET LocalRows
  BY DEF CacheOK, CacheType
<1>2. DOMAIN c.ops = 1 .. Len(c.ops) /\ Len(c.ops) \in Nat /\ \A j \in DOMAIN c.ops : c.ops[j] \in OpType
  BY <1>1
<1>3. op \in OpType /\ c.rows[op.l].st # "none" /\ op.l \in LocalRows
  BY <1>1, <1>2 DEF QueueOK, WaitsOK, OpType
<1>4. restored \in CacheType /\ restored.ops = c.ops /\ restored.parted = c.parted
  BY <1>1, <1>3, RestoreType
<1>5. /\ Answered(c.ops[i], st) \in OpType /\ Answered(c.ops[i], st).st = st
      /\ SameWrite(c.ops[i], Answered(c.ops[i], st))
  BY <1>2, AnsweredType
<1>19. \A j \in DOMAIN c.ops : Answered(c.ops[j], "failed") \in OpType
  BY <1>2, AnsweredType
<1>6. ended \in Seq(OpType) /\ DOMAIN ended = DOMAIN c.ops /\ Len(ended) = Len(c.ops)
  BY <1>1, <1>2, <1>5
<1>7. /\ ended[i].st = st /\ \A j \in DOMAIN c.ops : ended[j].dep = c.ops[j].dep
      /\ \A j \in DOMAIN c.ops : j # i => ended[j] = c.ops[j]
  <2>1. ended[i] = Answered(c.ops[i], st) /\ \A j \in DOMAIN c.ops : j # i => ended[j] = c.ops[j]
    BY <1>1, <1>2
  <2> HIDE DEF ended
  <2> QED
    BY <1>5, <2>1 DEF SameWrite
<1>8. parted2 \in SUBSET LocalRows
  BY <1>1, <1>3
<1> HIDE DEF restored, parted2
<1>9. b = [restored EXCEPT !.ops = ended, !.parted = parted2]
  BY <1>4 DEF CacheType, parted2, Answered
<1> HIDE DEF ended, b, undone
<1>10. b \in CacheType /\ b.ops = ended /\ b.rows = restored.rows /\ b.parted = parted2
  BY <1>4, <1>6, <1>8, <1>9 DEF CacheType
<1>11. i \notin Behind(c.ops, i) /\ i \notin Behind(ended, i)
  <2>1. i \notin Behind(c.ops, i)
    <3>1. WaitsOK(c.rows, c.ops)
      BY <1>1 DEF QueueOK
    <3>2. ASSUME i \in Behind(c.ops, i) PROVE FALSE
      <4>1. i < i
        BY <1>1, <3>1, <3>2, BehindIsLater
      <4> QED
        BY <1>2, <4>1
    <3> QED
      BY <3>2
  <2> QED
    BY <1>7, <2>1 DEF Behind
<1>12. \A j \in DOMAIN c.ops : j \in Behind(ended, i) <=> j \in Behind(c.ops, i)
  <2>1. \A S : WaitingOn(ended, S) = WaitingOn(c.ops, S)
    BY <1>6, <1>7 DEF WaitingOn
  <2>2. \A j \in DOMAIN c.ops : j # i => (j \in Behind(ended, i) <=> j \in Behind(c.ops, i))
    BY <1>6, <1>7, <2>1 DEF Behind
  <2> QED
    BY <1>11, <2>2
<1>13. cc = [b EXCEPT !.ops = ops2]
  BY <1>10 DEF Cascade, Answered
<1>14. \A j \in DOMAIN c.ops : ops2[j] \in OpType
                             /\ ops2[j] = IF j = i THEN Answered(c.ops[i], st)
                                          ELSE IF j \in Behind(c.ops, i) THEN Answered(c.ops[j], "failed")
                                          ELSE c.ops[j]
  <2> SUFFICES ASSUME NEW j \in DOMAIN c.ops
               PROVE  /\ ops2[j] \in OpType
                      /\ ops2[j] = IF j = i THEN Answered(c.ops[i], st)
                                   ELSE IF j \in Behind(c.ops, i) THEN Answered(c.ops[j], "failed")
                                   ELSE c.ops[j]
    OBVIOUS
  <2>1. CASE j = i
    BY <1>1, <1>2, <1>5, <1>6, <1>11, <2>1 DEF ended
  <2>2. CASE j # i
    BY <1>2, <1>6, <1>7, <1>12, <1>19, <2>2
  <2> QED
    BY <2>1, <2>2
<1>15. ops2 \in Seq(OpType) /\ DOMAIN ops2 = DOMAIN c.ops /\ Len(ops2) = Len(c.ops)
  <2>1. ops2 \in [1 .. Len(c.ops) -> OpType]
    BY <1>2, <1>6, <1>14
  <2> HIDE DEF ops2
  <2> QED
    BY <1>2, <2>1
<1> HIDE DEF ops2, cc
<1>16. cc \in CacheType /\ cc.ops = ops2 /\ cc.rows = restored.rows /\ cc.parted = parted2
  BY <1>10, <1>13, <1>15 DEF CacheType
<1>17. Fail(c, i, st) = Reconcile(cc, op)
  BY DEF Fail, cc, b, undone, restored
<1>18. /\ Reconcile(cc, op) \in CacheType
       /\ Reconcile(cc, op).ops = cc.ops /\ Reconcile(cc, op).rows = cc.rows /\ Reconcile(cc, op).parted = cc.parted
  <2> DEFINE g == cc.rows[op.l].gid
  <2>1. [cc.link EXCEPT ![g] = Tasks] \in [Gids -> SUBSET (0 .. 2)]
    <3>1. cc.link \in [Gids -> SUBSET (0 .. 2)] /\ Tasks \in SUBSET (0 .. 2)
      BY <1>16 DEF CacheType, Tasks
    <3> QED
      BY <3>1
  <2>2. Reconcile(cc, op) \in {cc, [cc EXCEPT !.link = [cc.link EXCEPT ![g] = Tasks]], [cc EXCEPT !.reread = TRUE]}
    BY <1>16 DEF Reconcile, CacheType
  <2> HIDE DEF g
  <2> QED
    BY <1>16, <2>1, <2>2 DEF CacheType
<1> QED
  BY <1>14, <1>15, <1>16, <1>17, <1>18 DEF parted2, undone, restored, HasFailed

\* Failing a write with everything behind it keeps the cache: what is left is the queue before it, and the row shows that again.
LEMMA FailKeepsCache ==
  ASSUME NEW c, CacheOK(c), NEW i \in DOMAIN c.ops, Unresolved(c.ops[i]), NEW st \in {"failed", "gone"},
         c.ops[i].k \in {"folder", "move"} => c.ops[i].st = "inflight"
  PROVE  /\ CacheOK(Fail(c, i, st))
         /\ c.ops[i].st # "inflight" => StillSent(c, Fail(c, i, st))
<1> DEFINE op == c.ops[i]
           d == Fail(c, i, st)
           B == Behind(c.ops, i)
<1>0. HasFailed(c, d, i, st)
  BY FailType
<1> HIDE DEF d
<1>1. c \in CacheType /\ QueueOK(c.rows, c.ops, c.parted) /\ c.ops \in Seq(OpType) /\ c.rows \in [LocalRows -> RowType]
  BY DEF CacheOK, CacheType
<1>2. DOMAIN c.ops = 1 .. Len(c.ops) /\ Len(c.ops) \in Nat /\ \A j \in DOMAIN c.ops : c.ops[j] \in OpType
  BY <1>1
<1>3. op \in OpType /\ c.rows[op.l].st # "none" /\ op.l \in LocalRows
  BY <1>1, <1>2 DEF QueueOK, WaitsOK, OpType
<1>4. /\ \A x \in LocalRows : c.rows[x].st # "none" => d.rows[x].st # "none"
      /\ \A x \in LocalRows : x # op.l \/ op.k = "move" => d.rows[x].name = c.rows[x].name
      /\ op.k \in {"rename", "delete", "mdelete"} => d.rows[op.l].name = op.wasName
  <2>1. d.rows = RestoreOp(c, op).rows
    BY <1>0 DEF HasFailed
  <2> HIDE DEF op
  <2> QED
    BY <1>1, <1>3, <2>1, RestoreType
<1>5. d \in CacheType /\ DOMAIN d.ops = DOMAIN c.ops /\ Len(d.ops) = Len(c.ops)
  BY <1>0 DEF HasFailed
<1>6. \A j \in DOMAIN c.ops : d.ops[j] = IF j = i THEN Answered(c.ops[i], st)
                                          ELSE IF j \in B THEN Answered(c.ops[j], "failed") ELSE c.ops[j]
  BY <1>0 DEF HasFailed
<1>7. d.parted = IF op.k \in {"create", "recreate"} /\ UnresolvedBefore(c.ops, i, op) # {}
                 THEN c.parted \union {op.l} ELSE c.parted
  BY <1>0 DEF HasFailed
<1>8. WaitsOK(c.rows, c.ops)
  BY <1>1 DEF QueueOK
<1>9. \A j \in B : j \in DOMAIN c.ops /\ i < j /\ Entity(c.ops[j]) = Entity(op) /\ c.ops[j].st \in {"pending", "unknown"}
  BY <1>1, <1>8, BehindIsLater
<1> HIDE DEF B
<1>10. /\ d.ops[i].st = st
       /\ \A j \in B : d.ops[j].st = "failed"
       /\ \A j \in DOMAIN c.ops : j # i /\ j \notin B => d.ops[j] = c.ops[j]
       /\ \A j \in DOMAIN c.ops : SameWrite(c.ops[j], d.ops[j])
  <2>1. /\ Answered(c.ops[i], st).st = st /\ SameWrite(c.ops[i], Answered(c.ops[i], st))
        /\ \A j \in DOMAIN c.ops : Answered(c.ops[j], "failed").st = "failed" /\ SameWrite(c.ops[j], Answered(c.ops[j], "failed"))
    BY <1>2, AnsweredType
  <2>2. \A j \in DOMAIN c.ops : SameWrite(c.ops[j], c.ops[j])
    BY DEF SameWrite
  <2>3. i \notin B
    BY <1>2, <1>9
  <2> QED
    BY <1>6, <1>9, <2>1, <2>2, <2>3
<1>11. \A j \in DOMAIN c.ops : (Unresolved(d.ops[j]) => Unresolved(c.ops[j]) /\ j # i /\ j \notin B)
                              /\ (d.ops[j].st = "inflight" => c.ops[j].st = "inflight")
  BY <1>10 DEF Unresolved
<1>12. c.parted \subseteq d.parted
  BY <1>7
\* Nothing later on its list is left.
<1>13. ASSUME NEW j \in DOMAIN c.ops, i < j, SameList(c.ops, i, j), c.ops[j].l \notin d.parted, Unresolved(c.ops[j])
       PROVE  j \in B
  <2>1. op.l \notin c.parted
    BY <1>12, <1>13 DEF SameList
  <2> QED
    BY <1>1, <1>13, <2>1, LaterWaits DEF B
<1>14. ASSUME NEW z \in DOMAIN c.ops, NEW x \in DOMAIN c.ops, x < z, SameList(c.ops, z, x), c.ops[z].l \notin d.parted,
              Unresolved(c.ops[x]), Unresolved(d.ops[z])
       PROVE  Unresolved(d.ops[x])
  <2>1. Unresolved(c.ops[z]) /\ z # i /\ z \notin B
    BY <1>11, <1>14
  <2>2. ASSUME x = i \/ x \in B PROVE FALSE
    <3>1. i <= x /\ Entity(c.ops[x]) = Entity(op)
      BY <1>2, <1>9, <2>2
    <3>2. i < z /\ i \in Nat /\ z \in Nat
      BY <1>2, <1>14, <3>1
    <3>3. SameList(c.ops, i, z)
      BY <1>14, <3>1 DEF SameList, Entity
    <3>4. z \in B
      BY <1>13, <1>14, <2>1, <3>2, <3>3
    <3> QED
      BY <2>1, <3>4
  <2>3. d.ops[x] = c.ops[x]
    BY <1>10, <2>2
  <2> QED
    BY <1>14, <2>3
<1>15. NamedAsAsked(d.rows, d.ops, d.parted)
  <2> SUFFICES ASSUME NEW r \in LocalRows \ d.parted, NEW e \in DOMAIN c.ops, LastAsked(d.ops, Len(c.ops) + 1, r, e)
               PROVE  d.rows[r].name = c.ops[e].name
    <3>1. \A e \in DOMAIN c.ops : d.ops[e].name = c.ops[e].name
      BY <1>10 DEF SameWrite
    <3> QED
      BY <1>5, <3>1 DEF NamedAsAsked
  <2>1. c.ops[e].k = "rename" /\ c.ops[e].l = r /\ Unresolved(c.ops[e]) /\ Unresolved(d.ops[e]) /\ e # i /\ e \notin B
    BY <1>10, <1>11 DEF LastAsked, SameWrite
  <2>2. ASSUME NEW x \in DOMAIN c.ops, e < x, c.ops[x].k = "rename", c.ops[x].l = r, x # i, x \notin B
        PROVE  ~Unresolved(c.ops[x])
    <3>1. x < Len(c.ops) + 1 /\ d.ops[x] = c.ops[x]
      BY <1>2, <1>10, <2>2
    <3> QED
      BY <1>5, <2>2, <3>1 DEF LastAsked
  <2>3. CASE op.k = "move" \/ r # op.l
    <3>1. \A x \in DOMAIN c.ops : c.ops[x].k = "rename" /\ c.ops[x].l = r => x # i /\ x \notin B
      BY <1>9, <2>3 DEF Entity
    <3>2. LastAsked(c.ops, Len(c.ops) + 1, r, e)
      BY <1>2, <2>1, <2>2, <3>1 DEF LastAsked
    <3>3. c.rows[r].name = c.ops[e].name
      BY <1>1, <1>12, <3>2 DEF QueueOK, NamedAsAsked
    <3> QED
      BY <1>4, <2>3, <3>3
  <2>4. CASE op.k # "move" /\ r = op.l
    <3>1. SameList(c.ops, i, e)
      BY <2>1, <2>4 DEF SameList
    <3>2. ~(i < e)
      BY <1>13, <2>1, <3>1
    <3>3. e < i
      BY <1>2, <2>1, <3>2
    <3>4. op.l \notin c.parted
      BY <1>12, <2>4
    <3>5. op.st # "inflight"
      BY <1>1, <2>1, <3>1, <3>3, <3>4 DEF QueueOK, Chained
    <3>6. op.k \in {"rename", "delete", "mdelete"}
      <4>1. e \in UnresolvedBefore(c.ops, i, op)
        BY <2>1, <3>1, <3>3 DEF UnresolvedBefore, SameList, Entity
      <4>2. op.k \notin {"create", "recreate"}
        BY <1>7, <2>4, <4>1
      <4>3. op.k \in {"create", "recreate", "rename", "folder", "delete", "mdelete", "move"}
        BY <1>3 DEF OpType
      <4> QED
        BY <2>4, <3>5, <4>2, <4>3
    <3>7. LastAsked(c.ops, i, r, e)
      <4>1. \A x \in DOMAIN c.ops : x < i => x # i /\ x \notin B
        BY <1>2, <1>9
      <4> QED
        BY <2>1, <2>2, <3>3, <4>1 DEF LastAsked
    <3>8. op.wasName = c.ops[e].name
      BY <1>1, <2>4, <3>4, <3>6, <3>7 DEF QueueOK, GoesBack
    <3> QED
      BY <1>4, <2>4, <3>6, <3>8
  <2> QED
    BY <2>3, <2>4
<1>16. d.rows \in [LocalRows -> RowType] /\ d.ops \in Seq(OpType)
  BY <1>5 DEF CacheType
<1>17. QueueOK(d.rows, d.ops, d.parted)
  <2>1. \A j \in DOMAIN c.ops : SameWrite(c.ops[j], d.ops[j]) /\ (Unresolved(d.ops[j]) => Unresolved(c.ops[j]))
    BY <1>10, <1>11
  <2>2. \A r \in LocalRows : c.rows[r].st # "none" => d.rows[r].st # "none"
    BY <1>4
  <2>3. \A z \in DOMAIN c.ops : d.ops[z].st = "inflight" =>
          \/ c.ops[z].st = "inflight"
          \/ \A j \in DOMAIN c.ops : j < z /\ SameList(c.ops, z, j) /\ c.ops[z].l \notin d.parted => ~Unresolved(c.ops[j])
    BY <1>11
  <2>4. \A z, x, y \in DOMAIN c.ops :
          /\ y < x /\ x < z /\ SameList(c.ops, z, x) /\ SameList(c.ops, z, y) /\ c.ops[z].l \notin d.parted
          /\ Unresolved(c.ops[y]) /\ Unresolved(c.ops[x]) /\ Unresolved(d.ops[z])
          => Unresolved(d.ops[x])
    BY <1>14
  <2> HIDE DEF op
  <2> QED
    BY <1>1, <1>5, <1>12, <1>15, <1>16, <2>1, <2>2, <2>3, <2>4, AnswersKeepQueue
<1>18. op.st # "inflight" => StillSent(c, d)
  BY <1>5, <1>9, <1>10 DEF StillSent
<1> QED
  BY <1>5, <1>17, <1>18 DEF CacheOK, d

\* An answer to one operation.
Answers(c, d, i, st) ==
  d \in CacheType /\ d.ops = [c.ops EXCEPT ![i] = Answered(c.ops[i], st)] /\ d.parted = c.parted

\* An answer to a write keeps the cache: it is done only if it was being sent, and sent only when nothing is before it.
LEMMA AnswerKeepsCache ==
  ASSUME NEW c, CacheOK(c), NEW i \in DOMAIN c.ops, Unresolved(c.ops[i]),
         NEW st \in {"pending", "inflight", "unknown", "done"}, NEW d, Answers(c, d, i, st),
         \A r \in LocalRows : c.rows[r].st # "none" => d.rows[r].st # "none",
         st = "done" => c.ops[i].st = "inflight",
         st = "inflight" =>
           \A j \in DOMAIN c.ops : j < i /\ SameList(c.ops, i, j) /\ c.ops[i].l \notin c.parted => ~Unresolved(c.ops[j]),
         NamedAsAsked(d.rows, d.ops, d.parted)
  PROVE  CacheOK(d)
<1>1. c \in CacheType /\ QueueOK(c.rows, c.ops, c.parted) /\ c.ops \in Seq(OpType) /\ c.rows \in [LocalRows -> RowType]
      /\ d \in CacheType /\ d.rows \in [LocalRows -> RowType] /\ d.ops \in Seq(OpType) /\ d.parted = c.parted
      /\ d.ops = [c.ops EXCEPT ![i] = Answered(c.ops[i], st)]
  BY DEF CacheOK, CacheType, Answers
<1>2. c.ops[i] \in OpType /\ DOMAIN d.ops = DOMAIN c.ops /\ Len(d.ops) = Len(c.ops)
  BY <1>1
<1>3. Answered(c.ops[i], st).st = st /\ SameWrite(c.ops[i], Answered(c.ops[i], st))
  BY <1>2, AnsweredType
<1>4. \A j \in DOMAIN c.ops : SameWrite(c.ops[j], d.ops[j]) /\ (j # i => d.ops[j] = c.ops[j]) /\ (j = i => d.ops[j].st = st)
  BY <1>1, <1>3 DEF SameWrite
<1>5. \A j \in DOMAIN c.ops : SameWrite(c.ops[j], d.ops[j]) /\ (Unresolved(d.ops[j]) => Unresolved(c.ops[j]))
  BY <1>4 DEF Unresolved
<1>6. \A z \in DOMAIN c.ops : d.ops[z].st = "inflight" =>
        \/ c.ops[z].st = "inflight"
        \/ \A j \in DOMAIN c.ops : j < z /\ SameList(c.ops, z, j) /\ c.ops[z].l \notin d.parted => ~Unresolved(c.ops[j])
  BY <1>1, <1>4
<1>7. \A z, x, y \in DOMAIN c.ops :
        /\ y < x /\ x < z /\ SameList(c.ops, z, x) /\ SameList(c.ops, z, y) /\ c.ops[z].l \notin d.parted
        /\ Unresolved(c.ops[y]) /\ Unresolved(c.ops[x]) /\ Unresolved(d.ops[z])
        => Unresolved(d.ops[x])
  <2> SUFFICES ASSUME NEW z \in DOMAIN c.ops, NEW x \in DOMAIN c.ops, NEW y \in DOMAIN c.ops, y < x, x < z,
                      SameList(c.ops, z, x), SameList(c.ops, z, y), c.ops[z].l \notin d.parted,
                      Unresolved(c.ops[y]), Unresolved(c.ops[x])
               PROVE  Unresolved(d.ops[x])
    OBVIOUS
  <2>1. SameList(c.ops, x, y) /\ c.ops[x].l \notin c.parted
    BY <1>1 DEF SameList
  <2>2. c.ops[x].st # "inflight"
    BY <1>1, <2>1 DEF QueueOK, Chained
  <2>3. CASE x = i
    BY <1>4, <2>2, <2>3 DEF Unresolved
  <2>4. CASE x # i
    BY <1>4, <2>4
  <2> QED
    BY <2>3, <2>4
<1>8. QueueOK(d.rows, d.ops, d.parted)
  BY <1>1, <1>2, <1>5, <1>6, <1>7, AnswersKeepQueue
<1> QED
  BY <1>1, <1>8 DEF CacheOK

\* An answer leaves the names alone, but for a rename's.
LEMMA AnswerKeepsNames ==
  ASSUME NEW c, CacheOK(c), NEW i \in DOMAIN c.ops, Unresolved(c.ops[i]),
         NEW st \in {"pending", "inflight", "unknown", "done"}, NEW d, Answers(c, d, i, st),
         \A r \in LocalRows : c.rows[r].name = d.rows[r].name,
         st = "done" => c.ops[i].k # "rename"
  PROVE  NamedAsAsked(d.rows, d.ops, d.parted)
<1>1. c \in CacheType /\ QueueOK(c.rows, c.ops, c.parted) /\ c.ops \in Seq(OpType)
      /\ d \in CacheType /\ d.ops = [c.ops EXCEPT ![i] = Answered(c.ops[i], st)] /\ d.parted = c.parted
  BY DEF CacheOK, CacheType, Answers
<1>2. c.ops[i] \in OpType /\ DOMAIN d.ops = DOMAIN c.ops /\ Len(d.ops) = Len(c.ops)
  BY <1>1
<1>3. Answered(c.ops[i], st).st = st /\ SameWrite(c.ops[i], Answered(c.ops[i], st))
  BY <1>2, AnsweredType
<1>4. \A j \in DOMAIN c.ops : SameWrite(c.ops[j], d.ops[j]) /\ (j # i => d.ops[j] = c.ops[j]) /\ (j = i => d.ops[j].st = st)
  BY <1>1, <1>3 DEF SameWrite
<1>5. \A j \in DOMAIN c.ops : c.ops[j].k = "rename" => (Unresolved(d.ops[j]) <=> Unresolved(c.ops[j]))
  BY <1>4 DEF Unresolved
<1>6. \A r, e : e \in DOMAIN c.ops /\ LastAsked(d.ops, Len(c.ops) + 1, r, e) => LastAsked(c.ops, Len(c.ops) + 1, r, e)
  <2> SUFFICES ASSUME NEW r, NEW e \in DOMAIN c.ops, LastAsked(d.ops, Len(c.ops) + 1, r, e)
               PROVE  LastAsked(c.ops, Len(c.ops) + 1, r, e)
    OBVIOUS
  <2>1. \A x \in DOMAIN c.ops : d.ops[x].k = c.ops[x].k /\ d.ops[x].l = c.ops[x].l
    BY <1>4 DEF SameWrite
  <2> QED
    BY <1>2, <1>5, <2>1 DEF LastAsked
<1>7. \A e \in DOMAIN c.ops : d.ops[e].name = c.ops[e].name
  BY <1>4 DEF SameWrite
<1> QED
  BY <1>1, <1>2, <1>6, <1>7 DEF QueueOK, NamedAsAsked

\* The same write but for its list.
SameAsk(o, p) == o.k = p.k /\ o.t = p.t /\ o.name = p.name /\ o.wasName = p.wasName /\ o.dep = p.dep

\* merge_duplicate_list: the duplicates' operations are their list's from now on.
Duplicates(c, g, r) == {d \in LocalRows \ {r} : c.rows[d].st # "none" /\ c.rows[d].gid = g}

HasMerged(c, d, g, r) ==
  /\ d \in CacheType
  /\ DOMAIN d.ops = DOMAIN c.ops /\ Len(d.ops) = Len(c.ops)
  /\ \A x \in LocalRows \ Duplicates(c, g, r) : d.rows[x] = c.rows[x]
  /\ \A i \in DOMAIN c.ops :
       /\ SameAsk(c.ops[i], d.ops[i]) /\ d.ops[i].st = c.ops[i].st
       /\ d.ops[i].l = IF c.ops[i].l \in Duplicates(c, g, r) THEN r ELSE c.ops[i].l
  /\ d.parted = IF \E x \in Duplicates(c, g, r) : Busy(c, x)
                THEN (c.parted \ Duplicates(c, g, r)) \union {r} ELSE c.parted \ Duplicates(c, g, r)

\* Joining two rows leaves a cache.
LEMMA MergeType ==
  ASSUME NEW c \in CacheType, NEW g, NEW r \in LocalRows
  PROVE  HasMerged(c, MergeDuplicate(c, g, r), g, r)
<1> DEFINE d == MergeDuplicate(c, g, r)
           dup == Duplicates(c, g, r)
           rows2 == [x \in LocalRows |-> IF x \in dup THEN NoRow ELSE c.rows[x]]
           tasks2 == [t \in Tasks |-> IF c.tasks[t].list \in dup THEN [c.tasks[t] EXCEPT !.list = r] ELSE c.tasks[t]]
           ops2 == [i \in DOMAIN c.ops |-> IF c.ops[i].l \in dup THEN [c.ops[i] EXCEPT !.l = r] ELSE c.ops[i]]
           parted2 == IF \E x \in dup : Busy(c, x) THEN (c.parted \ dup) \union {r} ELSE c.parted \ dup
<1>1. c.rows \in [LocalRows -> RowType] /\ c.tasks \in [Tasks -> [list : 0 .. 4, live : BOOLEAN]] /\ c.ops \in Seq(OpType)
      /\ c.parted \in SUBSET LocalRows
  BY DEF CacheType
<1>2. DOMAIN c.ops = 1 .. Len(c.ops) /\ Len(c.ops) \in Nat /\ \A i \in DOMAIN c.ops : c.ops[i] \in OpType
  BY <1>1
<1>3. d = [c EXCEPT !.rows = rows2, !.tasks = tasks2, !.ops = ops2, !.parted = parted2]
  BY DEF MergeDuplicate, Duplicates
<1>4. rows2 \in [LocalRows -> RowType] /\ \A x \in LocalRows \ dup : rows2[x] = c.rows[x]
  <2>1. NoRow \in RowType
    BY ListsConstants DEF NoRow, RowType
  <2> QED
    BY <1>1, <2>1
<1>5. tasks2 \in [Tasks -> [list : 0 .. 4, live : BOOLEAN]]
  <2>1. \A t \in Tasks : c.tasks[t] \in [list : 0 .. 4, live : BOOLEAN]
    BY <1>1
  <2>2. \A t \in Tasks : [c.tasks[t] EXCEPT !.list = r] \in [list : 0 .. 4, live : BOOLEAN]
    BY <2>1 DEF LocalRows
  <2> QED
    BY <2>1, <2>2
<1>6. \A i \in DOMAIN c.ops :
        /\ [c.ops[i] EXCEPT !.l = r] \in OpType /\ [c.ops[i] EXCEPT !.l = r].st = c.ops[i].st /\ [c.ops[i] EXCEPT !.l = r].l = r
        /\ SameAsk(c.ops[i], [c.ops[i] EXCEPT !.l = r]) /\ SameAsk(c.ops[i], c.ops[i])
  BY <1>2 DEF OpType, SameAsk
<1>7. /\ DOMAIN ops2 = DOMAIN c.ops
      /\ \A i \in DOMAIN c.ops : ops2[i] = IF c.ops[i].l \in dup THEN [c.ops[i] EXCEPT !.l = r] ELSE c.ops[i]
  OBVIOUS
<1>8. \A i \in DOMAIN c.ops :
        /\ ops2[i] \in OpType
        /\ SameAsk(c.ops[i], ops2[i]) /\ ops2[i].st = c.ops[i].st
        /\ ops2[i].l = IF c.ops[i].l \in dup THEN r ELSE c.ops[i].l
  <2> HIDE DEF ops2, dup
  <2> QED
    BY <1>2, <1>6, <1>7
<1>9. ops2 \in Seq(OpType) /\ Len(ops2) = Len(c.ops)
  <2>1. ops2 \in [1 .. Len(c.ops) -> OpType]
    BY <1>2, <1>7, <1>8
  <2> HIDE DEF ops2
  <2> QED
    BY <1>2, <2>1
<1>10. parted2 \in SUBSET LocalRows
  BY <1>1
<1> HIDE DEF rows2, tasks2, ops2, parted2, d, dup
<1>11. d \in CacheType /\ d.rows = rows2 /\ d.ops = ops2 /\ d.parted = parted2
  BY <1>3, <1>4, <1>5, <1>9, <1>10 DEF CacheType
<1>12. /\ d \in CacheType
       /\ DOMAIN d.ops = DOMAIN c.ops /\ Len(d.ops) = Len(c.ops)
       /\ \A x \in LocalRows \ dup : d.rows[x] = c.rows[x]
       /\ \A i \in DOMAIN c.ops :
            /\ SameAsk(c.ops[i], d.ops[i]) /\ d.ops[i].st = c.ops[i].st
            /\ d.ops[i].l = IF c.ops[i].l \in dup THEN r ELSE c.ops[i].l
       /\ d.parted = parted2
  BY <1>4, <1>7, <1>8, <1>9, <1>11
<1> QED
  BY <1>12 DEF d, dup, parted2, HasMerged

\* merge_duplicate_list keeps the cache: a row that took over unsettled writes is marked, and the others have the queue they had.
LEMMA MergeKeepsQueue ==
  ASSUME NEW c, CacheOK(c), NEW g, NEW r \in LocalRows, c.rows[r].st # "none"
  PROVE  CacheOK(MergeDuplicate(c, g, r))
<1> DEFINE d == MergeDuplicate(c, g, r)
           dup == Duplicates(c, g, r)
<1>13. HasMerged(c, d, g, r)
  BY MergeType DEF CacheOK
<1>1. c \in CacheType /\ QueueOK(c.rows, c.ops, c.parted) /\ c.ops \in Seq(OpType)
  BY DEF CacheOK, CacheType
<1>2. DOMAIN c.ops = 1 .. Len(c.ops) /\ Len(c.ops) \in Nat /\ \A i \in DOMAIN c.ops : c.ops[i] \in OpType
  BY <1>1
<1>3. /\ d \in CacheType
      /\ DOMAIN d.ops = DOMAIN c.ops /\ Len(d.ops) = Len(c.ops)
      /\ \A x \in LocalRows \ dup : d.rows[x] = c.rows[x]
      /\ \A i \in DOMAIN c.ops :
           /\ SameAsk(c.ops[i], d.ops[i]) /\ d.ops[i].st = c.ops[i].st
           /\ d.ops[i].l = IF c.ops[i].l \in dup THEN r ELSE c.ops[i].l
      /\ d.parted = IF \E x \in dup : Busy(c, x) THEN (c.parted \ dup) \union {r} ELSE c.parted \ dup
  BY <1>13 DEF HasMerged
<1>4. r \notin dup /\ dup \in SUBSET LocalRows
  BY DEF Duplicates
<1> HIDE DEF d, dup
<1>5. \A i \in DOMAIN c.ops : /\ c.ops[i].k = d.ops[i].k /\ c.ops[i].t = d.ops[i].t /\ c.ops[i].name = d.ops[i].name
                              /\ c.ops[i].wasName = d.ops[i].wasName /\ c.ops[i].dep = d.ops[i].dep
                              /\ (Unresolved(d.ops[i]) <=> Unresolved(c.ops[i])) /\ d.ops[i].st = c.ops[i].st
                              /\ d.ops[i].l \notin dup /\ c.ops[i].l \in LocalRows /\ c.ops[i].dep \in Nat
  <2>1. \A i \in DOMAIN c.ops : c.ops[i].l \in LocalRows /\ c.ops[i].dep \in Nat
    BY <1>2 DEF OpType
  <2> QED
    BY <1>3, <1>4, <2>1 DEF SameAsk, Unresolved
\* What is left to tell apart by row was on its row before.
<1>6. ASSUME NEW i \in DOMAIN c.ops, c.ops[i].k # "move", Unresolved(c.ops[i]), d.ops[i].l \notin d.parted
      PROVE  c.ops[i].l = d.ops[i].l /\ c.ops[i].l \notin c.parted
  <2>1. CASE c.ops[i].l \in dup
    <3>1. Busy(c, c.ops[i].l)
      BY <1>6 DEF Busy, Entity
    <3>2. d.ops[i].l = r /\ r \in d.parted
      BY <1>3, <2>1, <3>1
    <3> QED
      BY <1>6, <3>2
  <2>2. CASE c.ops[i].l \notin dup
    BY <1>3, <1>6, <2>2
  <2> QED
    BY <2>1, <2>2
<1>7. WaitsOK(d.rows, d.ops)
  <2> SUFFICES ASSUME NEW i \in DOMAIN c.ops
               PROVE  /\ d.rows[d.ops[i].l].st # "none"
                      /\ d.ops[i].dep # 0 => d.ops[i].dep < i /\ Entity(d.ops[d.ops[i].dep]) = Entity(d.ops[i])
    BY <1>3 DEF WaitsOK
  <2>1. /\ c.rows[c.ops[i].l].st # "none"
        /\ c.ops[i].dep # 0 => c.ops[i].dep < i /\ Entity(c.ops[c.ops[i].dep]) = Entity(c.ops[i])
    BY <1>1 DEF QueueOK, WaitsOK
  <2>2. d.rows[d.ops[i].l].st # "none"
    BY <1>3, <1>4, <1>5, <2>1
  <2>3. \A x, y \in DOMAIN c.ops : Entity(c.ops[x]) = Entity(c.ops[y]) => Entity(d.ops[x]) = Entity(d.ops[y])
    <3> SUFFICES ASSUME NEW x \in DOMAIN c.ops, NEW y \in DOMAIN c.ops, Entity(c.ops[x]) = Entity(c.ops[y])
                 PROVE  Entity(d.ops[x]) = Entity(d.ops[y])
      OBVIOUS
    <3>1. CASE c.ops[x].k = "move"
      <4>1. c.ops[y].k = "move" /\ c.ops[x].t = c.ops[y].t
        BY <3>1 DEF Entity
      <4> QED
        BY <1>5, <3>1, <4>1 DEF Entity
    <3>2. CASE c.ops[x].k # "move"
      <4>1. c.ops[y].k # "move" /\ c.ops[x].l = c.ops[y].l
        BY <3>2 DEF Entity
      <4>2. d.ops[x].l = d.ops[y].l
        BY <1>3, <4>1
      <4> QED
        BY <1>5, <3>2, <4>1, <4>2 DEF Entity
    <3> QED
      BY <3>1, <3>2
  <2>4. c.ops[i].dep # 0 => c.ops[i].dep \in DOMAIN c.ops
    BY <1>2, <1>5, <2>1
  <2> QED
    BY <1>5, <2>1, <2>2, <2>3, <2>4
<1>8. Chained(d.ops, d.parted)
  <2> SUFFICES ASSUME NEW i \in DOMAIN c.ops, NEW j \in DOMAIN c.ops, j < i, SameList(d.ops, i, j), d.ops[i].l \notin d.parted,
                      Unresolved(d.ops[i]), Unresolved(d.ops[j])
               PROVE  d.ops[i].st # "inflight" /\ j <= d.ops[i].dep /\ Unresolved(d.ops[d.ops[i].dep])
    BY <1>3 DEF Chained
  <2>1. /\ c.ops[i].k # "move" /\ c.ops[j].k # "move" /\ Unresolved(c.ops[i]) /\ Unresolved(c.ops[j])
        /\ d.ops[j].l \notin d.parted /\ d.ops[i].l = d.ops[j].l
    BY <1>5 DEF SameList
  <2>2. c.ops[i].l = d.ops[i].l /\ c.ops[i].l \notin c.parted /\ c.ops[j].l = d.ops[j].l
    BY <1>6, <2>1
  <2>3. SameList(c.ops, i, j)
    BY <2>1, <2>2 DEF SameList
  <2>4. c.ops[i].st # "inflight" /\ j <= c.ops[i].dep /\ Unresolved(c.ops[c.ops[i].dep])
    BY <1>1, <2>1, <2>2, <2>3 DEF QueueOK, Chained
  <2>5. c.ops[i].dep \in DOMAIN c.ops
    <3>1. c.ops[i].dep \in Nat /\ c.ops[i].dep # 0 /\ i \in Nat
      BY <1>2, <1>5, <2>4
    <3>2. c.ops[i].dep < i
      BY <1>1, <3>1 DEF QueueOK, WaitsOK
    <3> QED
      BY <1>2, <3>1, <3>2
  <2> QED
    BY <1>5, <2>4, <2>5
<1>9. ASSUME NEW n \in Nat, NEW L, NEW e \in DOMAIN c.ops, LastAsked(d.ops, n, L, e), L \notin d.parted
      PROVE  LastAsked(c.ops, n, L, e) /\ L \notin c.parted
  <2>1. e < n /\ c.ops[e].k = "rename" /\ d.ops[e].l = L /\ Unresolved(c.ops[e])
    BY <1>5, <1>9 DEF LastAsked
  <2>2. c.ops[e].l = L /\ L \notin c.parted /\ L \notin dup
    BY <1>5, <1>6, <1>9, <2>1
  <2>3. \A x \in DOMAIN c.ops : c.ops[x].l = L => d.ops[x].l = L
    BY <1>3, <2>2
  <2>4. \A x \in DOMAIN c.ops : e < x /\ x < n /\ c.ops[x].k = "rename" /\ c.ops[x].l = L => ~Unresolved(c.ops[x])
    BY <1>3, <1>5, <1>9, <2>3 DEF LastAsked
  <2> QED
    BY <2>1, <2>2, <2>4 DEF LastAsked
<1>10. GoesBack(d.ops, d.parted)
  <2> SUFFICES ASSUME NEW i \in DOMAIN c.ops, d.ops[i].k \in {"rename", "delete", "mdelete"}, Unresolved(d.ops[i]),
                      d.ops[i].l \notin d.parted, NEW e \in DOMAIN c.ops, LastAsked(d.ops, i, d.ops[i].l, e)
               PROVE  d.ops[i].wasName = d.ops[e].name
    BY <1>3 DEF GoesBack
  <2>1. c.ops[i].k \in {"rename", "delete", "mdelete"} /\ Unresolved(c.ops[i]) /\ c.ops[i].k # "move"
    BY <1>5
  <2>2. c.ops[i].l = d.ops[i].l
    BY <1>6, <2>1
  <2>3. LastAsked(c.ops, i, c.ops[i].l, e) /\ c.ops[i].l \notin c.parted
    BY <1>2, <1>9, <2>2
  <2>4. c.ops[i].wasName = c.ops[e].name
    BY <1>1, <2>1, <2>3 DEF QueueOK, GoesBack
  <2> QED
    BY <1>5, <2>4
<1>11. NamedAsAsked(d.rows, d.ops, d.parted)
  <2> SUFFICES ASSUME NEW x \in LocalRows \ d.parted, NEW e \in DOMAIN c.ops, LastAsked(d.ops, Len(c.ops) + 1, x, e)
               PROVE  d.rows[x].name = d.ops[e].name
    BY <1>3 DEF NamedAsAsked
  <2>1. LastAsked(c.ops, Len(c.ops) + 1, x, e) /\ x \notin c.parted
    BY <1>2, <1>9
  <2>2. c.rows[x].name = c.ops[e].name
    BY <1>1, <2>1 DEF QueueOK, NamedAsAsked
  <2>3. x \notin dup
    BY <1>5 DEF LastAsked
  <2> QED
    BY <1>3, <1>5, <2>2, <2>3
<1>12. CacheOK(d)
  BY <1>3, <1>7, <1>8, <1>10, <1>11 DEF CacheOK, QueueOK
<1> QED
  BY <1>12 DEF d

\* record_list_written: the name shown is the last one asked for, or the one Graph has now.
LEMMA RecordWrittenKeepsCache ==
  ASSUME NEW c, CacheOK(c), NEW i \in DOMAIN c.ops, c.ops[i].st = "inflight", c.ops[i].k # "move",
         NEW g \in 0 .. 4, NEW name \in Names
  PROVE  CacheOK(RecordListWritten(c, i, g, name))
<1> DEFINE r == c.ops[i].l
           m == MergeDuplicate(c, g, r)
           shown == OnTop(m, i, name)
           row == [[m.rows[r] EXCEPT !.gid = g] EXCEPT !.name = shown]
           rows2 == [m.rows EXCEPT ![r] = row]
           ops2 == [m.ops EXCEPT ![i] = Answered(m.ops[i], "done")]
           d == RecordListWritten(c, i, g, name)
<1>1. c \in CacheType /\ QueueOK(c.rows, c.ops, c.parted) /\ c.ops \in Seq(OpType) /\ c.ops[i] \in OpType
  BY DEF CacheOK, CacheType
<1>2. r \in LocalRows /\ c.rows[r].st # "none"
  BY <1>1 DEF QueueOK, WaitsOK, OpType
<1>3. CacheOK(m) /\ HasMerged(c, m, g, r)
  BY <1>1, <1>2, MergeKeepsQueue, MergeType
<1>4. m \in CacheType /\ QueueOK(m.rows, m.ops, m.parted) /\ m.ops \in Seq(OpType) /\ m.rows \in [LocalRows -> RowType]
  BY <1>3 DEF CacheOK, CacheType
<1>5. DOMAIN m.ops = DOMAIN c.ops /\ m.ops[i].l = r /\ m.ops[i].st = "inflight" /\ m.ops[i].k = c.ops[i].k /\ m.rows[r] = c.rows[r]
  BY <1>2, <1>3 DEF HasMerged, SameAsk, Duplicates
<1> DEFINE later == {j \in DOMAIN m.ops : j > i /\ m.ops[j].k = "rename" /\ m.ops[j].l = m.ops[i].l /\ Unresolved(m.ops[j])}
<1>6. shown = IF later = {} THEN name ELSE m.ops[Latest(later)].name
  BY DEF OnTop
<1>7. DOMAIN m.ops = 1 .. Len(m.ops) /\ Len(m.ops) \in Nat /\ i \in DOMAIN m.ops /\ \A j \in DOMAIN m.ops : m.ops[j] \in OpType
  BY <1>4, <1>5
<1>8. IF later = {} THEN Latest(later) = 0 ELSE Latest(later) \in later /\ \A j \in later : j <= Latest(later)
  <2>1. later \in SUBSET (1 .. Len(m.ops)) /\ Len(m.ops) \in Nat
    BY <1>7
  <2> HIDE DEF later
  <2> QED
    BY <2>1, LatestOfSome
<1>9. shown \in Names
  <2>1. \A j \in later : m.ops[j] \in OpType
    BY <1>7
  <2>2. \A j \in later : m.ops[j].name \in Names
    BY <2>1 DEF OpType
  <2> HIDE DEF later, shown
  <2> QED
    BY <1>6, <1>8, <2>2
<1> HIDE DEF shown, later
<1>10. row \in RowType /\ row.st = c.rows[r].st /\ row.name = shown
  <2>1. m.rows[r] \in RowType
    BY <1>2, <1>4
  <2>2. [m.rows[r] EXCEPT !.gid = g] \in RowType /\ [m.rows[r] EXCEPT !.gid = g].st = m.rows[r].st
    BY <2>1 DEF RowType
  <2> QED
    BY <1>5, <1>9, <2>2 DEF RowType
<1>11. Answered(m.ops[i], "done") \in OpType
  BY <1>7, AnsweredType
<1>12. d = [m EXCEPT !.rows = rows2, !.ops = ops2, !.written = m.written \union {r}]
  <2>1. d = [m EXCEPT !.rows[r].gid = g, !.rows[r].name = shown, !.ops[i].st = "done", !.written = @ \union {r}]
    BY DEF RecordListWritten, shown
  <2>2. [m EXCEPT !.rows[r].gid = g, !.rows[r].name = shown] = [m EXCEPT !.rows = rows2]
    BY <1>2, <1>4 DEF CacheType
  <2>3. [m EXCEPT !.ops[i].st = "done"] = [m EXCEPT !.ops = ops2]
    BY DEF CacheType, Answered
  <2> HIDE DEF m, d, row
  <2> QED
    BY <1>2, <1>4, <2>1 DEF CacheType, Answered, row
<1> HIDE DEF m, d, row
<1>13. rows2 \in [LocalRows -> RowType] /\ rows2[r] = row /\ \A x \in LocalRows \ {r} : rows2[x] = m.rows[x]
  BY <1>2, <1>4, <1>10
<1>14. ops2 \in Seq(OpType)
  BY <1>4, <1>7, <1>11
<1> HIDE DEF rows2
<1>15. d \in CacheType /\ d.rows = rows2 /\ d.parted = m.parted /\ d.ops = ops2
  <2> HIDE DEF ops2
  <2> QED
    BY <1>2, <1>4, <1>12, <1>13, <1>14 DEF CacheType
<1>16. NamedAsAsked(d.rows, d.ops, d.parted)
  <2>1. Answered(m.ops[i], "done").st = "done" /\ SameWrite(m.ops[i], Answered(m.ops[i], "done"))
    BY <1>7, AnsweredType
  <2>2. DOMAIN d.ops = DOMAIN m.ops /\ Len(d.ops) = Len(m.ops) /\ d.ops[i] = Answered(m.ops[i], "done")
        /\ \A j \in DOMAIN m.ops : j # i => d.ops[j] = m.ops[j]
    BY <1>4, <1>7, <1>15
  <2>3. \A j \in DOMAIN m.ops : SameWrite(m.ops[j], d.ops[j])
    BY <2>1, <2>2 DEF SameWrite
  <2>4. \A j \in DOMAIN m.ops : Unresolved(d.ops[j]) <=> Unresolved(m.ops[j]) /\ j # i
    BY <2>1, <2>2 DEF Unresolved
  <2> HIDE DEF ops2
  <2> SUFFICES ASSUME NEW x \in LocalRows \ d.parted, NEW e \in DOMAIN m.ops, LastAsked(d.ops, Len(m.ops) + 1, x, e)
               PROVE  d.rows[x].name = m.ops[e].name
    <3>1. \A e \in DOMAIN m.ops : d.ops[e].name = m.ops[e].name
      BY <2>3 DEF SameWrite
    <3> QED
      BY <2>2, <3>1 DEF NamedAsAsked
  <2>5. m.ops[e].k = "rename" /\ m.ops[e].l = x /\ Unresolved(m.ops[e]) /\ e # i
    BY <2>3, <2>4 DEF LastAsked, SameWrite
  <2>6. \A j \in DOMAIN m.ops : e < j /\ m.ops[j].k = "rename" /\ m.ops[j].l = x /\ j # i => ~Unresolved(m.ops[j])
    <3> SUFFICES ASSUME NEW j \in DOMAIN m.ops, e < j, m.ops[j].k = "rename", m.ops[j].l = x, j # i
                 PROVE  ~Unresolved(m.ops[j])
      OBVIOUS
    <3>1. d.ops[j].k = "rename" /\ d.ops[j].l = x /\ j < Len(m.ops) + 1
      BY <1>7, <2>2
    <3> QED
      BY <2>2, <2>4, <3>1 DEF LastAsked
  <2>7. CASE x = r
    <3>1. SameList(m.ops, i, e)
      BY <1>5, <2>5, <2>7 DEF SameList
    <3>2. ~(e < i)
      BY <1>4, <1>5, <1>7, <1>15, <2>5, <2>7, <3>1 DEF QueueOK, Chained, Unresolved
    <3>3. e > i /\ e \in later
      BY <1>5, <1>7, <2>5, <2>7, <3>2 DEF later
    <3>4. \A j \in later : j <= e
      <4> SUFFICES ASSUME NEW j \in later, e < j PROVE FALSE
        BY <1>7 DEF later
      <4> QED
        BY <1>5, <1>7, <2>6, <2>7, <3>3 DEF later
    <3>5. Latest(later) = e
      <4>1. later # {} /\ Latest(later) \in DOMAIN m.ops /\ Latest(later) <= e /\ e <= Latest(later)
        BY <1>8, <3>3, <3>4 DEF later
      <4> QED
        BY <1>7, <4>1
    <3> QED
      BY <1>6, <1>10, <1>13, <1>15, <2>7, <3>3, <3>5
  <2>8. CASE x # r
    <3>1. LastAsked(m.ops, Len(m.ops) + 1, x, e)
      BY <1>5, <1>7, <2>5, <2>6, <2>8 DEF LastAsked
    <3>2. m.rows[x].name = m.ops[e].name
      BY <1>4, <1>15, <3>1 DEF QueueOK, NamedAsAsked
    <3> QED
      BY <1>13, <1>15, <2>8, <3>2
  <2> QED
    BY <2>7, <2>8
<1>17. \A x \in LocalRows : m.rows[x].st # "none" => d.rows[x].st # "none"
  BY <1>5, <1>10, <1>13, <1>15
<1>18. CacheOK(d)
  <2>1. Unresolved(m.ops[i]) /\ m.ops[i].st = "inflight" /\ i \in DOMAIN m.ops
    BY <1>5, <1>7 DEF Unresolved
  <2>2. Answers(m, d, i, "done")
    BY <1>15 DEF Answers
  <2>3. CacheOK(m)
    BY <1>3
  <2> HIDE DEF ops2
  <2> QED
    BY <1>16, <1>17, <2>1, <2>2, <2>3, AnswerKeepsCache
<1> QED
  BY <1>18 DEF d

\* The other answers leave the names alone.
LEMMA DoneKeepsCache ==
  ASSUME NEW c, CacheOK(c), NEW i \in DOMAIN c.ops, Unresolved(c.ops[i]),
         NEW st \in {"pending", "inflight", "unknown", "done"}, NEW d, Answers(c, d, i, st),
         \A r \in LocalRows : c.rows[r].name = d.rows[r].name /\ (c.rows[r].st # "none" => d.rows[r].st # "none"),
         st = "done" => c.ops[i].st = "inflight" /\ c.ops[i].k # "rename",
         st = "inflight" =>
           \A j \in DOMAIN c.ops : j < i /\ SameList(c.ops, i, j) /\ c.ops[i].l \notin c.parted => ~Unresolved(c.ops[j])
  PROVE  CacheOK(d)
<1>1. \A r \in LocalRows : c.rows[r].name = d.rows[r].name
  OBVIOUS
<1>2. st = "done" => c.ops[i].k # "rename"
  OBVIOUS
<1>3. NamedAsAsked(d.rows, d.ops, d.parted)
  BY <1>1, <1>2, AnswerKeepsNames
<1>4. \A r \in LocalRows : c.rows[r].st # "none" => d.rows[r].st # "none"
  OBVIOUS
<1>5. st = "done" => c.ops[i].st = "inflight"
  OBVIOUS
<1> QED
  BY <1>3, <1>4, <1>5, AnswerKeepsCache

\* An answer changes the state of one operation and nothing else of the queue.
LEMMA AnsweredOps ==
  ASSUME NEW c \in CacheType, NEW i \in DOMAIN c.ops, NEW st \in {"pending", "inflight", "unknown", "done"}
  PROVE  /\ [c.ops EXCEPT ![i] = Answered(c.ops[i], st)] \in Seq(OpType)
         /\ [c EXCEPT !.ops[i].st = st] = [c EXCEPT !.ops = [c.ops EXCEPT ![i] = Answered(c.ops[i], st)]]
         /\ Answers(c, [c EXCEPT !.ops[i].st = st], i, st) /\ [c EXCEPT !.ops[i].st = st].rows = c.rows
<1>1. c.ops \in Seq(OpType)
  BY DEF CacheType
<1>2. c.ops[i] \in OpType
  BY <1>1
<1>3. Answered(c.ops[i], st) \in OpType
  BY <1>2, AnsweredType
<1> DEFINE ops2 == [c.ops EXCEPT ![i] = Answered(c.ops[i], st)]
<1>4. ops2 \in Seq(OpType)
  BY <1>1, <1>3
<1>5. [c EXCEPT !.ops[i].st = st] = [c EXCEPT !.ops = ops2]
  BY DEF Answered
<1> HIDE DEF ops2
<1>6. /\ [c EXCEPT !.ops = ops2] \in CacheType /\ [c EXCEPT !.ops = ops2].ops = ops2
      /\ [c EXCEPT !.ops = ops2].rows = c.rows /\ [c EXCEPT !.ops = ops2].parted = c.parted
  BY <1>4 DEF CacheType
<1> QED
  BY <1>4, <1>5, <1>6 DEF ops2, Answers

\* So does a change of one operation's state alone, a rename's completion apart.
LEMMA StatusKeepsCache ==
  ASSUME NEW c, CacheOK(c), NEW i \in DOMAIN c.ops, Unresolved(c.ops[i]),
         NEW st \in {"pending", "inflight", "unknown", "done"},
         st = "done" => c.ops[i].st = "inflight" /\ c.ops[i].k # "rename",
         st = "inflight" =>
           \A j \in DOMAIN c.ops : j < i /\ SameList(c.ops, i, j) /\ c.ops[i].l \notin c.parted => ~Unresolved(c.ops[j])
  PROVE  CacheOK([c EXCEPT !.ops[i].st = st])
<1> DEFINE d == [c EXCEPT !.ops[i].st = st]
<1>1. Answers(c, d, i, st) /\ d.rows = c.rows
  <2>1. c \in CacheType /\ i \in DOMAIN c.ops
    BY DEF CacheOK
  <2>2. Answers(c, [c EXCEPT !.ops[i].st = st], i, st)
    BY <2>1, AnsweredOps
  <2>3. [c EXCEPT !.ops[i].st = st].rows = c.rows
    BY <2>1 DEF CacheType
  <2> QED
    BY <2>2, <2>3
<1> HIDE DEF d
<1>2. CacheOK(d)
  BY <1>1, DoneKeepsCache
<1> QED
  BY <1>2 DEF d

\* Recording a delete keeps the cache: the row stays, as deleted.
LEMMA RecordDeletedKeepsCache ==
  ASSUME NEW c, CacheOK(c), NEW i \in DOMAIN c.ops, c.ops[i].st = "inflight", c.ops[i].k # "rename"
  PROVE  CacheOK(RecordListDeleted(c, i))
<1> DEFINE r == c.ops[i].l
           gone == Tombstone(c, r)
           g == c.rows[r].gid
           d == RecordListDeleted(c, i)
           ops2 == [c.ops EXCEPT ![i] = Answered(c.ops[i], "done")]
           link2 == IF g = 0 THEN c.link ELSE [c.link EXCEPT ![g] = Tasks]
<1>1. c \in CacheType /\ QueueOK(c.rows, c.ops, c.parted) /\ c.ops \in Seq(OpType) /\ c.ops[i] \in OpType
  BY DEF CacheOK, CacheType
<1>2. r \in LocalRows /\ c.rows[r].st # "none"
  BY <1>1 DEF QueueOK, WaitsOK, OpType
<1>3. /\ gone \in CacheType /\ gone.ops = c.ops /\ gone.parted = c.parted /\ gone.link = c.link /\ gone.ready = c.ready
      /\ gone.rows[r].st = "dead"
  BY <1>1, <1>2, TombstoneType
<1>4. \A x \in LocalRows : gone.rows[x].name = c.rows[x].name /\ (x # r => gone.rows[x].st = c.rows[x].st)
  BY <1>1, <1>2, TombstoneType
<1>5. ops2 \in Seq(OpType)
  BY <1>1, AnsweredOps
<1>6. link2 \in [Gids -> SUBSET (0 .. 2)]
  <2>1. c.link \in [Gids -> SUBSET (0 .. 2)] /\ Tasks \in SUBSET (0 .. 2)
    BY <1>1 DEF CacheType, Tasks
  <2> QED
    BY <2>1
<1> HIDE DEF gone, g
<1>7. d = [gone EXCEPT !.ops = ops2, !.ready = gone.ready \ {g}, !.link = link2]
  <2>1. d = [gone EXCEPT !.ops[i].st = "done", !.ready = @ \ {g}, !.link = IF g = 0 THEN @ ELSE [@ EXCEPT ![g] = Tasks]]
    BY DEF RecordListDeleted, gone, g
  <2>2. gone.ops[i] = c.ops[i]
    BY <1>3
  <2> HIDE DEF d
  <2> QED
    BY <1>3, <2>1, <2>2 DEF CacheType, Answered
<1> HIDE DEF d, ops2, link2
<1>8. d \in CacheType /\ d.ops = ops2 /\ d.parted = c.parted /\ d.rows = gone.rows
  BY <1>3, <1>5, <1>6, <1>7 DEF CacheType
<1>9. \A x \in LocalRows : c.rows[x].name = d.rows[x].name /\ (c.rows[x].st # "none" => d.rows[x].st # "none")
  BY <1>3, <1>4, <1>8
<1>10. Unresolved(c.ops[i]) /\ Answers(c, d, i, "done")
  BY <1>8 DEF Unresolved, ops2, Answers
<1>11. CacheOK(d)
  BY <1>8, <1>9, <1>10, DoneKeepsCache
<1> QED
  BY <1>11 DEF d

\* Recording a folder keeps the cache.
LEMMA RecordExtensionKeepsCache ==
  ASSUME NEW c, CacheOK(c), NEW i \in DOMAIN c.ops, c.ops[i].st = "inflight", c.ops[i].k # "rename"
  PROVE  CacheOK(RecordListExtension(c, i))
<1> DEFINE r == c.ops[i].l
           later == {j \in DOMAIN c.ops : j > i /\ c.ops[j].k = "folder" /\ c.ops[j].l = r /\ Unresolved(c.ops[j])}
           filed == IF later = {} THEN c.ops[i].filed ELSE c.ops[Latest(later)].filed
           row == [c.rows[r] EXCEPT !.filed = filed]
           rows2 == [c.rows EXCEPT ![r] = row]
           ops2 == [c.ops EXCEPT ![i] = Answered(c.ops[i], "done")]
           d == RecordListExtension(c, i)
<1>1. c \in CacheType /\ QueueOK(c.rows, c.ops, c.parted) /\ c.ops \in Seq(OpType) /\ c.rows \in [LocalRows -> RowType]
  BY DEF CacheOK, CacheType
<1>2. DOMAIN c.ops = 1 .. Len(c.ops) /\ Len(c.ops) \in Nat /\ \A j \in DOMAIN c.ops : c.ops[j] \in OpType
  BY <1>1
<1>3. r \in LocalRows /\ c.rows[r] \in RowType
  BY <1>1, <1>2 DEF OpType
<1>4. filed \in BOOLEAN
  <2>1. later \in SUBSET (1 .. Len(c.ops))
    BY <1>2
  <2>2. \A j \in DOMAIN c.ops : c.ops[j].filed \in BOOLEAN
    BY <1>2 DEF OpType
  <2> HIDE DEF later
  <2>3. later # {} => Latest(later) \in later
    BY <1>2, <2>1, LatestOfSome
  <2> QED
    BY <1>2, <2>1, <2>2, <2>3
<1> HIDE DEF filed
<1>5. row \in RowType /\ row.st = c.rows[r].st /\ row.name = c.rows[r].name
  BY <1>3, <1>4 DEF RowType
<1>6. ops2 \in Seq(OpType)
  BY <1>1, AnsweredOps
<1>7. d = [c EXCEPT !.rows = rows2, !.ops = ops2, !.written = c.written \union {r}]
  <2>1. d = [c EXCEPT !.rows[r].filed = filed, !.ops[i].st = "done", !.written = @ \union {r}]
    BY DEF RecordListExtension, filed
  <2> HIDE DEF d
  <2> QED
    BY <1>1, <1>3, <2>1 DEF CacheType, Answered
<1> HIDE DEF row, d, ops2
<1>8. rows2 \in [LocalRows -> RowType] /\ \A x \in LocalRows : rows2[x].name = c.rows[x].name /\ rows2[x].st = c.rows[x].st
  BY <1>1, <1>3, <1>5
<1> HIDE DEF rows2
<1>9. d \in CacheType /\ d.ops = ops2 /\ d.rows = rows2 /\ d.parted = c.parted
  BY <1>1, <1>3, <1>6, <1>7, <1>8 DEF CacheType
<1>10. Unresolved(c.ops[i]) /\ Answers(c, d, i, "done")
  BY <1>9 DEF Unresolved, ops2, Answers
<1>11. \A x \in LocalRows : c.rows[x].name = d.rows[x].name /\ (c.rows[x].st # "none" => d.rows[x].st # "none")
  BY <1>8, <1>9
<1>12. CacheOK(d)
  BY <1>9, <1>10, <1>11, DoneKeepsCache
<1> QED
  BY <1>12 DEF d

\* Discarding a write that is not being sent, with what waits on it, keeps the cache.
LEMMA DroppedKeepsCache ==
  ASSUME NEW c, CacheOK(c), NEW i \in DOMAIN c.ops, c.ops[i].st \in {"pending", "unknown"}, c.ops[i].k \notin {"move", "folder"}
  PROVE  CacheOK(Dropped(c, i)) /\ StillSent(c, Dropped(c, i))
<1> DEFINE gone == Fail(c, i, "gone")
           d == Dropped(c, i)
<1>1. CacheOK(gone) /\ StillSent(c, gone)
  <2>1. Unresolved(c.ops[i]) /\ c.ops[i].st # "inflight" /\ (c.ops[i].k \in {"folder", "move"} => c.ops[i].st = "inflight")
    BY DEF Unresolved
  <2> QED
    BY <2>1, FailKeepsCache
<1>2. d = gone \/ d = [gone EXCEPT !.reread = c.reread]
  BY DEF Dropped
<1> HIDE DEF gone, d
<1>3. CASE d = gone
  BY <1>1, <1>3 DEF d
<1>4. CASE d = [gone EXCEPT !.reread = c.reread]
  <2>1. gone \in CacheType /\ c.reread \in BOOLEAN
    BY <1>1 DEF CacheOK, CacheType
  <2>2. d \in CacheType /\ d.rows = gone.rows /\ d.ops = gone.ops /\ d.parted = gone.parted
    BY <1>4, <2>1 DEF CacheType
  <2> QED
    BY <1>1, <2>2 DEF CacheOK, StillSent, d
<1> QED
  BY <1>2, <1>3, <1>4

GraphLists == [Gids -> [st : {"free", "here", "gone"}, name : Names, filed : BOOLEAN]]

\* apply_lists: one list of Graph's takes a free row, or its own row if nothing is on its way to it.
LEMMA ApplyOneKeepsCache ==
  ASSUME NEW c, CacheOK(c), NEW g \in Gids, NEW seen \in GraphLists, NEW S \in SUBSET Gids, g \in S, seen[g].st = "here",
         Cardinality(NotCached(c, seen, S)) <= Cardinality(FreeRows(c))
  PROVE  LET d == ApplyOne(c, g, seen)
         IN  /\ CacheOK(d) /\ StillSent(c, d)
             /\ Cardinality(NotCached(d, seen, S \ {g})) <= Cardinality(FreeRows(d))
<1> DEFINE d == ApplyOne(c, g, seen)
           known == {r \in LocalRows : c.rows[r].st # "none" /\ c.rows[r].gid = g}
           row == [st |-> "live", gid |-> g, name |-> seen[g].name, filed |-> seen[g].filed]
           as(r) == [c EXCEPT !.rows[r] = row]
<1>1. c \in CacheType /\ QueueOK(c.rows, c.ops, c.parted) /\ c.rows \in [LocalRows -> RowType]
  BY DEF CacheOK, CacheType
<1>2. row \in RowType /\ row.st = "live" /\ row.gid = g
  <2>1. g \in 0 .. 4
    BY DEF Gids
  <2>2. seen[g] \in [st : {"free", "here", "gone"}, name : Names, filed : BOOLEAN]
    BY DEF GraphLists
  <2> QED
    BY <2>1, <2>2 DEF RowType
<1> HIDE DEF row
<1>3. ASSUME NEW r \in LocalRows
      PROVE  /\ as(r) \in CacheType /\ as(r).rows[r] = row /\ as(r).ops = c.ops /\ as(r).parted = c.parted
             /\ \A x \in LocalRows \ {r} : as(r).rows[x] = c.rows[x]
  <2>1. as(r) = [c EXCEPT !.rows = [c.rows EXCEPT ![r] = row]]
    OBVIOUS
  <2>2. [c.rows EXCEPT ![r] = row] \in [LocalRows -> RowType]
    BY <1>1, <1>2
  <2> QED
    BY <1>1, <2>1, <2>2 DEF CacheType
<1> HIDE DEF as
<1>4. ASSUME NEW r \in LocalRows, \A i \in DOMAIN c.ops : c.ops[i].l = r /\ c.ops[i].k = "rename" => ~Unresolved(c.ops[i])
      PROVE  CacheOK(as(r)) /\ StillSent(c, as(r))
  <2>1. /\ as(r) \in CacheType /\ as(r).rows[r] = row /\ as(r).ops = c.ops /\ as(r).parted = c.parted
        /\ \A x \in LocalRows \ {r} : as(r).rows[x] = c.rows[x]
    BY <1>3
  <2>2. \A x \in LocalRows : c.rows[x].st # "none" => as(r).rows[x].st # "none"
    BY <1>2, <2>1
  <2>3. \A x \in LocalRows : \/ as(r).rows[x].name = c.rows[x].name
                             \/ \A i \in DOMAIN c.ops : c.ops[i].l = x /\ c.ops[i].k = "rename" => ~Unresolved(c.ops[i])
    BY <1>4, <2>1
  <2> QED
    BY <2>1, <2>2, <2>3, RowsKeepCache
<1>5. IsFiniteSet(FreeRows(c)) /\ IsFiniteSet(NotCached(c, seen, S))
  <2>1. IsFiniteSet(1 .. 4)
    BY FS_Interval, 1 \in Int, 4 \in Int
  <2>2. FreeRows(c) \in SUBSET (1 .. 4) /\ NotCached(c, seen, S) \in SUBSET (1 .. 4)
    BY DEF FreeRows, NotCached, LocalRows, Gids
  <2> QED
    BY <2>1, <2>2, FS_Subset
<1>6. CASE known = {}
  <2> DEFINE r == FreeRow(c)
  <2>1. d = as(r)
    BY <1>6 DEF ApplyOne, as, row
  <2>2. g \in NotCached(c, seen, S)
    BY <1>6 DEF NotCached, FreeRows
  <2>3. Cardinality(NotCached(c, seen, S)) \in Nat /\ Cardinality(FreeRows(c)) \in Nat
        /\ Cardinality(NotCached(c, seen, S)) # 0
    BY <1>5, <2>2, FS_CardinalityType, FS_EmptySet
  <2>4. FreeRows(c) # {}
    <3>1. Cardinality(FreeRows(c)) # 0
      BY <2>3
    <3> QED
      BY <3>1, FS_EmptySet
  <2>5. r \in FreeRows(c)
    BY <2>4 DEF FreeRow
  <2> HIDE DEF r
  <2>6. r \in LocalRows /\ c.rows[r].st = "none"
    BY <2>5 DEF FreeRows
  <2>7. \A i \in DOMAIN c.ops : c.ops[i].l # r
    BY <1>1, <2>6 DEF QueueOK, WaitsOK
  <2>8. CacheOK(d) /\ StillSent(c, d)
    BY <1>4, <2>1, <2>6, <2>7
  <2>9. d.rows[r] = row /\ \A x \in LocalRows \ {r} : d.rows[x] = c.rows[x]
    BY <1>3, <2>1, <2>6
  <2>10. FreeRows(d) = FreeRows(c) \ {r}
    BY <1>2, <2>9 DEF FreeRows
  <2>11. NotCached(d, seen, S \ {g}) \subseteq NotCached(c, seen, S) \ {g}
    <3>1. \A x \in LocalRows \ FreeRows(c) : x \in LocalRows \ FreeRows(d) /\ d.rows[x] = c.rows[x]
      BY <2>5, <2>9, <2>10
    <3> QED
      BY <3>1 DEF NotCached
  <2>12. Cardinality(FreeRows(d)) = Cardinality(FreeRows(c)) - 1
    <3>1. Cardinality(FreeRows(c) \ {r}) = Cardinality(FreeRows(c)) - 1
      BY <1>5, <2>5, FS_RemoveElement
    <3> QED
      BY <2>10, <3>1
  <2>13. /\ Cardinality(NotCached(c, seen, S) \ {g}) = Cardinality(NotCached(c, seen, S)) - 1
         /\ IsFiniteSet(NotCached(c, seen, S) \ {g})
    BY <1>5, <2>2, FS_RemoveElement
  <2>14. Cardinality(NotCached(d, seen, S \ {g})) <= Cardinality(NotCached(c, seen, S) \ {g})
         /\ Cardinality(NotCached(d, seen, S \ {g})) \in Nat
    BY <2>11, <2>13, FS_Subset, FS_CardinalityType
  <2>15. Cardinality(NotCached(d, seen, S \ {g})) <= Cardinality(FreeRows(d))
    BY <2>3, <2>12, <2>13, <2>14
  <2> QED
    BY <2>8, <2>15
<1>7. CASE known # {}
  <2> DEFINE r == CHOOSE r \in known : TRUE
  <2>1. r \in known
    BY <1>7
  <2>2. d = IF LeftAlone(c, r) THEN c ELSE as(r)
    BY <1>7 DEF ApplyOne, as, row
  <2> HIDE DEF r
  <2>3. r \in LocalRows /\ c.rows[r].st # "none" /\ c.rows[r].gid = g
    BY <2>1
  <2>4. CacheOK(d) /\ StillSent(c, d) /\ FreeRows(d) = FreeRows(c)
        /\ \A x \in LocalRows \ FreeRows(c) : d.rows[x].gid = c.rows[x].gid
    <3>1. CASE LeftAlone(c, r)
      BY <2>2, <3>1 DEF StillSent
    <3>2. CASE ~LeftAlone(c, r)
      <4>1. \A i \in DOMAIN c.ops : c.ops[i].l = r /\ c.ops[i].k = "rename" => ~Unresolved(c.ops[i])
        BY <3>2 DEF LeftAlone, Busy, Entity
      <4>2. CacheOK(as(r)) /\ StillSent(c, as(r))
        BY <1>4, <2>3, <4>1
      <4>3. as(r).rows[r] = row /\ \A x \in LocalRows \ {r} : as(r).rows[x] = c.rows[x]
        BY <1>3, <2>3
      <4>4. d = as(r)
        BY <2>2, <3>2
      <4>5. FreeRows(d) = FreeRows(c)
        BY <1>2, <2>3, <4>3, <4>4 DEF FreeRows
      <4>6. \A x \in LocalRows : d.rows[x].gid = c.rows[x].gid
        BY <1>2, <2>3, <4>3, <4>4
      <4> QED
        BY <4>2, <4>4, <4>5, <4>6
    <3> QED
      BY <3>1, <3>2
  <2>5. NotCached(d, seen, S \ {g}) \subseteq NotCached(c, seen, S)
    BY <2>4 DEF NotCached
  <2>6. Cardinality(NotCached(d, seen, S \ {g})) <= Cardinality(NotCached(c, seen, S))
        /\ Cardinality(NotCached(d, seen, S \ {g})) \in Nat /\ Cardinality(NotCached(c, seen, S)) \in Nat
        /\ Cardinality(FreeRows(c)) \in Nat
    BY <1>5, <2>5, FS_Subset, FS_CardinalityType
  <2>7. Cardinality(NotCached(d, seen, S \ {g})) <= Cardinality(FreeRows(d))
    BY <2>4, <2>6
  <2> QED
    BY <2>4, <2>7
<1> QED
  BY <1>6, <1>7

\* tombstone_list: what was queued for the list fails, but for what is being sent.
LEMMA ListGoneKeepsCache ==
  ASSUME NEW c, CacheOK(c), NEW r \in LocalRows, c.rows[r].st # "none"
  PROVE  /\ CacheOK(ListGone(c, r)) /\ StillSent(c, ListGone(c, r))
         /\ \A x \in LocalRows : c.rows[x].st # "none" => ListGone(c, r).rows[x].st # "none"
<1> DEFINE failing == {i \in DOMAIN c.ops : c.ops[i].k # "move" /\ c.ops[i].l = r /\ c.ops[i].st \in {"pending", "unknown"}}
           F == QueuedFor(c, r)
           rows2 == [c.rows EXCEPT ![r] = [c.rows[r] EXCEPT !.st = "dead"]]
           ops2 == [i \in DOMAIN c.ops |-> IF i \in F THEN Answered(c.ops[i], "failed") ELSE c.ops[i]]
           tasks2 == [t \in Tasks |-> [c.tasks[t] EXCEPT !.live = c.tasks[t].live /\ t \notin LeftWith(c, r)]]
           link2 == [c.link EXCEPT ![c.rows[r].gid] = Tasks]
           parted2 == IF Sent(c, r) THEN c.parted \union {r} ELSE c.parted
           failed == FailQueued(c, r)
           d == ListGone(c, r)
<1>1. c \in CacheType /\ QueueOK(c.rows, c.ops, c.parted) /\ c.rows \in [LocalRows -> RowType] /\ c.ops \in Seq(OpType)
      /\ c.parted \in SUBSET LocalRows /\ c.tasks \in [Tasks -> [list : 0 .. 4, live : BOOLEAN]]
      /\ c.link \in [Gids -> SUBSET (0 .. 2)] /\ Tasks \in SUBSET (0 .. 2)
  BY DEF CacheOK, CacheType, Tasks
<1>2. DOMAIN c.ops = 1 .. Len(c.ops) /\ Len(c.ops) \in Nat /\ \A i \in DOMAIN c.ops : c.ops[i] \in OpType
  BY <1>1
<1>3. d = [failed EXCEPT !.rows = rows2, !.tasks = tasks2, !.link = link2, !.ready = c.ready \ {c.rows[r].gid}]
      /\ failed = [c EXCEPT !.ops = ops2, !.parted = parted2]
  <2>1. d = [failed EXCEPT !.rows[r].st = "dead", !.tasks = tasks2, !.link[c.rows[r].gid] = Tasks, !.ready = @ \ {c.rows[r].gid}]
    BY DEF ListGone
  <2>2. failed = [c EXCEPT !.ops = ops2, !.parted = parted2]
    BY DEF FailQueued, Answered
  <2> HIDE DEF ops2, tasks2, parted2, d, failed
  <2>3. failed.rows = c.rows /\ failed.link = c.link /\ failed.ready = c.ready
    BY <1>1, <2>2 DEF CacheType
  <2>4. d = [failed EXCEPT !.rows = rows2, !.tasks = tasks2, !.link = link2, !.ready = c.ready \ {c.rows[r].gid}]
    BY <2>1, <2>3
  <2> QED
    BY <2>2, <2>4
<1>4. rows2 \in [LocalRows -> RowType]
      /\ \A x \in LocalRows : rows2[x].name = c.rows[x].name /\ (c.rows[x].st # "none" => rows2[x].st # "none")
  <2>1. c.rows[r] \in RowType
    BY <1>1
  <2>2. [c.rows[r] EXCEPT !.st = "dead"] \in RowType /\ [c.rows[r] EXCEPT !.st = "dead"].name = c.rows[r].name
        /\ [c.rows[r] EXCEPT !.st = "dead"].st = "dead"
    BY <2>1 DEF RowType
  <2> QED
    BY <1>1, <2>2
<1>5. tasks2 \in [Tasks -> [list : 0 .. 4, live : BOOLEAN]]
  <2>1. \A t \in Tasks : c.tasks[t] \in [list : 0 .. 4, live : BOOLEAN]
    BY <1>1
  <2>2. \A t \in Tasks : \A b \in BOOLEAN : [c.tasks[t] EXCEPT !.live = b] \in [list : 0 .. 4, live : BOOLEAN]
    BY <2>1
  <2>3. \A t \in Tasks : (c.tasks[t].live /\ t \notin LeftWith(c, r)) \in BOOLEAN
    OBVIOUS
  <2> QED
    BY <2>2, <2>3
<1>6. link2 \in [Gids -> SUBSET (0 .. 2)]
  BY <1>1
<1>7. \A i \in DOMAIN c.ops : /\ Answered(c.ops[i], "failed") \in OpType /\ Answered(c.ops[i], "failed").st = "failed"
                              /\ SameWrite(c.ops[i], Answered(c.ops[i], "failed")) /\ SameWrite(c.ops[i], c.ops[i])
  BY <1>2, AnsweredType DEF SameWrite
<1>8. /\ DOMAIN ops2 = DOMAIN c.ops
      /\ \A i \in DOMAIN c.ops : ops2[i] = IF i \in F THEN Answered(c.ops[i], "failed") ELSE c.ops[i]
  OBVIOUS
\* What fails is on that list, and not sent.
<1>9. \A i \in F : i \in DOMAIN c.ops /\ c.ops[i].k # "move" /\ c.ops[i].l = r /\ c.ops[i].st \in {"pending", "unknown"}
  <2>1. ASSUME NEW i \in failing, NEW j \in Behind(c.ops, i)
        PROVE  j \in DOMAIN c.ops /\ c.ops[j].k # "move" /\ c.ops[j].l = r /\ c.ops[j].st \in {"pending", "unknown"}
    <3>1. WaitsOK(c.rows, c.ops) /\ i \in DOMAIN c.ops
      BY <1>1 DEF QueueOK
    <3>2. j \in DOMAIN c.ops /\ Entity(c.ops[j]) = Entity(c.ops[i]) /\ c.ops[j].st \in {"pending", "unknown"}
      BY <1>1, <3>1, BehindIsLater
    <3> QED
      BY <3>2 DEF Entity
  <2>2. F = failing \union UNION {Behind(c.ops, i) : i \in failing}
    BY DEF QueuedFor
  <2> HIDE DEF F
  <2> QED
    BY <2>1, <2>2
<1>23. failing \subseteq F
  BY DEF QueuedFor
<1> HIDE DEF F
<1>10. ops2 \in Seq(OpType) /\ Len(ops2) = Len(c.ops)
  <2>1. \A i \in DOMAIN c.ops : ops2[i] \in OpType
    BY <1>2, <1>7, <1>8
  <2>2. ops2 \in [1 .. Len(c.ops) -> OpType]
    BY <1>2, <1>8, <2>1
  <2> HIDE DEF ops2
  <2> QED
    BY <1>2, <2>2
<1>11. parted2 \in SUBSET LocalRows
  BY <1>1
<1> HIDE DEF rows2, ops2, tasks2, link2, parted2, d, failed
<1>12. d \in CacheType /\ d.rows = rows2 /\ d.ops = ops2 /\ d.parted = parted2
  BY <1>1, <1>3, <1>4, <1>5, <1>6, <1>10, <1>11 DEF CacheType
<1>13. \A i \in DOMAIN c.ops : SameWrite(c.ops[i], ops2[i]) /\ (i \in F => ops2[i].st = "failed") /\ (i \notin F => ops2[i] = c.ops[i])
  BY <1>7, <1>8
<1>14. \A i \in DOMAIN c.ops : SameWrite(c.ops[i], ops2[i]) /\ (Unresolved(ops2[i]) => Unresolved(c.ops[i]))
  BY <1>13 DEF Unresolved
<1>15. \A i \in DOMAIN c.ops : ops2[i].st = "inflight" =>
         \/ c.ops[i].st = "inflight"
         \/ \A j \in DOMAIN c.ops : j < i /\ SameList(c.ops, i, j) /\ c.ops[i].l \notin parted2 => ~Unresolved(c.ops[j])
  BY <1>13
\* Nothing of that list is left but what was being sent.
<1>16. ASSUME NEW i \in DOMAIN c.ops, c.ops[i].k # "move", c.ops[i].l = r, Unresolved(ops2[i])
       PROVE  r \in parted2
  <2>1. i \notin F
    BY <1>13, <1>16 DEF Unresolved
  <2>2. Unresolved(c.ops[i]) /\ c.ops[i].st \notin {"pending", "unknown"}
    BY <1>13, <1>16, <1>23, <2>1
  <2>3. Sent(c, r)
    BY <1>16, <2>2 DEF Unresolved, Sent
  <2> QED
    BY <2>3 DEF parted2
<1>17. \A z, x, y \in DOMAIN c.ops :
         /\ y < x /\ x < z /\ SameList(c.ops, z, x) /\ SameList(c.ops, z, y) /\ c.ops[z].l \notin parted2
         /\ Unresolved(c.ops[y]) /\ Unresolved(c.ops[x]) /\ Unresolved(ops2[z])
         => Unresolved(ops2[x])
  <2> SUFFICES ASSUME NEW z \in DOMAIN c.ops, NEW x \in DOMAIN c.ops, SameList(c.ops, z, x), c.ops[z].l \notin parted2,
                      Unresolved(c.ops[x]), Unresolved(ops2[z])
               PROVE  Unresolved(ops2[x])
    OBVIOUS
  <2>1. CASE x \in F
    <3>1. c.ops[z].k # "move" /\ c.ops[z].l = r
      BY <1>9, <2>1 DEF SameList
    <3> QED
      BY <1>16, <3>1
  <2>2. CASE x \notin F
    BY <1>13, <2>2
  <2> QED
    BY <2>1, <2>2
<1>18. NamedAsAsked(rows2, ops2, parted2)
  <2> SUFFICES ASSUME NEW x \in LocalRows \ parted2, NEW e \in DOMAIN c.ops, LastAsked(ops2, Len(c.ops) + 1, x, e)
               PROVE  rows2[x].name = c.ops[e].name
    <3>1. \A e \in DOMAIN c.ops : ops2[e].name = c.ops[e].name
      BY <1>13 DEF SameWrite
    <3> QED
      BY <1>8, <1>10, <3>1 DEF NamedAsAsked
  <2>1. c.ops[e].k = "rename" /\ c.ops[e].l = x /\ Unresolved(ops2[e]) /\ e < Len(c.ops) + 1
    BY <1>13 DEF LastAsked, SameWrite
  <2>2. x # r
    BY <1>16, <2>1
  <2>3. \A j \in DOMAIN c.ops : c.ops[j].l = x => ops2[j] = c.ops[j]
    BY <1>9, <1>13, <2>2
  <2>4. LastAsked(c.ops, Len(c.ops) + 1, x, e)
    BY <1>8, <2>1, <2>3 DEF LastAsked
  <2>5. x \notin c.parted
    BY DEF parted2
  <2> QED
    BY <1>1, <1>4, <2>4, <2>5 DEF QueueOK, NamedAsAsked
<1>19. c.parted \subseteq parted2
  BY DEF parted2
<1>20. QueueOK(rows2, ops2, parted2)
  <2>1. \A x \in LocalRows : c.rows[x].st # "none" => rows2[x].st # "none"
    BY <1>4
  <2> QED
    BY <1>1, <1>4, <1>10, <1>14, <1>15, <1>17, <1>18, <1>19, <2>1, AnswersKeepQueue
<1>21. StillSent(c, d)
  <2>1. \A i \in DOMAIN c.ops : c.ops[i].st = "inflight" => i \notin F
    BY <1>9
  <2> QED
    BY <1>8, <1>12, <1>13, <2>1 DEF StillSent
<1>22. CacheOK(d) /\ \A x \in LocalRows : c.rows[x].st # "none" => d.rows[x].st # "none"
  BY <1>4, <1>12, <1>20 DEF CacheOK
<1> QED
  BY <1>21, <1>22 DEF d

\* apply_lists: Graph's lists in turn, each finding a free row if the cache doesn't have it.
LEMMA ApplyAllKeepsCache ==
  ASSUME NEW c, CacheOK(c), NEW seen \in GraphLists, Cardinality(NotCached(c, seen, Gids)) <= Cardinality(FreeRows(c))
  PROVE  CacheOK(ApplyAll(c, seen)) /\ StillSent(c, ApplyAll(c, seen))
<1> DEFINE one(d, g) == IF seen[g].st = "here" THEN ApplyOne(d, g, seen) ELSE d
           room(d, S) == Cardinality(NotCached(d, seen, S)) <= Cardinality(FreeRows(d))
<1>1. ASSUME NEW d, CacheOK(d), StillSent(c, d), NEW S \in SUBSET Gids, NEW g \in S, room(d, S)
      PROVE  CacheOK(one(d, g)) /\ StillSent(c, one(d, g)) /\ room(one(d, g), S \ {g})
  <2>1. CASE seen[g].st = "here"
    <3>1. CacheOK(ApplyOne(d, g, seen)) /\ StillSent(d, ApplyOne(d, g, seen)) /\ room(ApplyOne(d, g, seen), S \ {g})
      BY <1>1, <2>1, ApplyOneKeepsCache
    <3>2. StillSent(c, ApplyOne(d, g, seen))
      BY <1>1, <3>1, SentOn
    <3> QED
      BY <2>1, <3>1, <3>2
  <2>2. CASE seen[g].st # "here"
    <3>1. NotCached(d, seen, S \ {g}) \subseteq NotCached(d, seen, S)
      BY DEF NotCached
    <3>2. IsFiniteSet(NotCached(d, seen, S)) /\ IsFiniteSet(FreeRows(d))
      <4>1. IsFiniteSet(1 .. 4)
        BY FS_Interval, 1 \in Int, 4 \in Int
      <4>2. NotCached(d, seen, S) \in SUBSET (1 .. 4) /\ FreeRows(d) \in SUBSET (1 .. 4)
        BY DEF NotCached, FreeRows, LocalRows, Gids
      <4> QED
        BY <4>1, <4>2, FS_Subset
    <3>3. /\ Cardinality(NotCached(d, seen, S \ {g})) <= Cardinality(NotCached(d, seen, S))
          /\ Cardinality(NotCached(d, seen, S \ {g})) \in Nat /\ Cardinality(NotCached(d, seen, S)) \in Nat
          /\ Cardinality(FreeRows(d)) \in Nat
      BY <3>1, <3>2, FS_Subset, FS_CardinalityType
    <3> QED
      BY <1>1, <2>2, <3>3
  <2> QED
    BY <2>1, <2>2
<1>2. Gids = {1, 2, 3, 4}
  BY DEF Gids
<1>3. StillSent(c, c)
  BY DEF StillSent
<1>4. ApplyAll(c, seen) = one(one(one(one(c, 1), 2), 3), 4)
  BY DEF ApplyAll
<1> DEFINE c1 == one(c, 1)
           c2 == one(c1, 2)
           c3 == one(c2, 3)
           S1 == Gids \ {1}
           S2 == S1 \ {2}
           S3 == S2 \ {3}
<1>5. /\ Gids \in SUBSET Gids /\ 1 \in Gids /\ S1 \in SUBSET Gids /\ 2 \in S1 /\ S2 \in SUBSET Gids /\ 3 \in S2
      /\ S3 \in SUBSET Gids /\ 4 \in S3
  BY <1>2
<1>6. room(c, Gids)
  OBVIOUS
<1> HIDE DEF one, room, S1, S2, S3
<1>7. CacheOK(c1) /\ StillSent(c, c1) /\ room(c1, S1)
  BY <1>1, <1>3, <1>5, <1>6 DEF S1
<1>8. CacheOK(c2) /\ StillSent(c, c2) /\ room(c2, S2)
  <2> HIDE DEF c1
  <2> QED
    BY <1>1, <1>5, <1>7 DEF S2
<1>9. CacheOK(c3) /\ StillSent(c, c3) /\ room(c3, S3)
  <2> HIDE DEF c2
  <2> QED
    BY <1>1, <1>5, <1>8 DEF S3
<1> HIDE DEF c3
<1>10. CacheOK(one(c3, 4)) /\ StillSent(c, one(c3, 4))
  BY <1>1, <1>5, <1>9
<1> QED
  BY <1>4, <1>10 DEF c3

\* A pass that drops the lists Graph no longer has keeps the cache.
LEMMA DropGoneKeepsCache ==
  ASSUME NEW c, CacheOK(c), NEW seen
  PROVE  CacheOK(DropGone(c, seen)) /\ StillSent(c, DropGone(c, seen))
<1> DEFINE drop(d, r) == IF r \in GoneOf(c, seen) THEN ListGone(d, r) ELSE d
           ok(d) == CacheOK(d) /\ StillSent(c, d) /\ \A x \in LocalRows : c.rows[x].st # "none" => d.rows[x].st # "none"
<1>1. ASSUME NEW d, ok(d), NEW r \in LocalRows PROVE ok(drop(d, r))
  <2>1. CASE r \in GoneOf(c, seen)
    <3>1. d.rows[r].st # "none"
      BY <1>1, <2>1 DEF GoneOf
    <3>2. /\ CacheOK(ListGone(d, r)) /\ StillSent(d, ListGone(d, r))
          /\ \A x \in LocalRows : d.rows[x].st # "none" => ListGone(d, r).rows[x].st # "none"
      BY <1>1, <3>1, ListGoneKeepsCache
    <3>3. StillSent(c, ListGone(d, r))
      BY <1>1, <3>2, SentOn
    <3> QED
      BY <1>1, <2>1, <3>2, <3>3
  <2>2. CASE r \notin GoneOf(c, seen)
    BY <1>1, <2>2
  <2> QED
    BY <2>1, <2>2
<1>2. ok(c)
  BY DEF StillSent
<1>3. DropGone(c, seen) = drop(drop(drop(drop(c, 1), 2), 3), 4)
  BY DEF DropGone
<1>4. 1 \in LocalRows /\ 2 \in LocalRows /\ 3 \in LocalRows /\ 4 \in LocalRows
  BY DEF LocalRows
<1> HIDE DEF drop, ok
<1>5. ok(drop(c, 1))
  BY <1>1, <1>2, <1>4
<1>6. ok(drop(drop(c, 1), 2))
  BY <1>1, <1>4, <1>5
<1>7. ok(drop(drop(drop(c, 1), 2), 3))
  BY <1>1, <1>4, <1>6
<1>8. ok(drop(drop(drop(drop(c, 1), 2), 3), 4))
  BY <1>1, <1>4, <1>7
<1> QED
  BY <1>3, <1>8 DEF ok

(* What is on its way.                                                     *)

GraphType == graph \in [lists : GraphLists, tasks : [Tasks -> 0 .. 4]]

\* What the worker has in hand is marked as being sent.
NetOK ==
  net.st # Idle =>
    /\ net.i \in DOMAIN db.ops /\ db.ops[net.i].st = "inflight"
    /\ net.gid \in 0 .. 4
    /\ net.st = "sent" => net.to \in 0 .. 4

PassOK ==
  \/ pass = [st |-> Idle]
  \/ pass = [st |-> "began"]
  \/ pass \in [st : {"fetched"}, seen : GraphLists, moved : BOOLEAN]

PlanOK ==
  \/ plan = [k |-> Idle]
  \/ plan \in [k : {"create"}, l : {0}, name : Names, filed : BOOLEAN]
  \/ plan \in [k : {"rename"}, l : LocalRows, name : Names]
  \/ plan \in [k : {"folder"}, l : LocalRows, filed : BOOLEAN]
  \/ plan \in [k : {"delete"}, l : LocalRows, counted : Nat]
  \/ plan \in [k : {"merge"}, l : LocalRows, moving : SUBSET Tasks]

ListsInv == CacheOK(db) /\ GraphType /\ NetOK /\ PassOK /\ PlanOK

\* While the worker's operation is still being sent, so is what it holds.
LEMMA NetKept ==
  ASSUME NetOK, net' = net, StillSent(db, db')
  PROVE  NetOK'
BY DEF NetOK, StillSent

\* A change to the lists while a pass holds what it fetched only makes the pass know of it.
LEMMA MovedKeepsPass == ASSUME PassOK, ListsMoved PROVE PassOK'
<1>1. CASE pass.st = "fetched"
  <2>1. pass \in [st : {"fetched"}, seen : GraphLists, moved : BOOLEAN]
    BY <1>1 DEF PassOK, Idle
  <2>2. pass' = [pass EXCEPT !.moved = TRUE]
    BY <1>1 DEF ListsMoved
  <2> QED
    BY <2>1, <2>2 DEF PassOK
<1>2. CASE pass.st # "fetched"
  BY <1>2 DEF PassOK, ListsMoved
<1> QED
  BY <1>1, <1>2

\* The first states satisfy the invariant.
LEMMA ListsInit == Init => ListsInv
<1> SUFFICES ASSUME Init PROVE ListsInv
  OBVIOUS
<1>1. db.rows \in [LocalRows -> RowType]
  BY ListsConstants DEF Init, LocalRows, RowType, NoRow, BuiltIn
<1>2. db.tasks \in [Tasks -> [list : 0 .. 4, live : BOOLEAN]]
  BY DEF Init
<1>3. db.link \in [Gids -> SUBSET (0 .. 2)]
  BY DEF Init, Gids, Tasks
<1>4. db.ops = <<>> /\ db.written = {} /\ db.parted = {} /\ db.ready = {1, 2} /\ db.reread = FALSE
  BY DEF Init
<1>5. db = [rows |-> db.rows, tasks |-> db.tasks, ops |-> <<>>, written |-> {}, parted |-> {}, ready |-> {1, 2},
            reread |-> FALSE, link |-> db.link]
  BY DEF Init
<1>6. db \in CacheType
  <2>1. <<>> \in Seq(OpType) /\ {1, 2} \in SUBSET Gids
    BY DEF Gids
  <2> QED
    BY <1>1, <1>2, <1>3, <1>4, <1>5, <2>1 DEF CacheType
<1>7. QueueOK(db.rows, db.ops, db.parted)
  BY <1>4 DEF QueueOK, WaitsOK, Chained, GoesBack, NamedAsAsked
<1>8. GraphType
  BY ListsConstants DEF Init, GraphType, GraphLists, Gids, NoList
<1>9. NetOK /\ PassOK /\ PlanOK
  BY DEF Init, NetOK, PassOK, PlanOK
<1> QED
  BY <1>6, <1>7, <1>8, <1>9 DEF ListsInv, CacheOK

\* A plan is one of the five there are.
LEMMA IdlePlan == ASSUME PlanOK, plan.k # Idle PROVE
  \/ plan \in [k : {"create"}, l : {0}, name : Names, filed : BOOLEAN]
  \/ plan \in [k : {"rename"}, l : LocalRows, name : Names]
  \/ plan \in [k : {"folder"}, l : LocalRows, filed : BOOLEAN]
  \/ plan \in [k : {"delete"}, l : LocalRows, counted : Nat]
  \/ plan \in [k : {"merge"}, l : LocalRows, moving : SUBSET Tasks]
BY DEF PlanOK

\* Planning a command keeps the invariant.
LEMMA PlansKeep ==
  ASSUME ListsInv, PlanCreate \/ PlanRename \/ PlanFolder \/ PlanDelete \/ PlanMerge PROVE ListsInv'
<1>1. PlanOK'
  <2>1. CASE PlanCreate
    BY <2>1 DEF PlanCreate, PlanOK
  <2>2. CASE PlanRename
    BY <2>2 DEF PlanRename, PlanOK
  <2>3. CASE PlanFolder
    BY <2>3 DEF PlanFolder, PlanOK
  <2>4. CASE PlanDelete
    <3>1. PICK r \in LocalRows : plan' = [k |-> "delete", l |-> r, counted |-> ConfirmedTasks(r)]
      BY <2>4 DEF PlanDelete
    <3>2. ConfirmedTasks(r) \in Nat
      <4>1. IsFiniteSet(Tasks)
        BY FS_Interval, 1 \in Int, 2 \in Int DEF Tasks
      <4>2. \A S \in SUBSET Tasks : Cardinality(S) \in Nat
        BY <4>1, FS_Subset, FS_CardinalityType
      <4>3. LiveIn(db, r) \in SUBSET Tasks /\ {t \in Tasks : graph.tasks[t] = db.rows[r].gid} \in SUBSET Tasks
        BY DEF LiveIn
      <4>4. Cardinality(LiveIn(db, r)) \in Nat /\ Cardinality({t \in Tasks : graph.tasks[t] = db.rows[r].gid}) \in Nat
        BY <4>2, <4>3
      <4> QED
        BY <4>4 DEF ConfirmedTasks
    <3> QED
      BY <3>1, <3>2 DEF PlanOK
  <2>5. CASE PlanMerge
    <3>1. PICK r \in LocalRows : plan' = [k |-> "merge", l |-> r, moving |-> LiveIn(db, r)]
      BY <2>5 DEF PlanMerge
    <3> QED
      BY <3>1 DEF PlanOK, LiveIn
  <2> QED
    BY <2>1, <2>2, <2>3, <2>4, <2>5
<1>2. UNCHANGED <<db, graph, net, pass>>
  BY DEF PlanCreate, PlanRename, PlanFolder, PlanDelete, PlanMerge
<1>3. CacheOK(db') /\ GraphType' /\ NetOK' /\ PassOK'
  BY <1>2 DEF ListsInv, GraphType, NetOK, PassOK
<1> QED
  BY <1>1, <1>3 DEF ListsInv

\* What each step but the plans' has to show.
LEMMA CacheSteps ==
  ASSUME ListsInv, CacheOK(db'), GraphType', NetOK', PassOK', plan' = plan \/ plan' = [k |-> Idle]
  PROVE  ListsInv'
<1>1. PlanOK'
  BY DEF ListsInv, PlanOK
<1> QED
  BY <1>1 DEF ListsInv

\* Queueing a planned command keeps the invariant.
LEMMA QueueKeeps == ASSUME ListsInv, Queue PROVE ListsInv'
<1> DEFINE cmd == NewCmd(db)
           fresh == FreeRow(db)
           kept(d) == CacheOK(d) /\ StillSent(db, d)
<1>1. CacheOK(db) /\ db \in CacheType /\ cmd \in Nat
  BY NewCmdType DEF ListsInv, CacheOK
<1>2. kept(db)
  BY <1>1 DEF StillSent
<1> HIDE DEF cmd
<1>3. kept(db')
  <2>1. CASE plan \in [k : {"create"}, l : {0}, name : Names, filed : BOOLEAN]
    <3>1. CASE FreeRows(db) = {}
      BY <1>2, <2>1, <3>1 DEF Queue
    <3>2. CASE FreeRows(db) # {}
      <4>1. fresh \in LocalRows /\ db.rows[fresh].st = "none"
        BY <3>2 DEF FreeRow, FreeRows
      <4> HIDE DEF fresh
      <4> DEFINE made == EnqueueCreate(db, fresh, plan.name, cmd)
      <4>2. CacheOK(made) /\ StillSent(db, made) /\ made.rows[fresh].st = "live"
        BY <1>1, <2>1, <4>1, CreateKeepsCache
      <4>3. db' = IF plan.filed THEN EnqueueFolder(made, fresh, TRUE, cmd, 0) ELSE made
        BY <2>1, <3>2 DEF Queue, cmd, fresh
      <4> HIDE DEF made
      <4>4. CacheOK(EnqueueFolder(made, fresh, TRUE, cmd, 0)) /\ StillSent(made, EnqueueFolder(made, fresh, TRUE, cmd, 0))
        BY <1>1, <4>1, <4>2, FolderKeepsCache
      <4>5. StillSent(db, EnqueueFolder(made, fresh, TRUE, cmd, 0))
        BY <4>2, <4>4, SentOn
      <4> QED
        BY <4>2, <4>3, <4>4, <4>5
    <3> QED
      BY <3>1, <3>2
  <2>2. CASE plan.k # "create" /\ plan.l \in LocalRows /\ db.rows[plan.l].st = "none"
    BY <1>2, <2>2 DEF Queue
  <2>3. CASE plan \in [k : {"rename"}, l : LocalRows, name : Names] /\ db.rows[plan.l].st # "none"
    <3>1. db' = EnqueueRename(db, plan.l, plan.name, cmd, 0)
      BY <2>3 DEF Queue, cmd
    <3>2. plan.l \in LocalRows /\ plan.name \in Names
      BY <2>3
    <3> QED
      BY <1>1, <2>3, <3>1, <3>2, RenameKeepsCache
  <2>4. CASE plan \in [k : {"folder"}, l : LocalRows, filed : BOOLEAN] /\ db.rows[plan.l].st # "none"
    <3>1. db' = IF Live(db, plan.l) THEN EnqueueFolder(db, plan.l, plan.filed, cmd, 0) ELSE db
      BY <2>4 DEF Queue, cmd
    <3>2. plan.l \in LocalRows /\ plan.filed \in BOOLEAN
      BY <2>4
    <3>3. kept(EnqueueFolder(db, plan.l, plan.filed, cmd, 0))
      BY <1>1, <2>4, <3>2, FolderKeepsCache
    <3> QED
      BY <1>2, <3>1, <3>3
  <2>5. CASE plan \in [k : {"delete"}, l : LocalRows, counted : Nat] /\ db.rows[plan.l].st # "none"
    <3>1. db' = EnqueueDelete(db, plan.l, plan.counted, cmd, 0)
      BY <2>5 DEF Queue, cmd
    <3>2. plan.l \in LocalRows /\ plan.counted \in Nat
      BY <2>5
    <3> QED
      BY <1>1, <2>5, <3>1, <3>2, DeleteKeepsCache
  <2>6. CASE plan \in [k : {"merge"}, l : LocalRows, moving : SUBSET Tasks] /\ db.rows[plan.l].st # "none"
    <3>1. db' = IF \A t \in plan.moving : t \in LiveIn(db, plan.l) THEN QueueMerge(db, plan, cmd) ELSE db
      BY <2>6 DEF Queue, cmd
    <3>2. plan.l \in LocalRows /\ plan.moving \in SUBSET Tasks
      BY <2>6
    <3>3. kept(QueueMerge(db, plan, cmd))
      BY <1>1, <2>6, <3>2, MergeKeepsCache
    <3> QED
      BY <1>2, <3>1, <3>3
  <2>7. plan.k # Idle
    BY DEF Queue
  <2> HIDE DEF kept
  <2> QED
    BY <2>1, <2>2, <2>3, <2>4, <2>5, <2>6, <2>7, IdlePlan DEF ListsInv
<1>4. UNCHANGED <<graph, net, pass>> /\ plan' = [k |-> Idle]
  BY DEF Queue
<1>5. NetOK'
  BY <1>3, <1>4, NetKept DEF ListsInv
<1> QED
  BY <1>3, <1>4, <1>5, CacheSteps DEF ListsInv, GraphType, PassOK

\* Undo keeps the invariant.
LEMMA UndoKeeps == ASSUME ListsInv, Undo PROVE ListsInv'
<1> DEFINE cmd == NewCmd(db)
           kept(d) == CacheOK(d) /\ StillSent(db, d)
<1>1. CacheOK(db) /\ db \in CacheType /\ cmd \in Nat /\ db.ops \in Seq(OpType)
  BY NewCmdType DEF ListsInv, CacheOK, CacheType
<1>2. PICK i \in DOMAIN db.ops : UndoOf(i)
  BY DEF Undo
<1> DEFINE op == db.ops[i]
<1>3. /\ op.l \in LocalRows /\ op.wasFiled \in BOOLEAN /\ op.wasName \in Names /\ op.cmd \in Nat
      /\ db.rows[op.l].st # "none"
  <2>1. op \in OpType
    BY <1>1
  <2> QED
    BY <1>2, <2>1 DEF OpType, UndoOf
<1>4. \/ db' = EnqueueFolder(db, op.l, op.wasFiled, cmd, op.cmd)
      \/ db' = EnqueueDelete(db, op.l, 0, cmd, op.cmd)
      \/ db' = EnqueueRename(db, op.l, op.wasName, cmd, op.cmd)
      \/ db' = EnqueueRecreate(db, op.l, cmd, op.cmd)
      \/ db' = EnqueueFolder(EnqueueRecreate(db, op.l, cmd, op.cmd), op.l, TRUE, cmd, op.cmd)
  BY <1>2 DEF UndoOf
<1> HIDE DEF cmd, op
<1>5. kept(EnqueueFolder(db, op.l, op.wasFiled, cmd, op.cmd))
  BY <1>1, <1>3, FolderKeepsCache
<1>6. kept(EnqueueDelete(db, op.l, 0, cmd, op.cmd))
  BY <1>1, <1>3, DeleteKeepsCache
<1>7. kept(EnqueueRename(db, op.l, op.wasName, cmd, op.cmd))
  BY <1>1, <1>3, RenameKeepsCache
<1> DEFINE made == EnqueueRecreate(db, op.l, cmd, op.cmd)
           filed == EnqueueFolder(made, op.l, TRUE, cmd, op.cmd)
<1>8. CacheOK(made) /\ StillSent(db, made) /\ made.rows[op.l].st = "live"
  BY <1>1, <1>3, RecreateKeepsCache
<1>9. CacheOK(filed) /\ StillSent(made, filed)
  <2> HIDE DEF made
  <2> QED
    BY <1>1, <1>3, <1>8, FolderKeepsCache
<1>10. kept(made) /\ kept(filed)
  <2> HIDE DEF made, filed
  <2> QED
    BY <1>8, <1>9, SentOn
<1>11. kept(db')
  <2> HIDE DEF kept
  <2> QED
    BY <1>4, <1>5, <1>6, <1>7, <1>10
<1>12. UNCHANGED <<graph, net, pass, plan>>
  BY DEF Undo
<1>13. NetOK'
  BY <1>11, <1>12, NetKept DEF ListsInv
<1> QED
  BY <1>11, <1>12, <1>13, CacheSteps DEF ListsInv, GraphType, PassOK

\* Discarding a write keeps the invariant.
LEMMA DiscardKeeps == ASSUME ListsInv, Discard PROVE ListsInv'
<1>1. PICK i \in DOMAIN db.ops : /\ db.ops[i].k \notin {"move", "folder"} /\ db.ops[i].st \in {"pending", "unknown"}
                                 /\ db' = Dropped(db, i)
  BY DEF Discard
<1>2. CacheOK(db') /\ StillSent(db, db')
  BY <1>1, DroppedKeepsCache DEF ListsInv
<1>3. UNCHANGED <<graph, net, pass, plan>>
  BY DEF Discard
<1>4. NetOK'
  BY <1>2, <1>3, NetKept DEF ListsInv
<1> QED
  BY <1>2, <1>3, <1>4, CacheSteps DEF ListsInv, GraphType, PassOK

\* The id on an operation's row is one of Graph's, or none.
LEMMA GidType == ASSUME ListsInv, NEW i \in DOMAIN db.ops PROVE db.rows[db.ops[i].l].gid \in 0 .. 4
<1>1. db.ops \in Seq(OpType) /\ db.rows \in [LocalRows -> RowType]
  BY DEF ListsInv, CacheOK, CacheType
<1>2. db.ops[i].l \in LocalRows
  <2>1. db.ops[i] \in OpType
    BY <1>1
  <2> QED
    BY <2>1 DEF OpType
<1>3. db.rows[db.ops[i].l] \in RowType
  BY <1>1, <1>2
<1> QED
  BY <1>3 DEF RowType

\* A claimed operation has nothing before it on its list: what it waited for is answered, and it waited for the last.
LEMMA ClaimKeeps == ASSUME ListsInv, Claim PROVE ListsInv'
<1>1. PICK i \in DOMAIN db.ops :
        /\ ReadyOp(i)
        /\ db' = [db EXCEPT !.ops[i].st = "inflight"]
        /\ net' = [st |-> IF db.ops[i].k = "mdelete" THEN "check" ELSE "send",
                   i |-> i, gid |-> db.rows[db.ops[i].l].gid]
  BY DEF Claim
<1>2. CacheOK(db) /\ db \in CacheType /\ QueueOK(db.rows, db.ops, db.parted) /\ db.ops \in Seq(OpType)
  BY DEF ListsInv, CacheOK, CacheType
<1>3. Unresolved(db.ops[i])
  BY <1>1 DEF ReadyOp, Unresolved
<1>4. ASSUME NEW j \in DOMAIN db.ops, j < i, SameList(db.ops, i, j), db.ops[i].l \notin db.parted, Unresolved(db.ops[j])
      PROVE  FALSE
  <2>1. j <= db.ops[i].dep /\ Unresolved(db.ops[db.ops[i].dep])
    BY <1>2, <1>3, <1>4 DEF QueueOK, Chained
  <2>2. db.ops[i].dep # 0
    <3>1. db.ops[i] \in OpType
      BY <1>2
    <3>2. db.ops[i].dep \in Nat
      BY <3>1 DEF OpType
    <3>3. j \in Nat /\ j > 0
      BY <1>2
    <3> QED
      BY <2>1, <3>2, <3>3
  <2> QED
    BY <1>1, <2>1, <2>2 DEF ReadyOp, Unresolved
<1>5. CacheOK(db')
  BY <1>1, <1>2, <1>3, <1>4, StatusKeepsCache
<1>6. NetOK'
  <2>1. db'.ops = [db.ops EXCEPT ![i] = Answered(db.ops[i], "inflight")]
    BY <1>1, <1>2, AnsweredOps DEF Answers
  <2>2. db.ops[i] \in OpType
    BY <1>2
  <2>3. Answered(db.ops[i], "inflight").st = "inflight"
    BY <2>2, AnsweredType
  <2>4. i \in DOMAIN db'.ops /\ db'.ops[i].st = "inflight"
    BY <1>2, <2>1, <2>3
  <2>5. db.rows[db.ops[i].l].gid \in 0 .. 4
    BY GidType
  <2> QED
    BY <1>1, <2>4, <2>5 DEF NetOK
<1>7. UNCHANGED <<graph, pass, plan>>
  BY DEF Claim
<1> QED
  BY <1>5, <1>6, <1>7, CacheSteps DEF ListsInv, GraphType, PassOK

\* The end of what the worker has in hand.
LEMMA IdleNet == ASSUME net' = [st |-> Idle] PROVE NetOK'
BY DEF NetOK

\* Looking whether a list is empty before its delete keeps the invariant.
LEMMA CheckKeeps == ASSUME ListsInv, CheckEmptied PROVE ListsInv'
<1>1. UNCHANGED <<graph, pass, plan>> /\ net.st = "check"
  BY DEF CheckEmptied
<1>2. net.i \in DOMAIN db.ops /\ db.ops[net.i].st = "inflight" /\ net.gid \in 0 .. 4
  BY <1>1 DEF ListsInv, NetOK, Idle
<1>3. CASE net' = [net EXCEPT !.st = "send"] /\ UNCHANGED db
  <2>1. net'.i = net.i /\ net'.gid = net.gid /\ net'.st = "send"
    BY <1>3, <1>1 DEF NetOK
  <2>2. NetOK'
    BY <1>2, <1>3, <2>1 DEF NetOK
  <2> QED
    BY <1>1, <1>3, <2>2, CacheSteps DEF ListsInv, GraphType, PassOK
<1>4. CASE net' = [st |-> Idle] /\ db' = Fail(db, net.i, "failed")
  <2>1. CacheOK(Fail(db, net.i, "failed"))
    BY <1>2, FailKeepsCache DEF ListsInv, Unresolved
  <2>2. NetOK'
    BY <1>4, IdleNet
  <2> QED
    BY <1>1, <1>4, <2>1, <2>2, CacheSteps DEF ListsInv, GraphType, PassOK
<1> QED
  BY <1>3, <1>4 DEF CheckEmptied

\* A change to what the next read has to bring leaves the queue alone.
LEMMA RereadKeepsCache ==
  ASSUME NEW c, CacheOK(c), NEW b \in BOOLEAN
  PROVE  CacheOK([c EXCEPT !.reread = b]) /\ StillSent(c, [c EXCEPT !.reread = b])
<1> DEFINE d == [c EXCEPT !.reread = b]
<1>1. d \in CacheType /\ d.rows = c.rows /\ d.ops = c.ops /\ d.parted = c.parted
  BY DEF CacheOK, CacheType
<1> HIDE DEF d
<1>2. CacheOK(d) /\ StillSent(c, d)
  BY <1>1 DEF CacheOK, StillSent
<1> QED
  BY <1>2 DEF d

\* A new list gets an id Graph has not used.
LEMMA FreshGidType ==
  ASSUME \E g \in Gids : graph.lists[g].st = "free"
  PROVE  FreshGid \in Gids
<1> DEFINE S == {g \in Gids : graph.lists[g].st = "free"}
<1>1. S \in SUBSET (1 .. 4) /\ S # {}
  BY DEF Gids
<1>2. PICK g \in S : \A h \in S : g <= h
  <2> HIDE DEF S
  <2> QED
    BY <1>1, FirstPosition
<1>3. g \in Gids /\ graph.lists[g].st = "free" /\ \A h \in 1 .. (g - 1) : graph.lists[h].st # "free"
  BY <1>2 DEF Gids
<1> QED
  BY <1>3 DEF FreshGid

\* Sending a write keeps the invariant.
LEMMA SendKeeps == ASSUME ListsInv, SendWrite PROVE ListsInv'
<1>1. net.st = "send" /\ plan' = plan
  BY DEF SendWrite
<1>2. net.i \in DOMAIN db.ops /\ db.ops[net.i].st = "inflight" /\ net.gid \in 0 .. 4
  BY <1>1 DEF ListsInv, NetOK, Idle
<1>3. CacheOK(db) /\ db \in CacheType /\ db.ops \in Seq(OpType) /\ graph \in [lists : GraphLists, tasks : [Tasks -> 0 .. 4]]
  BY DEF ListsInv, CacheOK, CacheType, GraphType
<1>4. /\ db.ops[net.i].name \in Names /\ db.ops[net.i].filed \in BOOLEAN /\ db.ops[net.i].t \in 0 .. 2
  <2>1. db.ops[net.i] \in OpType
    BY <1>2, <1>3
  <2> QED
    BY <2>1 DEF OpType
<1>5. ASSUME NEW ans, NEW to \in 0 .. 4, Answer(ans, to), StillSent(db, db') PROVE NetOK'
  <2>1. net' = [st |-> "sent", i |-> net.i, gid |-> net.gid, ans |-> ans, to |-> to]
    BY <1>5 DEF Answer
  <2>2. net.i \in DOMAIN db'.ops /\ db'.ops[net.i].st = "inflight"
    BY <1>2, <1>5 DEF StillSent
  <2> QED
    BY <1>2, <2>1, <2>2 DEF NetOK
<1>6. \A l \in [Gids -> [st : {"free", "here", "gone"}, name : Names, filed : BOOLEAN]] : l \in GraphLists
  BY DEF GraphLists
<1>7. CASE SendCreate \/ SendChange \/ SendDelete
  <2>1. db' = [db EXCEPT !.reread = TRUE] /\ ListsMoved
    BY <1>7 DEF SendCreate, SendChange, SendDelete
  <2>2. CacheOK(db') /\ StillSent(db, db')
    BY <1>3, <2>1, RereadKeepsCache
  <2>3. PassOK'
    BY <2>1, MovedKeepsPass DEF ListsInv
  <2>4. CASE SendCreate
    <3>1. FreshGid \in Gids /\ graph' = [graph EXCEPT !.lists[FreshGid] =
                                           [st |-> "here", name |-> db.ops[net.i].name, filed |-> FALSE]]
      BY <2>4, FreshGidType DEF SendCreate
    <3>2. GraphType'
      BY <1>3, <1>4, <3>1 DEF GraphType, GraphLists
    <3>3. FreshGid \in 0 .. 4
      BY <3>1 DEF Gids
    <3>4. NetOK'
      BY <1>5, <2>2, <2>4, <3>3 DEF SendCreate
    <3> QED
      BY <1>1, <2>2, <2>3, <3>2, <3>4, CacheSteps
  <2>5. CASE SendChange
    <3>1. \/ graph' = [graph EXCEPT !.lists[net.gid].name = db.ops[net.i].name]
          \/ graph' = [graph EXCEPT !.lists[net.gid].filed = db.ops[net.i].filed]
      BY <2>5 DEF SendChange
    <3>2. GraphType'
      <4>1. net.gid \in Gids
        BY <1>2, <2>5 DEF SendChange, Here, Gids
      <4>2. graph.lists[net.gid] \in [st : {"free", "here", "gone"}, name : Names, filed : BOOLEAN]
        BY <1>3, <4>1 DEF GraphLists
      <4>3. /\ [graph.lists[net.gid] EXCEPT !.name = db.ops[net.i].name]
                 \in [st : {"free", "here", "gone"}, name : Names, filed : BOOLEAN]
            /\ [graph.lists[net.gid] EXCEPT !.filed = db.ops[net.i].filed]
                 \in [st : {"free", "here", "gone"}, name : Names, filed : BOOLEAN]
        BY <1>4, <4>2
      <4> QED
        BY <1>3, <3>1, <4>1, <4>3 DEF GraphType, GraphLists
    <3>3. NetOK'
      BY <1>2, <1>5, <2>2, <2>5 DEF SendChange
    <3> QED
      BY <1>1, <2>2, <2>3, <3>2, <3>3, CacheSteps
  <2>6. CASE SendDelete
    <3> DEFINE holds == {t \in Tasks : graph.tasks[t] = net.gid}
               lists2 == [graph.lists EXCEPT ![net.gid].st = "gone"]
               tasks2 == [t \in Tasks |-> IF t \in holds THEN 0 ELSE graph.tasks[t]]
    <3>1. graph' = [lists |-> lists2, tasks |-> tasks2] /\ net.gid # 0
      BY <2>6 DEF SendDelete
    <3>2. lists2 \in GraphLists
      <4>1. net.gid \in Gids
        BY <1>2, <3>1 DEF Gids
      <4>2. graph.lists \in GraphLists
        BY <1>3
      <4>3. graph.lists[net.gid] \in [st : {"free", "here", "gone"}, name : Names, filed : BOOLEAN]
        BY <4>1, <4>2 DEF GraphLists
      <4>4. [graph.lists[net.gid] EXCEPT !.st = "gone"] \in [st : {"free", "here", "gone"}, name : Names, filed : BOOLEAN]
        BY <4>3
      <4> QED
        BY <4>1, <4>2, <4>4 DEF GraphLists
    <3>3. tasks2 \in [Tasks -> 0 .. 4]
      BY <1>3
    <3> HIDE DEF lists2, tasks2
    <3>4. GraphType'
      BY <3>1, <3>2, <3>3 DEF GraphType
    <3>5. NetOK'
      BY <1>2, <1>5, <2>2, <2>6 DEF SendDelete
    <3> QED
      BY <1>1, <2>2, <2>3, <3>4, <3>5, CacheSteps
  <2> QED
    BY <1>7, <2>4, <2>5, <2>6
<1>8. CASE SendMove
  <2> DEFINE t == db.ops[net.i].t
             from == graph.tasks[t]
             link2 == [db.link EXCEPT ![from] = @ \union {t}]
             link3 == [link2 EXCEPT ![BuiltIn] = @ \union {t}]
  <2>1. graph' = [graph EXCEPT !.tasks[t] = BuiltIn] /\ db' = [db EXCEPT !.link = link3] /\ Answer("ok", BuiltIn) /\ pass' = pass
    BY <1>8 DEF SendMove
  <2>2. link2 \in [Gids -> SUBSET (0 .. 2)]
    <3>1. db.link \in [Gids -> SUBSET (0 .. 2)]
      BY <1>3 DEF CacheType
    <3> QED
      BY <1>4, <3>1
  <2> HIDE DEF link2
  <2>3. link3 \in [Gids -> SUBSET (0 .. 2)]
    BY <1>4, <2>2
  <2> HIDE DEF link3
  <2>4. db' \in CacheType /\ db'.rows = db.rows /\ db'.ops = db.ops /\ db'.parted = db.parted
    BY <1>3, <2>1, <2>3 DEF CacheType
  <2>5. CacheOK(db') /\ StillSent(db, db')
    BY <1>3, <2>4 DEF CacheOK, StillSent
  <2>6. GraphType'
    <3>1. graph' = [graph EXCEPT !.tasks = [graph.tasks EXCEPT ![t] = BuiltIn]]
      BY <1>3, <2>1
    <3>2. [graph.tasks EXCEPT ![t] = BuiltIn] \in [Tasks -> 0 .. 4]
      <4>1. graph.tasks \in [Tasks -> 0 .. 4] /\ BuiltIn \in 0 .. 4
        BY <1>3 DEF BuiltIn
      <4> QED
        BY <4>1
    <3> QED
      BY <1>3, <3>1, <3>2 DEF GraphType
  <2>7. NetOK'
    BY <1>5, <2>1, <2>5 DEF BuiltIn
  <2> QED
    BY <1>1, <2>1, <2>5, <2>6, <2>7, CacheSteps DEF ListsInv, PassOK
<1> QED
  BY <1>7, <1>8 DEF SendWrite

\* A refusal keeps the invariant.
LEMMA RefuseKeeps == ASSUME ListsInv, Refuse PROVE ListsInv'
<1>1. net.st = "send" /\ UNCHANGED <<db, graph, pass, plan>>
      /\ net' = [st |-> "sent", i |-> net.i, gid |-> net.gid, ans |-> "no", to |-> 0]
  BY DEF Refuse, Answer
<1>2. NetOK'
  BY <1>1 DEF ListsInv, NetOK, Idle
<1> QED
  BY <1>1, <1>2, CacheSteps DEF ListsInv, GraphType, PassOK

\* A lost answer keeps the invariant.
LEMMA LostKeeps == ASSUME ListsInv, WriteLost PROVE ListsInv'
<1> DEFINE st == IF db.ops[net.i].k \in {"create", "recreate"} THEN "unknown" ELSE "pending"
<1>1. net.st = "sent" /\ UNCHANGED <<graph, pass, plan>> /\ net' = [st |-> Idle] /\ db' = [db EXCEPT !.ops[net.i].st = st]
  BY DEF WriteLost
<1>2. net.i \in DOMAIN db.ops /\ Unresolved(db.ops[net.i])
  BY <1>1 DEF ListsInv, NetOK, Idle, Unresolved
<1>3. CacheOK(db')
  BY <1>1, <1>2, StatusKeepsCache DEF ListsInv
<1>4. NetOK'
  BY <1>1, IdleNet
<1> QED
  BY <1>1, <1>3, <1>4, CacheSteps DEF ListsInv, GraphType, PassOK

\* Recording an answer keeps the invariant.
LEMMA RecordKeeps == ASSUME ListsInv, Record PROVE ListsInv'
<1> DEFINE i == net.i
           op == db.ops[i]
<1>1. net.st = "sent" /\ UNCHANGED <<graph, pass, plan>> /\ net' = [st |-> Idle]
  BY DEF Record
<1>2. i \in DOMAIN db.ops /\ op.st = "inflight" /\ Unresolved(op) /\ net.to \in 0 .. 4
  BY <1>1 DEF ListsInv, NetOK, Idle, Unresolved
<1>3. CacheOK(db)
  BY DEF ListsInv
<1>4. op.name \in Names /\ op.k \in {"create", "recreate", "rename", "folder", "delete", "mdelete", "move"}
  <2>1. db.ops \in Seq(OpType)
    BY <1>3 DEF CacheOK, CacheType
  <2>2. op \in OpType
    BY <1>2, <2>1
  <2> QED
    BY <2>2 DEF OpType
<1>5. CacheOK(db')
  <2>1. CASE net.ans = "no"
    <3>1. db' = Fail(db, i, "failed")
      BY <2>1 DEF Record
    <3> QED
      BY <1>2, <1>3, <3>1, FailKeepsCache
  <2>2. CASE net.ans # "no" /\ op.k \in {"create", "recreate", "rename"}
    <3>1. db' = RecordListWritten(db, i, net.to, op.name)
      BY <2>2 DEF Record
    <3> QED
      BY <1>2, <1>3, <1>4, <2>2, <3>1, RecordWrittenKeepsCache
  <2>3. CASE net.ans # "no" /\ op.k \in {"delete", "mdelete"}
    <3>1. db' = RecordListDeleted(db, i)
      BY <2>3 DEF Record
    <3> QED
      BY <1>2, <1>3, <2>3, <3>1, RecordDeletedKeepsCache
  <2>4. CASE net.ans # "no" /\ op.k = "folder"
    <3>1. db' = RecordListExtension(db, i)
      BY <2>4 DEF Record
    <3> QED
      BY <1>2, <1>3, <2>4, <3>1, RecordExtensionKeepsCache
  <2>5. CASE net.ans # "no" /\ op.k = "move"
    <3>1. db' = [db EXCEPT !.ops[i].st = "done"]
      BY <2>5 DEF Record
    <3> QED
      BY <1>2, <1>3, <2>5, <3>1, StatusKeepsCache
  <2> QED
    BY <1>4, <2>1, <2>2, <2>3, <2>4, <2>5
<1>6. NetOK'
  BY <1>1, IdleNet
<1> QED
  BY <1>1, <1>5, <1>6, CacheSteps DEF ListsInv, GraphType, PassOK

\* A pass over the lists keeps the invariant, one step at a time.
LEMMA PassKeeps == ASSUME ListsInv, BeginLists \/ FetchLists \/ ApplyLists PROVE ListsInv'
<1>1. CacheOK(db) /\ db \in CacheType
  BY DEF ListsInv, CacheOK
<1>2. CASE BeginLists
  <2>1. db' = [db EXCEPT !.written = {}] /\ pass' = [st |-> "began"] /\ UNCHANGED <<graph, net, plan>>
    BY <1>2 DEF BeginLists
  <2>2. db' \in CacheType /\ db'.rows = db.rows /\ db'.ops = db.ops /\ db'.parted = db.parted
    BY <1>1, <2>1 DEF CacheType
  <2>3. CacheOK(db') /\ StillSent(db, db')
    BY <1>1, <2>2 DEF CacheOK, StillSent
  <2>4. NetOK' /\ PassOK'
    BY <2>1, <2>3, NetKept DEF ListsInv, PassOK
  <2> QED
    BY <2>1, <2>3, <2>4, CacheSteps DEF ListsInv, GraphType
<1>3. CASE FetchLists
  <2>1. pass' = [st |-> "fetched", seen |-> graph.lists, moved |-> FALSE] /\ UNCHANGED <<db, graph, net, plan>>
    BY <1>3 DEF FetchLists
  <2>2. PassOK'
    BY <2>1 DEF PassOK, ListsInv, GraphType
  <2>3. NetOK'
    BY <2>1 DEF ListsInv, NetOK
  <2> QED
    BY <1>1, <2>1, <2>2, <2>3, CacheSteps DEF ListsInv, GraphType
<1>4. CASE ApplyLists
  <2> DEFINE applied == ApplyAll(db, pass.seen)
             dropped == DropGone(applied, pass.seen)
  <2>1. /\ pass.st = "fetched" /\ pass' = [st |-> Idle] /\ UNCHANGED <<graph, net, plan>>
        /\ Cardinality(NotCached(db, pass.seen, Gids)) <= Cardinality(FreeRows(db))
        /\ db' = [dropped EXCEPT !.reread = pass.moved]
    BY <1>4 DEF ApplyLists
  <2>2. pass.seen \in GraphLists /\ pass.moved \in BOOLEAN
    BY <2>1 DEF ListsInv, PassOK, Idle
  <2>3. CacheOK(applied) /\ StillSent(db, applied)
    BY <1>1, <2>1, <2>2, ApplyAllKeepsCache
  <2> HIDE DEF applied
  <2>4. CacheOK(dropped) /\ StillSent(applied, dropped)
    BY <2>3, DropGoneKeepsCache
  <2> HIDE DEF dropped
  <2>5. CacheOK(db') /\ StillSent(dropped, db')
    BY <2>1, <2>2, <2>4, RereadKeepsCache
  <2>6. StillSent(db, db')
    <3>1. StillSent(db, dropped)
      BY <2>3, <2>4, SentOn
    <3> QED
      BY <2>5, <3>1, SentOn
  <2>7. NetOK' /\ PassOK'
    BY <2>1, <2>6, NetKept DEF ListsInv, PassOK
  <2> QED
    BY <2>1, <2>5, <2>7, CacheSteps DEF ListsInv, GraphType
<1> QED
  BY <1>2, <1>3, <1>4

\* A pass over the tasks keeps the invariant.
LEMMA SyncTasksKeeps == ASSUME ListsInv, SyncTasks PROVE ListsInv'
<1> DEFINE tasks2(r, g) ==
      [t \in Tasks |-> IF t \notin db.link[g] \/ TaskBusy(db, t) THEN db.tasks[t]
                       ELSE IF graph.tasks[t] = g THEN [list |-> r, live |-> TRUE]
                       ELSE IF db.tasks[t].list = r THEN [db.tasks[t] EXCEPT !.live = FALSE] ELSE db.tasks[t]]
<1>1. PICK r \in LocalRows : /\ Here(db.rows[r].gid)
                             /\ db' = [db EXCEPT !.link[db.rows[r].gid] = {}, !.ready = @ \union {db.rows[r].gid},
                                                 !.tasks = tasks2(r, db.rows[r].gid)]
  BY DEF SyncTasks
<1> DEFINE g == db.rows[r].gid
<1>2. CacheOK(db) /\ db \in CacheType
  BY DEF ListsInv, CacheOK
<1>3. g \in Gids
  <2>1. db.rows[r] \in RowType
    BY <1>2 DEF CacheType
  <2>2. db.rows[r].gid \in 0 .. 4
    BY <2>1 DEF RowType
  <2> QED
    BY <1>1, <2>2 DEF Here, Gids
<1>4. tasks2(r, g) \in [Tasks -> [list : 0 .. 4, live : BOOLEAN]]
  <2>1. \A t \in Tasks : db.tasks[t] \in [list : 0 .. 4, live : BOOLEAN]
    BY <1>2 DEF CacheType
  <2>2. \A t \in Tasks : [db.tasks[t] EXCEPT !.live = FALSE] \in [list : 0 .. 4, live : BOOLEAN]
    BY <2>1
  <2>3. [list |-> r, live |-> TRUE] \in [list : 0 .. 4, live : BOOLEAN]
    BY DEF LocalRows
  <2> QED
    BY <2>1, <2>2, <2>3
<1>5. [db.link EXCEPT ![g] = {}] \in [Gids -> SUBSET (0 .. 2)]
  BY <1>2 DEF CacheType
<1>6. db' = [db EXCEPT !.link = [db.link EXCEPT ![g] = {}], !.ready = db.ready \union {g}, !.tasks = tasks2(r, g)]
  BY <1>1
<1> HIDE DEF tasks2, g
<1>7. db' \in CacheType /\ db'.rows = db.rows /\ db'.ops = db.ops /\ db'.parted = db.parted
  BY <1>2, <1>3, <1>4, <1>5, <1>6 DEF CacheType
<1>8. CacheOK(db') /\ StillSent(db, db')
  BY <1>2, <1>7 DEF CacheOK, StillSent
<1>9. UNCHANGED <<graph, net, pass, plan>>
  BY DEF SyncTasks
<1>10. NetOK'
  BY <1>8, <1>9, NetKept DEF ListsInv
<1> QED
  BY <1>8, <1>9, <1>10, CacheSteps DEF ListsInv, GraphType, PassOK

\* What the phone does keeps the invariant.
LEMMA PhoneKeeps == ASSUME ListsInv, PhoneRename \/ PhoneDelete \/ PhoneAdd PROVE ListsInv'
<1>1. CacheOK(db) /\ db \in CacheType /\ graph \in [lists : GraphLists, tasks : [Tasks -> 0 .. 4]]
      /\ graph.lists \in GraphLists /\ graph.tasks \in [Tasks -> 0 .. 4]
  BY DEF ListsInv, CacheOK, GraphType
<1>2. \A g \in Gids : graph.lists[g] \in [st : {"free", "here", "gone"}, name : Names, filed : BOOLEAN]
  BY <1>1 DEF GraphLists
<1>3. CASE PhoneRename \/ PhoneDelete
  <2>1. db' = [db EXCEPT !.reread = TRUE] /\ ListsMoved /\ UNCHANGED <<net, plan>>
    BY <1>3 DEF PhoneRename, PhoneDelete
  <2>2. CacheOK(db') /\ StillSent(db, db')
    BY <1>1, <2>1, RereadKeepsCache
  <2>3. PassOK' /\ NetOK'
    BY <2>1, <2>2, NetKept, MovedKeepsPass DEF ListsInv
  <2>4. GraphType'
    <3>1. CASE PhoneRename
      <4>1. PICK g \in Gids, name \in Names : graph' = [graph EXCEPT !.lists[g].name = name]
        BY <3>1 DEF PhoneRename
      <4> DEFINE lists2 == [graph.lists EXCEPT ![g] = [graph.lists[g] EXCEPT !.name = name]]
      <4>2. [graph.lists[g] EXCEPT !.name = name] \in [st : {"free", "here", "gone"}, name : Names, filed : BOOLEAN]
        BY <1>2
      <4>3. lists2 \in GraphLists
        BY <1>1, <4>2 DEF GraphLists
      <4>4. graph' = [graph EXCEPT !.lists = lists2]
        BY <1>1, <4>1
      <4> HIDE DEF lists2
      <4> QED
        BY <1>1, <4>3, <4>4 DEF GraphType
    <3>2. CASE PhoneDelete
      <4> DEFINE tasks2(g) == [t \in Tasks |-> IF graph.tasks[t] = g THEN 0 ELSE graph.tasks[t]]
      <4>1. PICK g \in Gids : graph' = [lists |-> [graph.lists EXCEPT ![g].st = "gone"], tasks |-> tasks2(g)]
        BY <3>2 DEF PhoneDelete
      <4> DEFINE lists2 == [graph.lists EXCEPT ![g].st = "gone"]
      <4>2. [graph.lists[g] EXCEPT !.st = "gone"] \in [st : {"free", "here", "gone"}, name : Names, filed : BOOLEAN]
        BY <1>2
      <4>3. lists2 \in GraphLists
        BY <1>1, <4>2 DEF GraphLists
      <4>4. tasks2(g) \in [Tasks -> 0 .. 4]
        BY <1>1
      <4> HIDE DEF lists2, tasks2
      <4> QED
        BY <4>1, <4>3, <4>4 DEF GraphType, lists2
    <3> QED
      BY <1>3, <3>1, <3>2
  <2> QED
    BY <2>1, <2>2, <2>3, <2>4, CacheSteps
<1>4. CASE PhoneAdd
  <2>1. graph' = [graph EXCEPT !.tasks[2] = 1] /\ db' = [db EXCEPT !.link[1] = @ \union {2}] /\ UNCHANGED <<net, pass, plan>>
    BY <1>4 DEF PhoneAdd
  <2>2. [db.link EXCEPT ![1] = @ \union {2}] \in [Gids -> SUBSET (0 .. 2)]
    <3>1. db.link \in [Gids -> SUBSET (0 .. 2)]
      BY <1>1 DEF CacheType
    <3>2. db.link[1] \in SUBSET (0 .. 2)
      BY <3>1 DEF Gids
    <3>3. db.link[1] \union {2} \in SUBSET (0 .. 2)
      BY <3>2
    <3> QED
      BY <3>1, <3>3 DEF Gids
  <2> DEFINE link2 == [db.link EXCEPT ![1] = @ \union {2}]
  <2>3. db' = [db EXCEPT !.link = link2]
    BY <1>1, <2>1 DEF CacheType
  <2> HIDE DEF link2
  <2>4. db' \in CacheType /\ db'.rows = db.rows /\ db'.ops = db.ops /\ db'.parted = db.parted
    BY <1>1, <2>2, <2>3 DEF CacheType, link2
  <2>5. CacheOK(db') /\ StillSent(db, db')
    BY <1>1, <2>4 DEF CacheOK, StillSent
  <2>6. GraphType'
    <3>0. graph.tasks \in [Tasks -> 0 .. 4] /\ 1 \in 0 .. 4
      BY <1>1 DEF GraphType
    <3>1. [graph.tasks EXCEPT ![2] = 1] \in [Tasks -> 0 .. 4]
      BY <3>0
    <3>2. graph' = [graph EXCEPT !.tasks = [graph.tasks EXCEPT ![2] = 1]]
      BY <1>1, <2>1
    <3> QED
      BY <1>1, <3>1, <3>2 DEF GraphType
  <2>7. PassOK' /\ NetOK'
    BY <2>1, <2>5, NetKept DEF ListsInv, PassOK
  <2> QED
    BY <2>1, <2>5, <2>6, <2>7, CacheSteps
<1> QED
  BY <1>3, <1>4

\* Every step keeps the invariant.
LEMMA ListsStep == ListsInv /\ [Next]_vars => ListsInv'
<1> SUFFICES ASSUME ListsInv, [Next]_vars PROVE ListsInv'
  OBVIOUS
<1>1. CASE UNCHANGED vars
  BY <1>1 DEF vars, ListsInv, GraphType, NetOK, PassOK, PlanOK
<1> QED
  BY <1>1, PlansKeep, QueueKeeps, UndoKeeps, DiscardKeeps, ClaimKeeps, CheckKeeps, SendKeeps, RefuseKeeps, LostKeeps,
     RecordKeeps, PassKeeps, SyncTasksKeeps, PhoneKeeps DEF Next

\* The rename asked for last is what its row shows.
LEMMA ShownFromQueue == ListsInv => ShownAsAsked
<1> SUFFICES ASSUME ListsInv, NEW i \in DOMAIN db.ops, db.ops[i].k = "rename", Unresolved(db.ops[i]),
                    {j \in DOMAIN db.ops : j > i /\ db.ops[j].l = db.ops[i].l /\ db.ops[j].k = "rename"
                                            /\ Unresolved(db.ops[j])} = {},
                    db.ops[i].l \notin db.parted
             PROVE  db.rows[db.ops[i].l].name = db.ops[i].name
  BY DEF ShownAsAsked
<1>1. db.ops \in Seq(OpType) /\ QueueOK(db.rows, db.ops, db.parted)
  BY DEF ListsInv, CacheOK, CacheType
<1>2. db.ops[i].l \in LocalRows
  <2>1. db.ops[i] \in OpType
    BY <1>1
  <2> QED
    BY <2>1 DEF OpType
<1>3. LastAsked(db.ops, Len(db.ops) + 1, db.ops[i].l, i)
  BY <1>1 DEF LastAsked
<1> QED
  BY <1>1, <1>2, <1>3 DEF QueueOK, NamedAsAsked

\* The name the user gave a list stays on screen until Graph answers its last rename: a pass, an answer to an
\* earlier operation, a merged duplicate and a failed write leave the name asked for last on the row.
THEOREM NameHolds == Spec => []ShownAsAsked
<1>1. Spec => []ListsInv
  BY ListsInit, ListsStep, PTL DEF Spec
<1> QED
  BY <1>1, ShownFromQueue, PTL

=============================================================================
