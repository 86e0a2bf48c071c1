--------------------------- MODULE SyncPassProofs ---------------------------
(***************************************************************************)
(* Proofs about the sync pass, for any set of tasks and any number of      *)
(* edits, writes, lost answers and crashes: no pass takes back a change    *)
(* that is still to be sent, and the saved link never runs ahead of the    *)
(* cache.  And about the other end, the double of Graph that passes are    *)
(* tested against: its delta rounds miss nothing and its etags mean what   *)
(* they say.                                                               *)
(***************************************************************************)
EXTENDS SyncPass, GraphDouble, FiniteSetTheorems, TLAPS

-----------------------------------------------------------------------------
(* What the two properties rest on.                                        *)

\* A row that is shown has content.  A write that is under way left its mark
\* on the row, is still in it, knows what to put back, and was answered with
\* a change once Graph ran it.
RowOK(t) ==
  /\ t \in live => shows[t] # Nothing
  /\ Busy(t) =>
       /\ writeKind[t] \in {"update", "delete"}
       /\ shows[t] # Nothing /\ before[t] # Nothing /\ wrote[t] > 0
       /\ op[t] = "sent" => carries[t] # Nothing
       /\ IF writeKind[t] = "update" THEN t \in live /\ shows[t] = Mine ELSE t \notin live

RowsOK == \A t \in Tasks : RowOK(t)

\* Graph numbers its changes: none is ahead of the last one.
GraphOK == \A t \in Tasks : cloud[t] <= now /\ noted[t] <= cloud[t]

\* The cache has t as Graph has it, if Graph's last change to it is among the
\* first n and nothing was written here.
UpTo(t, n) == (wrote[t] = 0 /\ ~Busy(t) /\ cloud[t] <= n) => Matches(t)

\* While a pass fetches, the scope's link is the one it replays, or was
\* dropped meanwhile.
SavedOK ==
  /\ link <= now
  /\ pc \in {"get", "compare", "hydrate"} =>
       /\ saved <= now /\ link \in {Nothing, saved}
       /\ saved # Nothing => \A t \in Tasks : UpTo(t, saved)

\* What a page says of t: every change up to its cursor that the saved link
\* hasn't told.
OnPage(t) ==
  /\ seen[t] # Nothing => cloud[t] > saved /\ (t \in there \/ cloud[t] > 0)
  /\ t \in gone => t \notin there /\ cloud[t] > 0 /\ cloud[t] > saved
  /\ cloud[t] <= cursor =>
       \/ replayed /\ cloud[t] <= saved
       \/ t \in there /\ seen[t] = cloud[t]
       \/ t \notin there /\ (t \in gone \/ (~replayed /\ seen[t] = Nothing))

PageOK ==
  pc \in {"compare", "hydrate"} =>
    /\ cursor # Nothing /\ saved <= cursor /\ cursor <= now
    /\ replayed = (saved # Nothing)
    /\ \A t \in Tasks : OnPage(t)

\* The extension t's row lacks was fetched, is still to be, or a fetch failed.
Hydrates(t) ==
  /\ t \in needed => seen[t] # Nothing
  /\ got[t] # Nothing => seen[t] # Nothing /\ (cloud[t] <= cursor => got[t] = cloud[t])
  /\ (~failed /\ seen[t] # Nothing) =>
       t \in needed \/ t \in gone \/ got[t] # Nothing \/ hydrated[t] = seen[t]

HydrationOK == pc = "hydrate" => \A t \in Tasks : Hydrates(t)

LinkOK == GraphOK /\ SavedOK /\ PageOK /\ HydrationOK /\ LinkCovered

-----------------------------------------------------------------------------
(* Types.                                                                  *)

\* The row a local write leaves has its types.
LEMMA WrittenTypes ==
  ASSUME SyncTypeOK, NEW t \in Tasks, NEW v \in Version, NEW a \in BOOLEAN, Written(t, v, a)
  PROVE  /\ shows' \in [Tasks -> Version] /\ live' \subseteq Tasks
         /\ hydrated' \in [Tasks -> ChangeNo \cup {Nothing}]
         /\ rev' \in Nat /\ wrote' \in [Tasks -> Nat]
BY DEF SyncTypeOK, Written, ChangeNo

\* A step of the pass keeps the types.
LEMMA PassTypes == SyncTypeOK /\ PassStep => SyncTypeOK'
<1> SUFFICES ASSUME SyncTypeOK, PassStep PROVE SyncTypeOK'
  OBVIOUS
<1> USE SyncAssumption DEF SyncTypeOK, ChangeNo, Version, graph, rows, unsent, counts, Nothing, Mine
<1>1. CASE Begin \/ ReadLink \/ LinkRejected \/ FetchFails
  BY <1>1 DEF Begin, ReadLink, LinkRejected, FetchFails
<1>2. CASE Get
  <2>1. seen' \in [Tasks -> ChangeNo \cup {Nothing}] /\ gone' \subseteq Tasks /\ cursor' = now /\ replayed' \in BOOLEAN
    BY <1>2 DEF Get, Replay, ReadWhole, Page
  <2>2. pc' = "compare" /\ UNCHANGED <<graph, rows, link, unsent, since, saved, needed, got, failed, owed, counts>>
    BY <1>2 DEF Get, Replay, ReadWhole, Page
  <2> QED
    BY <2>1, <2>2
<1>3. CASE Advance
  BY <1>3 DEF Advance, Checkpoint
<1>4. CASE Compare
  BY <1>4 DEF Compare, Needs
<1>5. CASE Apply
  <2>1. shows' \in [Tasks -> Version] /\ hydrated' \in [Tasks -> ChangeNo \cup {Nothing}] /\ wrote' \in [Tasks -> Nat]
    BY <1>5 DEF Apply
  <2>2. live' \subseteq Tasks
    BY <1>5 DEF Apply
  <2>3. link' \in {link, cursor} /\ pc' = "idle"
    BY <1>5 DEF Apply, Conclude, Checkpoint
  <2>4. UNCHANGED <<graph, rev, unsent, since, saved, seen, gone, needed, got, failed, cursor, replayed, owed, counts>>
    BY <1>5 DEF Apply
  <2> QED
    BY <2>1, <2>2, <2>3, <2>4
<1>6. ASSUME NEW t \in Tasks, Fetched(t) \/ HydrationFails(t) PROVE SyncTypeOK'
  <2>1. needed' \subseteq Tasks /\ gone' \subseteq Tasks /\ got' \in [Tasks -> ChangeNo \cup {Nothing}]
    BY <1>6 DEF Fetched, HydrationFails
  <2>2. failed' \in {failed, TRUE}
    BY <1>6 DEF Fetched, HydrationFails
  <2>3. failed' \in BOOLEAN
    BY <2>2, Zenon
  <2>4. UNCHANGED <<graph, rows, link, unsent, pc, since, saved, seen, cursor, replayed, owed, counts>>
    BY <1>6 DEF Fetched, HydrationFails
  <2> QED
    BY <2>1, <2>3, <2>4
<1> QED
  BY <1>1, <1>2, <1>3, <1>4, <1>5, <1>6 DEF PassStep

\* A step of the worker, a client or the phone, and a crash, keep the types.
LEMMA OtherTypes == SyncTypeOK /\ (Outbox \/ Others) => SyncTypeOK'
<1> SUFFICES ASSUME SyncTypeOK, Outbox \/ Others PROVE SyncTypeOK'
  OBVIOUS
<1> USE SyncAssumption DEF SyncTypeOK, graph, rows, unsent, passState, counts
<1>1. ASSUME NEW t \in Tasks, NEW k \in Writes, QueueWrite(t, k) PROVE SyncTypeOK'
  <2>1. Written(t, IF k = "update" THEN Mine ELSE shows[t], k = "update")
    BY <1>1 DEF QueueWrite
  <2>2. (IF k = "update" THEN Mine ELSE shows[t]) \in Version /\ (k = "update") \in BOOLEAN
    BY DEF Version
  <2>3. /\ shows' \in [Tasks -> Version] /\ live' \subseteq Tasks
        /\ hydrated' \in [Tasks -> ChangeNo \cup {Nothing}] /\ rev' \in Nat /\ wrote' \in [Tasks -> Nat]
    BY <2>1, <2>2, WrittenTypes, Zenon
  <2> QED
    <3>1. op' \in [Tasks -> {"none", "pending", "sent"}] /\ writeKind' \in [Tasks -> {"none"} \cup Writes]
      BY <1>1 DEF QueueWrite
    <3>2. before' \in [Tasks -> Version] /\ writes' \in 0 .. MaxWrites
      BY <1>1 DEF QueueWrite
    <3> QED
      BY <1>1, <2>3, <3>1, <3>2 DEF QueueWrite
<1>2. ASSUME NEW t \in Tasks, Run(t) \/ Lose(t) \/ MarkDone(t) \/ Reconcile(t) PROVE SyncTypeOK'
  BY <1>2 DEF Run, Lose, MarkDone, Reconcile, ChangeNo
<1>3. ASSUME NEW t \in Tasks, RecordSent(t) PROVE SyncTypeOK'
  <2>1. Written(t, carries[t], TRUE) /\ carries[t] \in Version
    BY <1>3 DEF RecordSent, Version
  <2>2. /\ shows' \in [Tasks -> Version] /\ live' \subseteq Tasks
        /\ hydrated' \in [Tasks -> ChangeNo \cup {Nothing}] /\ rev' \in Nat /\ wrote' \in [Tasks -> Nat]
    BY <2>1, WrittenTypes, Zenon
  <2> QED
    BY <1>3, <2>2 DEF RecordSent
<1>4. ASSUME NEW t \in Tasks, Reject(t) \/ DiscardWrite(t) PROVE SyncTypeOK'
  <2>1. Written(t, before[t], TRUE)
    BY <1>4 DEF Reject, DiscardWrite
  <2>2. /\ shows' \in [Tasks -> Version] /\ live' \subseteq Tasks
        /\ hydrated' \in [Tasks -> ChangeNo \cup {Nothing}] /\ rev' \in Nat /\ wrote' \in [Tasks -> Nat]
    <3>1. before[t] \in Version
      OBVIOUS
    <3> QED
      BY <2>1, <3>1, WrittenTypes, Zenon
  <2>3. CASE Reject(t)
    BY <2>2, <2>3 DEF Reject
  <2>4. CASE DiscardWrite(t)
    BY <2>2, <2>4 DEF DiscardWrite
  <2> QED
    BY <1>4, <2>3, <2>4
<1>5. ASSUME NEW t \in Tasks, PhoneEdits(t) \/ PhoneDeletes(t) PROVE SyncTypeOK'
  <2>1. noted' \in [Tasks -> ChangeNo]
    BY <1>5 DEF PhoneEdits, PhoneDeletes, ChangeNo
  <2> QED
    BY <1>5, <2>1 DEF PhoneEdits, PhoneDeletes, ChangeNo
<1>6. CASE SyncCrash
  BY <1>6 DEF SyncCrash
<1> QED
  BY <1>1, <1>2, <1>3, <1>4, <1>5, <1>6 DEF Outbox, Others

\* Every variable of the sync pass keeps its type (SyncTypeOK).
THEOREM SyncTypes == SyncSpec => []SyncTypeOK
<1>1. SyncInit => SyncTypeOK
  <2> SUFFICES ASSUME SyncInit PROVE SyncTypeOK
    OBVIOUS
  <2>1. failed \in BOOLEAN /\ replayed \in BOOLEAN
    BY Zenon DEF SyncInit
  <2>2. edits = 0 /\ writes = 0 /\ lostAnswers = 0 /\ syncCrashes = 0
    BY DEF SyncInit
  <2>3. edits \in 0 .. MaxEdits /\ writes \in 0 .. MaxWrites /\ lostAnswers \in 0 .. MaxLost /\ syncCrashes \in 0 .. MaxSyncCrashes
    BY <2>2, SyncAssumption
  <2>4. /\ now \in ChangeNo /\ cloud \in [Tasks -> ChangeNo] /\ noted \in [Tasks -> ChangeNo] /\ there \subseteq Tasks
        /\ shows \in [Tasks -> Version] /\ live \subseteq Tasks /\ hydrated \in [Tasks -> ChangeNo \cup {Nothing}]
        /\ rev \in Nat /\ wrote \in [Tasks -> Nat] /\ link \in ChangeNo \cup {Nothing}
    BY SyncAssumption DEF SyncInit, ChangeNo, Version, Nothing, Mine
  <2>5. /\ op \in [Tasks -> {"none", "pending", "sent"}] /\ writeKind \in [Tasks -> {"none"} \cup Writes]
        /\ before \in [Tasks -> Version] /\ carries \in [Tasks -> ChangeNo \cup {Nothing}]
        /\ pc \in {"idle", "read", "get", "compare", "hydrate"}
        /\ since \in Nat /\ saved \in ChangeNo \cup {Nothing} /\ cursor \in ChangeNo \cup {Nothing}
        /\ seen \in [Tasks -> ChangeNo \cup {Nothing}] /\ got \in [Tasks -> ChangeNo \cup {Nothing}]
        /\ gone \subseteq Tasks /\ needed \subseteq Tasks /\ owed \subseteq Tasks
    BY DEF SyncInit, ChangeNo, Version, Nothing, Mine
  <2> QED
    BY <2>1, <2>3, <2>4, <2>5, Zenon DEF SyncTypeOK
<1>2. SyncTypeOK /\ [SyncNext]_syncVars => SyncTypeOK'
  <2>1. SyncTypeOK /\ UNCHANGED syncVars => SyncTypeOK'
    BY DEF SyncTypeOK, syncVars, graph, rows, unsent, passState, counts
  <2> QED
    BY <2>1, PassTypes, OtherTypes DEF SyncNext
<1> QED
  BY <1>1, <1>2, PTL DEF SyncSpec

-----------------------------------------------------------------------------
(* Local changes are kept.                                                 *)

\* A pass leaves a row with a write under way alone, and gives the rows it
\* writes content.
LEMMA RowsPass == SyncTypeOK /\ RowsOK /\ PassStep => RowsOK'
<1> SUFFICES ASSUME SyncTypeOK, RowsOK, PassStep, NEW t \in Tasks PROVE RowOK(t)'
  BY DEF RowsOK
<1>0. RowOK(t)
  BY DEF RowsOK
<1>1. CASE Apply
  <2>1. UNCHANGED unsent
    BY <1>1 DEF Apply
  <2>2. CASE LeftAlone(t)
    <3>1. shows'[t] = shows[t] /\ wrote'[t] = wrote[t]
      BY <1>1, <2>2 DEF Apply, SyncTypeOK
    <3>2. t \in live' <=> t \in live
      BY <1>1, <2>2 DEF Apply, SyncTypeOK
    <3> QED
      BY <1>0, <2>1, <3>1, <3>2 DEF RowOK, Busy, unsent
  <2>3. CASE ~LeftAlone(t)
    <3>1. ~Busy(t)
      BY <1>0, <2>3 DEF LeftAlone, RowOK
    <3>2. t \in live' => shows'[t] # Nothing
      BY <1>0, <1>1 DEF Apply, RowOK, SyncTypeOK
    <3> QED
      BY <2>1, <3>1, <3>2 DEF RowOK, Busy, unsent
  <2> QED
    BY <2>2, <2>3
<1>2. CASE UNCHANGED <<rows, unsent>>
  BY <1>0, <1>2 DEF RowOK, Busy, rows, unsent
<1>3. ~Apply => UNCHANGED <<rows, unsent>>
  BY DEF PassStep, Begin, ReadLink, Get, Replay, ReadWhole, Page, LinkRejected, FetchFails, Advance,
         Compare, Fetched, HydrationFails
<1> QED
  BY <1>1, <1>2, <1>3

LEMMA RowsOthers == SyncTypeOK /\ RowsOK /\ (Outbox \/ Others) => RowsOK'
<1> SUFFICES ASSUME SyncTypeOK, RowsOK, Outbox \/ Others, NEW t \in Tasks PROVE RowOK(t)'
  BY DEF RowsOK
<1>0. RowOK(t)
  BY DEF RowsOK
<1> USE <1>0 DEF SyncTypeOK, RowOK, Busy, rows, unsent
<1>1. ASSUME NEW u \in Tasks, NEW k \in Writes, QueueWrite(u, k) PROVE RowOK(t)'
  <2>1. k \in {"update", "delete"}
    BY SyncAssumption
  <2>2. CASE u = t
    BY <1>1, <2>1, <2>2 DEF QueueWrite, Written, Nothing, Mine
  <2>3. CASE u # t
    BY <1>1, <2>3 DEF QueueWrite, Written
  <2> QED
    BY <2>2, <2>3
<1>2. ASSUME NEW u \in Tasks, Run(u) PROVE RowOK(t)'
  BY <1>2 DEF Run, Nothing, ChangeNo
<1>3. ASSUME NEW u \in Tasks, Lose(u) \/ MarkDone(u) \/ Reconcile(u) PROVE RowOK(t)'
  BY <1>3 DEF Lose, MarkDone, Reconcile
<1>4. ASSUME NEW u \in Tasks, RecordSent(u) PROVE RowOK(t)'
  BY <1>4 DEF RecordSent, Written
<1>5. ASSUME NEW u \in Tasks, Reject(u) \/ DiscardWrite(u) PROVE RowOK(t)'
  BY <1>5 DEF Reject, DiscardWrite, Written
<1>6. ASSUME NEW u \in Tasks, PhoneEdits(u) \/ PhoneDeletes(u) PROVE RowOK(t)'
  BY <1>6 DEF PhoneEdits, PhoneDeletes
<1>7. CASE SyncCrash
  BY <1>7 DEF SyncCrash
<1> QED
  BY <1>1, <1>2, <1>3, <1>4, <1>5, <1>6, <1>7 DEF Outbox, Others

LEMMA RowsInvariant == SyncSpec => []RowsOK
<1>1. SyncInit => RowsOK
  BY DEF SyncInit, RowsOK, RowOK, Busy
<1>2. SyncTypeOK /\ RowsOK /\ [SyncNext]_syncVars => RowsOK'
  <2>1. RowsOK /\ UNCHANGED syncVars => RowsOK'
    BY DEF RowsOK, RowOK, Busy, syncVars, rows, unsent
  <2> QED
    BY <2>1, RowsPass, RowsOthers DEF SyncNext
<1> QED
  BY <1>1, <1>2, SyncTypes, PTL DEF SyncSpec

\* A change made here stays in the row until Graph has answered it, or it is
\* taken back: no pass overwrites it, or brings back what is to be deleted
\* (UnsentKept).
THEOREM SyncUnsentKept == SyncSpec => []UnsentKept
<1>1. RowsOK => UnsentKept
  BY DEF RowsOK, RowOK, UnsentKept
<1> QED
  BY <1>1, RowsInvariant, PTL

-----------------------------------------------------------------------------
(* The saved link and the cache.                                           *)

\* What a step does in Graph: nothing, or one task gets the next change.  A
\* task that is gone doesn't come back.
GraphMoves ==
  /\ now' >= now
  /\ \A t \in Tasks :
       \/ cloud'[t] = cloud[t] /\ noted'[t] = noted[t] /\ (t \in there' <=> t \in there)
       \/ /\ cloud'[t] = now' /\ now' > now /\ noted'[t] <= now'
          /\ t \in there' => t \in there \/ cloud[t] = 0

\* A row with nothing written here had nothing written before, and is as it was.
RowKept(t) ==
  (wrote'[t] = 0 /\ ~Busy(t)') =>
    /\ wrote[t] = 0 /\ ~Busy(t)
    /\ shows'[t] = shows[t] /\ hydrated'[t] = hydrated[t] /\ (t \in live' <=> t \in live)

\* A change in Graph is always the next one.
LEMMA GraphStep == SyncTypeOK /\ GraphOK /\ [SyncNext]_syncVars => GraphMoves
<1> SUFFICES ASSUME SyncTypeOK, GraphOK, [SyncNext]_syncVars PROVE GraphMoves
  OBVIOUS
<1> USE DEF SyncTypeOK, GraphOK, GraphMoves, graph, ChangeNo
<1>1. ASSUME NEW u \in Tasks, Run(u) PROVE GraphMoves
  BY <1>1 DEF Run
<1>2. ASSUME NEW u \in Tasks, PhoneEdits(u) PROVE GraphMoves
  BY <1>2 DEF PhoneEdits
<1>3. ASSUME NEW u \in Tasks, PhoneDeletes(u) PROVE GraphMoves
  BY <1>3 DEF PhoneDeletes
<1>4. CASE UNCHANGED graph
  BY <1>4
<1>5. \/ \E u \in Tasks : Run(u) \/ PhoneEdits(u) \/ PhoneDeletes(u)
      \/ UNCHANGED graph
  BY DEF SyncNext, PassStep, Outbox, Others, syncVars, Begin, ReadLink, Get, Replay, ReadWhole, Page, LinkRejected,
         FetchFails, Advance, Compare, Fetched, HydrationFails, Apply, Lose, RecordSent, MarkDone, Reject,
         Reconcile, DiscardWrite, QueueWrite, SyncCrash
<1> QED
  BY <1>1, <1>2, <1>3, <1>4, <1>5

LEMMA GraphKept == SyncTypeOK /\ SyncTypeOK' /\ GraphOK /\ GraphMoves => GraphOK'
BY DEF SyncTypeOK, GraphOK, GraphMoves, ChangeNo

\* Only the application of a page makes a row agree with a change it didn't
\* agree with.
LEMMA UpToKept ==
  ASSUME SyncTypeOK, SyncTypeOK', GraphMoves, NEW t \in Tasks, RowKept(t),
         NEW n \in Int, n <= now, UpTo(t, n)
  PROVE  (wrote'[t] = 0 /\ ~Busy(t)' /\ cloud'[t] <= n) => Matches(t)'
BY DEF SyncTypeOK, GraphMoves, RowKept, UpTo, Matches, ChangeNo

LEMMA RowStep ==
  ASSUME SyncTypeOK, RowsOK, Outbox \/ Others \/ UNCHANGED syncVars, NEW t \in Tasks PROVE RowKept(t)
<1>0. RowOK(t)
  BY DEF RowsOK
<1> USE <1>0 DEF SyncTypeOK, RowKept, RowOK, Busy, rows, unsent
<1>1. CASE UNCHANGED <<rows, op>>
  BY <1>1
<1>2. ASSUME NEW u \in Tasks, NEW k \in Writes, QueueWrite(u, k) PROVE RowKept(t)
  BY <1>2 DEF QueueWrite, Written
<1>3. ASSUME NEW u \in Tasks, Run(u) \/ Lose(u) \/ MarkDone(u) PROVE RowKept(t)
  BY <1>3 DEF Run, Lose, MarkDone
<1>4. ASSUME NEW u \in Tasks, RecordSent(u) \/ Reject(u) \/ DiscardWrite(u) PROVE RowKept(t)
  BY <1>4 DEF RecordSent, Reject, DiscardWrite, Written
<1>5. CASE SyncCrash
  BY <1>5 DEF SyncCrash
<1>6. ASSUME NEW u \in Tasks, Reconcile(u) \/ PhoneEdits(u) \/ PhoneDeletes(u) PROVE UNCHANGED <<rows, op>>
  BY <1>6 DEF Reconcile, PhoneEdits, PhoneDeletes
<1>7. UNCHANGED syncVars => UNCHANGED <<rows, op>>
  BY DEF syncVars
<1> QED
  BY <1>1, <1>2, <1>3, <1>4, <1>5, <1>6, <1>7 DEF Outbox, Others

\* A page goes on saying the truth while Graph changes.
LEMMA PageKept ==
  ASSUME SyncTypeOK, SyncTypeOK', GraphOK, PageOK, HydrationOK, GraphMoves,
         UNCHANGED <<saved, seen, gone, needed, got, failed, cursor, replayed, hydrated>>, pc' \in {pc, "idle"}
  PROVE  PageOK' /\ HydrationOK'
<1>1. ASSUME PageOK, pc' \in {"compare", "hydrate"}, NEW t \in Tasks PROVE OnPage(t)'
  <2>1. OnPage(t) /\ cursor <= now
    BY <1>1 DEF PageOK
  <2> QED
    BY <2>1 DEF OnPage, SyncTypeOK, GraphMoves, GraphOK, ChangeNo, Nothing
<1>2. ASSUME pc' = "hydrate", NEW t \in Tasks PROVE Hydrates(t)'
  <2>1. Hydrates(t) /\ cursor <= now
    BY <1>2 DEF PageOK, HydrationOK
  <2> QED
    BY <2>1 DEF Hydrates, SyncTypeOK, GraphMoves, GraphOK, ChangeNo, Nothing
<1>3. now' >= now
  BY DEF GraphMoves
<1>4. ASSUME pc' \in {"compare", "hydrate"} PROVE cursor' # Nothing /\ saved' <= cursor' /\ cursor' <= now' /\ replayed' = (saved' # Nothing)
  BY <1>3, <1>4 DEF PageOK, SyncTypeOK, ChangeNo, Nothing
<1> QED
  BY <1>1, <1>2, <1>4 DEF PageOK, HydrationOK

\* What is outside the pass keeps its bookkeeping: it may drop the link or,
\* with a crash, the pass.
LEMMA LinkOthers ==
  ASSUME SyncTypeOK, SyncTypeOK', RowsOK, LinkOK, Outbox \/ Others \/ UNCHANGED syncVars PROVE LinkOK'
<1>1. GraphMoves /\ GraphOK'
  BY GraphStep, GraphKept DEF SyncNext, LinkOK
<1>2. \A t \in Tasks : RowKept(t)
  BY RowStep
<1>3. /\ link' \in {link, Nothing} /\ pc' \in {pc, "idle"}
      /\ UNCHANGED <<saved, seen, gone, needed, got, failed, cursor, replayed, hydrated>>
  BY DEF Outbox, Others, syncVars, Run, Lose, RecordSent, MarkDone, Reject, Reconcile, PhoneEdits,
         PhoneDeletes, DiscardWrite, QueueWrite, SyncCrash, passState, rows, Written
<1>4. PageOK' /\ HydrationOK'
  BY <1>1, <1>3, PageKept DEF LinkOK
<1>5. ASSUME link' # Nothing, NEW t \in Tasks PROVE UpTo(t, link)'
  <2>1. link' = link /\ link \in Int /\ link <= now /\ UpTo(t, link)
    BY <1>3, <1>5 DEF LinkOK, SavedOK, LinkCovered, UpTo, SyncTypeOK, ChangeNo, Nothing
  <2>2. (wrote'[t] = 0 /\ ~Busy(t)' /\ cloud'[t] <= link) => Matches(t)'
    BY <1>1, <1>2, <2>1, UpToKept
  <2> QED
    BY <2>1, <2>2 DEF UpTo
<1>6. ASSUME pc' \in {"get", "compare", "hydrate"}, saved' # Nothing, NEW t \in Tasks PROVE UpTo(t, saved)'
  <2>1. saved' = saved /\ saved \in Int /\ saved <= now /\ UpTo(t, saved)
    BY <1>3, <1>6 DEF LinkOK, SavedOK, SyncTypeOK, ChangeNo, Nothing
  <2>2. (wrote'[t] = 0 /\ ~Busy(t)' /\ cloud'[t] <= saved) => Matches(t)'
    BY <1>1, <1>2, <2>1, UpToKept
  <2> QED
    BY <2>1, <2>2 DEF UpTo
<1>7. LinkCovered'
  BY <1>5 DEF LinkCovered, UpTo
<1>8. SavedOK'
  <2>1. link' <= now' /\ (pc' \in {"get", "compare", "hydrate"} => saved' <= now' /\ link' \in {Nothing, saved'})
    BY <1>1, <1>3 DEF LinkOK, SavedOK, GraphMoves, SyncTypeOK, ChangeNo, Nothing
  <2> QED
    BY <1>6, <2>1 DEF SavedOK
<1> QED
  BY <1>1, <1>4, <1>7, <1>8 DEF LinkOK

\* The steps up to the application of the page leave Graph and the rows alone.
LEMMA LinkFetch ==
  ASSUME SyncTypeOK, SyncTypeOK', LinkOK, PassStep, ~Apply, ~Advance PROVE LinkOK'
<1>1. UNCHANGED <<graph, rows, op>>
  BY DEF PassStep, Begin, ReadLink, Get, Replay, ReadWhole, Page, LinkRejected, FetchFails,
         Compare, Fetched, HydrationFails, unsent
<1>2. GraphOK'
  BY <1>1 DEF LinkOK, GraphOK, graph
<1>3. \A t \in Tasks : Matches(t)' = Matches(t) /\ Busy(t)' = Busy(t)
  BY <1>1 DEF Matches, Busy, graph, rows
<1>4. link' \in {link, Nothing}
  BY DEF PassStep, Begin, ReadLink, Get, Replay, ReadWhole, Page, LinkRejected, FetchFails,
         Compare, Fetched, HydrationFails
<1>5. LinkCovered'
  BY <1>1, <1>3, <1>4 DEF LinkOK, LinkCovered, graph, rows
<1>6. SavedOK'
  <2>1. /\ link' <= now'
        /\ pc' \in {"get", "compare", "hydrate"} => saved' \in {saved, link, Nothing}
    BY <1>1, <1>4 DEF PassStep, Begin, ReadLink, Get, Replay, ReadWhole, Page, LinkRejected, FetchFails,
         Compare, Fetched, HydrationFails, LinkOK, SavedOK, SyncTypeOK, ChangeNo, Nothing, graph
  <2>2. CASE ReadLink
    <3>1. pc' = "get" /\ saved' = link /\ link' = link
      BY <2>2 DEF ReadLink
    <3>2. link # Nothing => \A t \in Tasks : UpTo(t, link)
      BY DEF LinkOK, LinkCovered, UpTo
    <3> QED
      BY <1>1, <1>3, <2>1, <3>1, <3>2 DEF SavedOK, UpTo, graph, rows
  <2>3. CASE LinkRejected
    BY <1>1, <2>1, <2>3 DEF LinkRejected, SavedOK, SyncTypeOK, ChangeNo, Nothing, graph
  <2>4. CASE Begin \/ FetchFails
    BY <2>1, <2>4 DEF Begin, FetchFails, SavedOK
  <2>5. CASE pc \in {"get", "compare", "hydrate"} /\ UNCHANGED <<link, saved>>
    BY <1>1, <1>3, <2>1, <2>5 DEF LinkOK, SavedOK, UpTo, graph, rows
  <2>6. ReadLink \/ LinkRejected \/ Begin \/ FetchFails \/ (pc \in {"get", "compare", "hydrate"} /\ UNCHANGED <<link, saved>>)
    BY DEF PassStep, Get, Replay, ReadWhole, Page, Compare, Fetched, HydrationFails
  <2> QED
    BY <2>2, <2>3, <2>4, <2>5, <2>6
<1>7. PageOK' /\ HydrationOK'
  <2> USE DEF PageOK, HydrationOK
  <2>1. CASE Begin \/ ReadLink \/ LinkRejected \/ FetchFails
    BY <2>1 DEF Begin, ReadLink, LinkRejected, FetchFails
  <2>2. CASE Replay
    <3>1. pc = "get" /\ pc' = "compare" /\ saved # Nothing /\ saved' = saved /\ cursor' = now /\ now' = now
      BY <1>1, <2>2 DEF Replay, Page, graph
    <3>2. replayed' = TRUE
      BY <2>2 DEF Replay, Page
    <3>3. saved' <= cursor' /\ cursor' # Nothing
      BY <3>1 DEF LinkOK, SavedOK, SyncTypeOK, ChangeNo, Nothing
    <3>4. ASSUME NEW t \in Tasks PROVE OnPage(t)'
      BY <1>1, <2>2, <3>1, <3>2 DEF Replay, Page, OnPage, LinkOK, GraphOK, SyncTypeOK, ChangeNo, Nothing, graph
    <3>5. replayed' = (saved' # Nothing)
      BY <3>1, <3>2
    <3>6. cursor' <= now'
      BY <3>1 DEF SyncTypeOK, ChangeNo
    <3> QED
      BY <3>1, <3>3, <3>4, <3>5, <3>6
  <2>3. CASE ReadWhole
    <3>1. pc = "get" /\ pc' = "compare" /\ saved = Nothing /\ saved' = saved /\ cursor' = now /\ now' = now
      BY <1>1, <2>3 DEF ReadWhole, Page, graph
    <3>2. replayed' = FALSE
      BY <2>3 DEF ReadWhole, Page
    <3>3. saved' <= cursor' /\ cursor' # Nothing
      BY <3>1 DEF LinkOK, SavedOK, SyncTypeOK, ChangeNo, Nothing
    <3>4. ASSUME NEW t \in Tasks PROVE OnPage(t)'
      BY <1>1, <2>3, <3>1, <3>2 DEF ReadWhole, Page, OnPage, LinkOK, GraphOK, SyncTypeOK, ChangeNo, Nothing, graph
    <3>5. replayed' = (saved' # Nothing)
      BY <3>1, <3>2
    <3>6. cursor' <= now'
      BY <3>1 DEF SyncTypeOK, ChangeNo
    <3> QED
      BY <3>1, <3>3, <3>4, <3>5, <3>6
  <2>4. CASE Compare
    <3>1. pc = "compare" /\ UNCHANGED <<graph, saved, seen, gone, cursor, replayed>>
      BY <2>4 DEF Compare
    <3>2. PageOK'
      BY <3>1 DEF LinkOK, OnPage, graph
    <3>3. ASSUME NEW t \in Tasks PROVE Hydrates(t)'
      BY <1>1, <2>4 DEF Compare, Needs, Hydrates, rows, SyncTypeOK, Nothing
    <3> QED
      BY <3>2, <3>3
  <2>5. ASSUME NEW u \in Tasks, Fetched(u) PROVE PageOK' /\ HydrationOK'
    <3>1. pc = "hydrate" /\ UNCHANGED <<graph, rows, pc, saved, seen, failed, cursor, replayed>>
      BY <2>5 DEF Fetched
    <3>2. ASSUME NEW t \in Tasks PROVE OnPage(t)' /\ Hydrates(t)'
      <4>1. OnPage(t) /\ Hydrates(t) /\ Hydrates(u) /\ OnPage(u)
        BY <3>1 DEF LinkOK
      <4> QED
        BY <2>5, <3>1, <4>1 DEF Fetched, OnPage, Hydrates, SyncTypeOK, ChangeNo, Nothing, graph, rows
    <3> QED
      BY <3>1, <3>2 DEF LinkOK, graph
  <2>6. ASSUME NEW u \in Tasks, HydrationFails(u) PROVE PageOK' /\ HydrationOK'
    BY <2>6 DEF HydrationFails, LinkOK, OnPage, Hydrates, graph, rows
  <2> QED
    BY <2>1, <2>2, <2>3, <2>4, <2>5, <2>6 DEF PassStep, Get
<1> QED
  BY <1>2, <1>5, <1>6, <1>7 DEF LinkOK

\* Nothing on the page: everything up to its cursor was told before.
LEMMA LinkAdvance == ASSUME SyncTypeOK, LinkOK, Advance PROVE LinkOK'
<1>1. pc = "compare" /\ pc' = "idle" /\ link' = cursor /\ UNCHANGED <<graph, rows, op>>
  BY DEF Advance, Checkpoint, unsent
<1>2. replayed /\ gone = {} /\ \A t \in Tasks : seen[t] = Nothing
  BY DEF Advance
<1>3. cursor <= now /\ saved # Nothing
  BY <1>1, <1>2 DEF LinkOK, PageOK
<1>4. GraphOK' /\ PageOK' /\ HydrationOK' /\ SavedOK'
  BY <1>1, <1>3 DEF LinkOK, GraphOK, PageOK, HydrationOK, SavedOK, graph
<1>5. ASSUME NEW t \in Tasks, wrote[t] = 0, ~Busy(t), cloud[t] <= cursor PROVE Matches(t)
  <2>1. OnPage(t) /\ UpTo(t, saved)
    BY <1>1, <1>3 DEF LinkOK, PageOK, SavedOK
  <2>2. cloud[t] <= saved
    BY <1>2, <1>5, <2>1 DEF OnPage, SyncTypeOK, ChangeNo, Nothing
  <2> QED
    BY <1>5, <2>1, <2>2 DEF UpTo
<1>6. LinkCovered'
  BY <1>1, <1>5 DEF LinkCovered, Matches, Busy, graph, rows
<1> QED
  BY <1>4, <1>6 DEF LinkOK

\* A row the page says nothing of stays as it is.
LEMMA ApplyUntouched ==
  ASSUME SyncTypeOK, Apply, NEW t \in Tasks, seen[t] = Nothing, t \notin gone, replayed
  PROVE  /\ shows'[t] = shows[t] /\ hydrated'[t] = hydrated[t] /\ wrote'[t] = wrote[t]
         /\ t \in live' <=> t \in live
BY DEF Apply, SyncTypeOK

\* A row that the page writes is as Graph has it.
LEMMA ApplyWrites ==
  ASSUME SyncTypeOK, LinkOK, Apply, ~failed, NEW t \in Tasks, ~LeftAlone(t),
         t \in there, seen[t] = cloud[t], cloud[t] <= cursor
  PROVE  t \in live' /\ shows'[t] = cloud[t] /\ hydrated'[t] >= noted[t]
<1>1. pc = "hydrate" /\ needed = {} /\ seen[t] # Nothing
  BY DEF Apply, SyncTypeOK, ChangeNo, Nothing
<1>2. OnPage(t) /\ Hydrates(t) /\ noted[t] <= cloud[t]
  BY <1>1 DEF LinkOK, PageOK, HydrationOK, GraphOK
<1>3. t \notin gone
  BY <1>2 DEF OnPage
<1>4. got[t] # Nothing => got[t] = cloud[t]
  BY <1>2 DEF Hydrates
<1>5. got[t] # Nothing \/ hydrated[t] = cloud[t]
  BY <1>1, <1>2, <1>3 DEF Hydrates
<1>6. t \in live' /\ shows'[t] = cloud[t]
  BY <1>1, <1>3, <1>4 DEF Apply, SyncTypeOK
<1>7. hydrated'[t] = cloud[t]
  BY <1>1, <1>4, <1>5 DEF Apply, SyncTypeOK
<1> QED
  BY <1>2, <1>6, <1>7 DEF SyncTypeOK, ChangeNo

LEMMA ApplyRemoves ==
  ASSUME SyncTypeOK, Apply, NEW t \in Tasks, ~LeftAlone(t), t \in gone \/ (~replayed /\ seen[t] = Nothing)
  PROVE  t \notin live'
BY DEF Apply, SyncTypeOK

\* A row that is left alone keeps the mark of what was written.
LEMMA ApplyLeaves ==
  ASSUME SyncTypeOK, Apply, NEW t \in Tasks, LeftAlone(t) PROVE Busy(t)' \/ wrote'[t] # 0
<1>1. wrote'[t] = wrote[t] /\ op' = op
  BY DEF Apply, SyncTypeOK, unsent
<1>2. since \in Nat /\ wrote[t] \in Nat
  BY DEF SyncTypeOK
<1> QED
  BY <1>1, <1>2 DEF LeftAlone, Busy

LEMMA LinkApply == ASSUME SyncTypeOK, LinkOK, Apply PROVE LinkOK'
<1>1. pc = "hydrate" /\ pc' = "idle" /\ UNCHANGED <<graph, op, cursor>>
  BY DEF Apply, unsent
<1>2. link' = IF failed THEN link ELSE cursor
  BY DEF Apply, Conclude, Checkpoint
<1>3. cursor <= now /\ link <= now /\ link \in {Nothing, saved} /\ replayed = (saved # Nothing)
  BY <1>1 DEF LinkOK, PageOK, SavedOK
<1>4. GraphOK' /\ PageOK' /\ HydrationOK' /\ SavedOK'
  BY <1>1, <1>2, <1>3 DEF LinkOK, GraphOK, PageOK, HydrationOK, SavedOK, graph
<1>5. ASSUME NEW t \in Tasks, link' # Nothing, wrote'[t] = 0, ~Busy(t)', cloud[t] <= link' PROVE Matches(t)'
  <2>1. ~LeftAlone(t)
    BY <1>5, ApplyLeaves
  <2>2. OnPage(t)
    BY <1>1 DEF LinkOK, PageOK
  <2>3. CASE saved # Nothing /\ cloud[t] <= saved
    <3>1. seen[t] = Nothing /\ t \notin gone /\ replayed
      <4>1. seen[t] = Nothing /\ t \notin gone
        BY <2>2, <2>3 DEF OnPage, SyncTypeOK, ChangeNo, Nothing
      <4>2. replayed
        BY <1>3, <2>3, Zenon
      <4> QED
        BY <4>1, <4>2
    <3>2. UpTo(t, saved)
      BY <1>1, <2>3 DEF LinkOK, SavedOK
    <3> QED
      BY <1>1, <1>5, <2>3, <3>1, <3>2, ApplyUntouched DEF UpTo, Matches, Busy, graph
  <2>4. CASE ~(saved # Nothing /\ cloud[t] <= saved)
    <3>1. ~failed /\ cloud[t] <= cursor
      BY <1>2, <1>3, <1>5, <2>4
    <3>2. CASE t \in there
      <4>1. seen[t] = cloud[t]
        BY <1>3, <2>2, <2>4, <3>1, <3>2 DEF OnPage
      <4> QED
        BY <1>1, <2>1, <3>1, <3>2, <4>1, ApplyWrites DEF Matches, graph
    <3>3. CASE t \notin there
      <4>1. t \in gone \/ (~replayed /\ seen[t] = Nothing)
        BY <1>3, <2>2, <2>4, <3>1, <3>3 DEF OnPage
      <4> QED
        BY <1>1, <2>1, <3>3, <4>1, ApplyRemoves DEF Matches, graph
    <3> QED
      BY <3>2, <3>3
  <2> QED
    BY <2>3, <2>4
<1>6. LinkCovered'
  BY <1>1, <1>5 DEF LinkCovered, graph
<1> QED
  BY <1>4, <1>6 DEF LinkOK

\* The checkpoint rule: what Graph changed up to the saved link is in the
\* cache, extension and all, however pages, writes, answers and crashes
\* interleave (LinkCovered).
THEOREM SyncLinkCovered == SyncSpec => []LinkCovered
<1>1. SyncInit => LinkOK
  BY DEF SyncInit, LinkOK, GraphOK, SavedOK, PageOK, HydrationOK, LinkCovered, Nothing
<1>2. SyncTypeOK /\ SyncTypeOK' /\ RowsOK /\ LinkOK /\ [SyncNext]_syncVars => LinkOK'
  BY LinkOthers, LinkFetch, LinkAdvance, LinkApply DEF SyncNext
<1>3. LinkOK => LinkCovered
  BY DEF LinkOK
<1> QED
  BY <1>1, <1>2, <1>3, SyncTypes, RowsInvariant, PTL DEF SyncSpec

\* Both hold of every row, whatever a pass, a local write, its answer and a
\* crash do between them (RowsTrue).
THEOREM SyncRowsTrue == SyncSpec => []RowsTrue
BY SyncUnsentKept, SyncLinkCovered, PTL DEF RowsTrue

-----------------------------------------------------------------------------
(* The double of Graph: where a reader of a delta round stands, and what   *)
(* an etag stands for.                                                     *)

\* A task, with the numbers of the writes that set what it has.
Task == [in : Nat, etag : Nat, steps : SUBSET Nat, link : Int, files : BOOLEAN, fields : Nat, recurs : BOOLEAN, due : Int]

\* Numbers are ahead of every etag, and IDs ahead of every task.
HoldsOK ==
  /\ requests \in Nat
  /\ DOMAIN lists \subseteq Nat /\ IsFiniteSet(DOMAIN lists) /\ lists = [l \in DOMAIN lists |-> lists[l]]
  /\ DOMAIN tasks \subseteq Nat /\ IsFiniteSet(DOMAIN tasks)
  /\ \A t \in DOMAIN tasks : tasks[t] \in Task /\ tasks[t].etag <= requests /\ t < NewId
  /\ lastRead.id \in Int /\ lastRead.id < NewId
  /\ lastRead.id # Never => lastRead.task.etag \in Nat /\ lastRead.task.etag <= requests

\* Tokens are numbered in the order they were issued.
TokensOK ==
  /\ issued \in Nat
  /\ DOMAIN tokens \subseteq 0 .. issued - 1
  /\ \A k \in DOMAIN tokens : tokens[k].held = [i \in DOMAIN tokens[k].held |-> tokens[k].held[i]]
  /\ token \in -1 .. issued - 1
  /\ DOMAIN mirror \subseteq Nat /\ IsFiniteSet(DOMAIN mirror)

\* The items of a round before an offset.
Passed(round, offset) == {i \in Items(round) : Rank(round, i) < offset}

\* Told so much of a round, and in the right place.
ToldSoFar(round, items, dropped, offset) ==
  /\ Items(round) \subseteq Nat /\ IsFiniteSet(Items(round)) /\ offset \in Nat
  /\ round.changed = [i \in DOMAIN round.changed |-> round.changed[i]]
  /\ items = [i \in DOMAIN round.changed \cap Passed(round, offset) |-> round.changed[i]]
  /\ dropped = round.removed \cap Passed(round, offset)

\* What round n tells a reader who holds past.
RoundOK(n, round, past) ==
  n \in DOMAIN tokens =>
    /\ tokens[n] = [scope |-> scope, held |-> tokens[n].held]
    /\ round = Since(past, tokens[n].held)

\* The reader is somewhere in a round that brings its copy up to the token.
WalkOK ==
  walking # Never =>
    /\ walking \in 0 .. issued - 1
    /\ ToldSoFar(rounds[walking], told, toldGone, reached)
    /\ RoundOK(walking, rounds[walking], IF anew THEN NothingThere ELSE mirror)

\* The inductive invariant.
DoubleInv == HoldsOK /\ TokensOK /\ WalkOK /\ DoubleTrue
-----------------------------------------------------------------------------
\* The first of a finite set of numbers come before fewer than all.
LEMMA RankBound ==
  ASSUME NEW S, S \subseteq Nat, IsFiniteSet(S), NEW i \in S
  PROVE  LET r == Cardinality({j \in S : j < i}) IN r \in Nat /\ r < Cardinality(S) /\ Cardinality(S) \in Nat
<1> DEFINE L == {j \in S : j < i}
<1>1. L \subseteq S /\ L # S
  OBVIOUS
<1>2. IsFiniteSet(L) /\ Cardinality(L) <= Cardinality(S) /\ (Cardinality(L) = Cardinality(S) => L = S)
  BY <1>1, FS_Subset
<1>3. Cardinality(L) \in Nat /\ Cardinality(S) \in Nat
  BY <1>2, FS_CardinalityType
<1> QED
  BY <1>1, <1>2, <1>3

\* What differs, applied to what it differs from, is what there is.
LEMMA SinceApplies ==
  ASSUME NEW past, NEW present, present = [i \in DOMAIN present |-> present[i]]
  PROVE  BroughtUp(past, Since(past, present).changed, Since(past, present).removed) = present
<1> DEFINE D == {j \in DOMAIN present : j \notin DOMAIN past \/ past[j] # present[j]}
           c == Since(past, present).changed
           f == [i \in DOMAIN c \cup (DOMAIN past \ Since(past, present).removed) |-> IF i \in DOMAIN c THEN c[i] ELSE past[i]]
<1>1. c = [i \in D |-> present[i]] /\ Since(past, present).removed = DOMAIN past \ DOMAIN present
  BY DEF Since
<1>2. DOMAIN c = D
  BY <1>1
<1>3. D \cup (DOMAIN past \ (DOMAIN past \ DOMAIN present)) = DOMAIN present
  OBVIOUS
<1>4. f = [i \in DOMAIN present |-> IF i \in D THEN c[i] ELSE past[i]]
  BY <1>1, <1>2, <1>3
<1>5. \A i \in DOMAIN present : (IF i \in D THEN c[i] ELSE past[i]) = present[i]
  BY <1>1
<1>6. f = [i \in DOMAIN present |-> present[i]]
  BY <1>4, <1>5
<1> QED
  BY <1>6 DEF BroughtUp

-----------------------------------------------------------------------------
(* A page taken.                                                           *)

\* A round begun has told nothing yet.
LEMMA NoneTold ==
  ASSUME NEW round, Items(round) \subseteq Nat, IsFiniteSet(Items(round)),
         round.changed = [i \in DOMAIN round.changed |-> round.changed[i]]
  PROVE  ToldSoFar(round, NothingThere, {}, 0)
<1>1. \A i \in Items(round) : Rank(round, i) \in Nat
  BY RankBound DEF Rank
<1>2. Passed(round, 0) = {}
  BY <1>1 DEF Passed
<1>3. DOMAIN round.changed \cap Passed(round, 0) = {}
  BY <1>2
<1>4. NothingThere = [i \in DOMAIN round.changed \cap Passed(round, 0) |-> round.changed[i]]
  BY <1>3 DEF NothingThere
<1> QED
  BY <1>2, <1>4 DEF ToldSoFar

\* Past the last page, everything was told.
LEMMA AllTold ==
  ASSUME NEW round, NEW items, NEW dropped, NEW offset, ToldSoFar(round, items, dropped, offset),
         ~(offset < Cardinality(Items(round)))
  PROVE  items = round.changed /\ dropped = round.removed
<1>1. \A i \in Items(round) : /\ Rank(round, i) \in Nat /\ Rank(round, i) < Cardinality(Items(round))
                              /\ Cardinality(Items(round)) \in Nat
  BY RankBound DEF Rank, ToldSoFar
<1>2. Passed(round, offset) = Items(round)
  BY <1>1 DEF Passed, ToldSoFar
<1>3. DOMAIN round.changed \cap Passed(round, offset) = DOMAIN round.changed
  BY <1>2 DEF Items
<1>4. items = [i \in DOMAIN round.changed |-> round.changed[i]]
  BY <1>3 DEF ToldSoFar
<1>5. dropped = round.removed
  BY <1>2 DEF ToldSoFar, Items
<1> QED
  BY <1>4, <1>5 DEF ToldSoFar

\* A page later, the page's items were told too.
LEMMA MoreTold ==
  ASSUME NEW round, NEW items, NEW dropped, NEW offset, ToldSoFar(round, items, dropped, offset), DoubleAssumption
  PROVE  ToldSoFar(round, [i \in DOMAIN items \cup (ItemsAt(round, offset) \cap DOMAIN round.changed) |-> round.changed[i]],
                   dropped \cup (ItemsAt(round, offset) \cap round.removed), offset + PageSize)
<1>1. PageSize \in Nat \ {0} /\ offset \in Nat
  BY DoubleAssumption DEF ToldSoFar, DoubleAssumption
<1>2. \A i \in Items(round) : Rank(round, i) \in Nat
  BY RankBound DEF Rank, ToldSoFar
<1>3. Passed(round, offset + PageSize) = Passed(round, offset) \cup ItemsAt(round, offset)
  BY <1>1, <1>2 DEF Passed, ItemsAt
<1>4. DOMAIN items = DOMAIN round.changed \cap Passed(round, offset)
  BY DEF ToldSoFar
<1>5. DOMAIN items \cup (ItemsAt(round, offset) \cap DOMAIN round.changed)
        = DOMAIN round.changed \cap Passed(round, offset + PageSize)
  BY <1>3, <1>4
<1>6. dropped \cup (ItemsAt(round, offset) \cap round.removed) = round.removed \cap Passed(round, offset + PageSize)
  BY <1>3 DEF ToldSoFar
<1> QED
  BY <1>1, <1>5, <1>6 DEF ToldSoFar

\* A page is taken, or the round ends and its items are put in the copy.
LEMMA PageTaken ==
  ASSUME NEW n, NEW round, NEW past, NEW items, NEW dropped, NEW offset, DoubleAssumption,
         ToldSoFar(round, items, dropped, offset), TakePage(n, round, past, items, dropped, offset)
  PROVE  \/ /\ walking' = n /\ UNCHANGED <<mirror, token>>
            /\ \E i, d, o : told' = i /\ toldGone' = d /\ reached' = o /\ ToldSoFar(round, i, d, o)
         \/ /\ walking' = Never /\ token' = n /\ mirror' = BroughtUp(past, round.changed, round.removed)
<1>1. CASE offset < Cardinality(Items(round))
  <2>1. /\ walking' = n /\ UNCHANGED <<mirror, token>>
        /\ told' = [i \in DOMAIN items \cup (ItemsAt(round, offset) \cap DOMAIN round.changed) |-> round.changed[i]]
        /\ toldGone' = dropped \cup (ItemsAt(round, offset) \cap round.removed)
        /\ reached' = offset + PageSize
    BY <1>1 DEF TakePage
  <2> QED
    BY <2>1, MoreTold
<1>2. CASE ~(offset < Cardinality(Items(round)))
  <2>1. items = round.changed /\ dropped = round.removed
    BY <1>2, AllTold
  <2>2. /\ walking' = Never /\ token' = n /\ mirror' = BroughtUp(past, items, dropped)
    BY <1>2 DEF TakePage
  <2> QED
    BY <2>1, <2>2
<1> QED
  BY <1>1, <1>2

\* The scope is read from the same token on, whatever the page.
LEMMA PageStep ==
  ASSUME NEW n, NEW round, NEW past, NEW items, NEW dropped, NEW offset, DoubleAssumption,
         ToldSoFar(round, items, dropped, offset), TakePage(n, round, past, items, dropped, offset),
         issued' \in Nat, n \in 0 .. issued' - 1, rounds'[n] = round,
         past = IF anew' THEN NothingThere ELSE mirror,
         DOMAIN tokens' \subseteq 0 .. issued' - 1,
         \A k \in DOMAIN tokens' : tokens'[k].held = [i \in DOMAIN tokens'[k].held |-> tokens'[k].held[i]],
         token \in -1 .. issued' - 1, DOMAIN mirror \subseteq Nat, IsFiniteSet(DOMAIN mirror),
         token \in DOMAIN tokens' => tokens'[token] = [scope |-> scope', held |-> mirror],
         n \in DOMAIN tokens' =>
           /\ tokens'[n] = [scope |-> scope', held |-> tokens'[n].held]
           /\ round = Since(past, tokens'[n].held)
  PROVE  TokensOK' /\ WalkOK' /\ ToldAll'
<1>1. CASE /\ walking' = n /\ UNCHANGED <<mirror, token>>
           /\ \E i, d, o : told' = i /\ toldGone' = d /\ reached' = o /\ ToldSoFar(round, i, d, o)
  <2>1. PICK i, d, o : told' = i /\ toldGone' = d /\ reached' = o /\ ToldSoFar(round, i, d, o)
    BY <1>1
  <2>2. ToldSoFar(rounds'[walking'], told', toldGone', reached')
    BY <1>1, <2>1
  <2>3. WalkOK'
    BY <1>1, <2>2 DEF WalkOK, RoundOK
  <2>4. TokensOK'
    BY <1>1 DEF TokensOK
  <2> QED
    BY <1>1, <2>3, <2>4 DEF ToldAll
<1>2. CASE /\ walking' = Never /\ token' = n /\ mirror' = BroughtUp(past, round.changed, round.removed)
  <2>1. WalkOK'
    BY <1>2 DEF WalkOK
  <2>2. DOMAIN mirror' \subseteq Items(round) \cup DOMAIN past
    BY <1>2 DEF Items, BroughtUp
  <2>9. DOMAIN past \subseteq Nat /\ IsFiniteSet(DOMAIN past)
    <3>1. DOMAIN NothingThere = {}
      BY DEF NothingThere
    <3> QED
      BY <3>1, FS_EmptySet
  <2>3. Items(round) \cup DOMAIN past \subseteq Nat /\ IsFiniteSet(Items(round) \cup DOMAIN past)
    BY <2>9, FS_Union DEF ToldSoFar
  <2>4. DOMAIN mirror' \subseteq Nat /\ IsFiniteSet(DOMAIN mirror')
    BY <2>2, <2>3, FS_Subset
  <2>0. token' = n
    BY <1>2
  <2>5. token' \in -1 .. issued' - 1
    BY <2>0
  <2>8. TokensOK'
    BY <2>4, <2>5 DEF TokensOK
  <2>6. ASSUME n \in DOMAIN tokens' PROVE mirror' = tokens'[n].held
    <3>1. tokens'[n].held = [i \in DOMAIN tokens'[n].held |-> tokens'[n].held[i]]
      BY <2>6
    <3> QED
      BY <1>2, <2>6, <3>1, SinceApplies
  <2>7. ToldAll'
    BY <1>2, <2>6 DEF ToldAll
  <2> QED
    BY <2>1, <2>8, <2>7
<1>3. \/ /\ walking' = n /\ UNCHANGED <<mirror, token>>
         /\ \E i, d, o : told' = i /\ toldGone' = d /\ reached' = o /\ ToldSoFar(round, i, d, o)
      \/ /\ walking' = Never /\ token' = n /\ mirror' = BroughtUp(past, round.changed, round.removed)
  BY PageTaken, SMTT(30)
<1> QED
  BY <1>1, <1>2, <1>3

-----------------------------------------------------------------------------
(* The requests.                                                           *)

\* A task with another etag, and with more changed, is a task.
LEMMA Bumped ==
  ASSUME NEW x \in Task, requests \in Nat
  PROVE  /\ Bump(x) \in Task /\ Bump(x).etag = NewWrite
         /\ \A v \in SUBSET Nat : [Bump(x) EXCEPT !.steps = v] \in Task /\ [Bump(x) EXCEPT !.steps = v].etag = NewWrite
         /\ \A v \in Int : [Bump(x) EXCEPT !.link = v] \in Task /\ [Bump(x) EXCEPT !.link = v].etag = NewWrite
         /\ \A v \in BOOLEAN : [Bump(x) EXCEPT !.files = v] \in Task /\ [Bump(x) EXCEPT !.files = v].etag = NewWrite
<1> DEFINE y == Bump(x)
<1>1. y = [x EXCEPT !.etag = requests + 1] /\ requests + 1 \in Nat
  BY DEF Bump, NewWrite
<1>2. y \in Task /\ y.etag = requests + 1
  BY <1>1 DEF Task
<1> HIDE DEF y
<1>3. \A v \in SUBSET Nat : [y EXCEPT !.steps = v] \in Task /\ [y EXCEPT !.steps = v].etag = requests + 1
  BY <1>2 DEF Task
<1>4. \A v \in Int : [y EXCEPT !.link = v] \in Task /\ [y EXCEPT !.link = v].etag = requests + 1
  BY <1>2 DEF Task
<1>5. \A v \in BOOLEAN : [y EXCEPT !.files = v] \in Task /\ [y EXCEPT !.files = v].etag = requests + 1
  BY <1>2 DEF Task
<1> QED
  BY <1>2, <1>3, <1>4, <1>5 DEF y, NewWrite

\* A task is new, has a new etag, or is as it was, notes and files and all.
Moved(t) ==
  /\ tasks'[t] \in Task /\ tasks'[t].etag <= requests'
  /\ \/ t = NewId
     \/ t \in DOMAIN tasks /\ tasks'[t].etag = NewWrite
     \/ /\ t \in DOMAIN tasks /\ tasks'[t] = tasks[t]
        /\ NoteOn(t)' = NoteOn(t) /\ FilesOf(t)' = FilesOf(t)

\* Then what was read of a task is what it is if the etag still is.
LEMMA RequestMade ==
  ASSUME HoldsOK, EtagNames, DoubleAssumption, requests' = NewWrite, lastRead' = lastRead,
         DOMAIN tasks' \subseteq DOMAIN tasks \cup {NewId}, \A t \in DOMAIN tasks' : Moved(t),
         DOMAIN lists' \subseteq DOMAIN lists \cup {NewId}, lists' = [l \in DOMAIN lists' |-> lists'[l]]
  PROVE  HoldsOK' /\ EtagNames'
<1>1. requests \in Nat /\ requests' \in Nat /\ requests' = requests + 1 /\ FirstNew \in Nat /\ NewId \in Nat /\ NewId' = NewId + 1
  BY DEF HoldsOK, NewWrite, NewId, DoubleAssumption
<1>2. DOMAIN tasks' \subseteq Nat /\ IsFiniteSet(DOMAIN tasks')
  <2>1. IsFiniteSet(DOMAIN tasks \cup {NewId}) /\ DOMAIN tasks \cup {NewId} \subseteq Nat
    BY <1>1, FS_AddElement DEF HoldsOK
  <2> QED
    BY <2>1, FS_Subset
<1>3. DOMAIN lists' \subseteq Nat /\ IsFiniteSet(DOMAIN lists')
  <2>1. IsFiniteSet(DOMAIN lists \cup {NewId}) /\ DOMAIN lists \cup {NewId} \subseteq Nat
    BY <1>1, FS_AddElement DEF HoldsOK
  <2> QED
    BY <2>1, FS_Subset
<1>4. \A t \in DOMAIN tasks' : tasks'[t] \in Task /\ tasks'[t].etag <= requests' /\ t < NewId'
  <2> TAKE t \in DOMAIN tasks'
  <2>1. tasks'[t] \in Task /\ tasks'[t].etag <= requests'
    BY DEF Moved
  <2>2. t \in DOMAIN tasks \/ t = NewId
    OBVIOUS
  <2> QED
    BY <1>1, <2>1, <2>2 DEF HoldsOK
<1>5. /\ lastRead'.id \in Int /\ lastRead'.id < NewId'
      /\ lastRead'.id # Never => lastRead'.task.etag \in Nat /\ lastRead'.task.etag <= requests'
  BY <1>1 DEF HoldsOK, Never
<1>6. HoldsOK'
  BY <1>1, <1>2, <1>3, <1>4, <1>5 DEF HoldsOK
<1>7. ASSUME NEW t, t = lastRead.id, t \in DOMAIN tasks', tasks'[t].etag = lastRead.task.etag
      PROVE  tasks'[t] = lastRead.task /\ NoteOn(t)' = lastRead.note /\ FilesOf(t)' = lastRead.files
  <2>1. t # NewId /\ t \in DOMAIN tasks /\ t # Never
    BY <1>1, <1>7 DEF HoldsOK, Never
  <2>2. tasks'[t].etag # NewWrite
    BY <1>1, <1>7, <2>1 DEF HoldsOK, NewWrite
  <2>3. tasks'[t] = tasks[t] /\ NoteOn(t)' = NoteOn(t) /\ FilesOf(t)' = FilesOf(t)
    BY <1>7, <2>1, <2>2 DEF Moved
  <2> QED
    BY <1>7, <2>1, <2>3 DEF EtagNames
<1> DEFINE u == lastRead.id
<1>8. EtagNames'
  BY <1>7 DEF EtagNames
<1> QED
  BY <1>6, <1>8

\* What the readers know is as it was.
LEMMA ReadersKept ==
  ASSUME TokensOK, WalkOK, ToldAll, UNCHANGED <<deltaHolds, reader>>
  PROVE  TokensOK' /\ WalkOK' /\ ToldAll'
<1>1. UNCHANGED <<tokens, rounds, issued, scope, mirror, token, walking, anew, told, toldGone, reached>>
  BY DEF deltaHolds, reader, walkVars
<1>2. TokensOK'
  BY <1>1 DEF TokensOK
<1>3. WalkOK'
  BY <1>1 DEF WalkOK, RoundOK
<1> QED
  BY <1>1, <1>2, <1>3 DEF ToldAll

\* A request as the lemmas above need it.
Requested ==
  /\ requests' = NewWrite
  /\ UNCHANGED <<deltaHolds, reader, lastRead>>
  /\ DOMAIN tasks' \subseteq DOMAIN tasks \cup {NewId} /\ \A t \in DOMAIN tasks' : Moved(t)
  /\ DOMAIN lists' \subseteq DOMAIN lists \cup {NewId} /\ lists' = [l \in DOMAIN lists' |-> lists'[l]]

\* Lists left as they are.
LEMMA ListsAsTheyWere ==
  ASSUME HoldsOK, UNCHANGED lists
  PROVE  DOMAIN lists' \subseteq DOMAIN lists \cup {NewId} /\ lists' = [l \in DOMAIN lists' |-> lists'[l]]
BY DEF HoldsOK

\* One task written, with a new etag, and nothing beside another moved.
LEMMA TaskWritten ==
  ASSUME HoldsOK, requests' = NewWrite, NEW t \in DOMAIN tasks, NEW x \in Task, x.etag = NewWrite, Store(t, x),
         \A u \in DOMAIN tasks \ {t} : NoteOn(u)' = NoteOn(u) /\ FilesOf(u)' = FilesOf(u)
  PROVE  DOMAIN tasks' \subseteq DOMAIN tasks \cup {NewId} /\ \A u \in DOMAIN tasks' : Moved(u)
<1>1. tasks' = [u \in DOMAIN tasks \cup {t} |-> IF u = t THEN x ELSE tasks[u]]
  BY DEF Store, With
<1>2. DOMAIN tasks' = DOMAIN tasks
  BY <1>1
<1>3. requests \in Nat /\ requests' = requests + 1 /\ NewWrite = requests + 1
  BY DEF HoldsOK, NewWrite
<1>4. ASSUME NEW u \in DOMAIN tasks' PROVE Moved(u)
  <2>1. CASE u = t
    <3>1. tasks'[u] = x
      BY <1>1, <2>1
    <3> QED
      BY <1>2, <1>3, <2>1, <3>1 DEF Moved
  <2>2. CASE u # t
    <3>1. tasks'[u] = tasks[u] /\ u \in DOMAIN tasks
      BY <1>1, <1>2, <2>2
    <3>2. tasks[u] \in Task /\ tasks[u].etag <= requests /\ tasks[u].etag \in Nat
      BY <3>1 DEF HoldsOK, Task
    <3> QED
      BY <1>3, <2>2, <3>1, <3>2 DEF Moved
  <2> QED
    BY <2>1, <2>2
<1> QED
  BY <1>2, <1>4

\* Tasks left as they are, or taken away.
LEMMA TasksFewer ==
  ASSUME HoldsOK, requests' = NewWrite, NEW S, tasks' = Without(tasks, S),
         \A u \in DOMAIN tasks \ S : NoteOn(u)' = NoteOn(u) /\ FilesOf(u)' = FilesOf(u)
  PROVE  DOMAIN tasks' \subseteq DOMAIN tasks \cup {NewId} /\ \A u \in DOMAIN tasks' : Moved(u)
<1>1. tasks' = [u \in DOMAIN tasks \ S |-> tasks[u]]
  BY DEF Without
<1>2. requests \in Nat /\ requests' = requests + 1
  BY DEF HoldsOK, NewWrite
<1>3. ASSUME NEW u \in DOMAIN tasks' PROVE Moved(u)
  <2>1. tasks'[u] = tasks[u] /\ u \in DOMAIN tasks /\ u \notin S
    BY <1>1
  <2>2. tasks[u] \in Task /\ tasks[u].etag <= requests /\ tasks[u].etag \in Nat
    BY <2>1 DEF HoldsOK, Task
  <2> QED
    BY <1>2, <2>1, <2>2 DEF Moved
<1> QED
  BY <1>1, <1>3

\* Tasks left as they are.
LEMMA TasksAsTheyWere ==
  ASSUME HoldsOK, requests' = NewWrite, UNCHANGED taskSide
  PROVE  DOMAIN tasks' \subseteq DOMAIN tasks \cup {NewId} /\ \A u \in DOMAIN tasks' : Moved(u)
<1>1. tasks' = tasks /\ notes' = notes /\ attachments' = attachments
  BY DEF taskSide
<1>2. requests \in Nat /\ requests' = requests + 1
  BY DEF HoldsOK, NewWrite
<1>3. ASSUME NEW u \in DOMAIN tasks' PROVE Moved(u)
  <2>1. tasks'[u] = tasks[u] /\ u \in DOMAIN tasks /\ NoteOn(u)' = NoteOn(u) /\ FilesOf(u)' = FilesOf(u)
    BY <1>1 DEF NoteOn, FilesOf
  <2>2. tasks[u] \in Task /\ tasks[u].etag <= requests /\ tasks[u].etag \in Nat
    BY <2>1 DEF HoldsOK, Task
  <2> QED
    BY <1>2, <2>1, <2>2 DEF Moved
<1> QED
  BY <1>1, <1>3

\* A write to one task's fields or children.
LEMMA OneTask ==
  ASSUME HoldsOK, Lands, OnlyTasks, NEW t \in DOMAIN tasks, NEW x \in Task, x.etag = NewWrite, Store(t, x)
  PROVE  Requested
<1>1. UNCHANGED <<notes, attachments, lists, deltaHolds, reader, lastRead>>
  BY DEF OnlyTasks, listSide, readers
<1>2. \A u \in DOMAIN tasks \ {t} : NoteOn(u)' = NoteOn(u) /\ FilesOf(u)' = FilesOf(u)
  BY <1>1 DEF NoteOn, FilesOf
<1>3. requests' = NewWrite
  BY DEF Lands
<1>4. DOMAIN tasks' \subseteq DOMAIN tasks \cup {NewId} /\ \A u \in DOMAIN tasks' : Moved(u)
  BY <1>2, <1>3, TaskWritten
<1>5. DOMAIN lists' \subseteq DOMAIN lists \cup {NewId} /\ lists' = [l \in DOMAIN lists' |-> lists'[l]]
  BY <1>1, ListsAsTheyWere
<1> QED
  BY <1>1, <1>3, <1>4, <1>5 DEF Requested

\* The requests on steps and links.
LEMMA ChildRequests ==
  ASSUME HoldsOK, NEW t \in DOMAIN tasks, NEW etag
  PROVE  /\ CreateStep(t) \/ CreateLink(t) => Requested
         /\ \A s : UpdateStep(t, etag, s) \/ DeleteStep(t, etag, s) => Requested
         /\ \A empty \in BOOLEAN : UpdateLink(t, etag, empty) => Requested
         /\ DeleteLink(t, etag) => Requested
<1> DEFINE x == tasks[t]
<1>1. x \in Task /\ requests \in Nat /\ NewWrite \in Nat
  BY DEF HoldsOK, NewWrite
<1>2. x.steps \subseteq Nat /\ x.link \in Int
  BY <1>1 DEF Task
<1>3. ASSUME CreateStep(t) PROVE Requested
  <2>1. Store(t, [Bump(x) EXCEPT !.steps = x.steps \cup {NewWrite}]) /\ Lands /\ OnlyTasks
    BY <1>3 DEF CreateStep
  <2>2. x.steps \cup {NewWrite} \in SUBSET Nat
    BY <1>1, <1>2
  <2> HIDE DEF x
  <2> QED
    BY <1>1, <2>1, <2>2, Bumped, OneTask
<1>4. ASSUME CreateLink(t) PROVE Requested
  <2>1. Store(t, [Bump(x) EXCEPT !.link = NewWrite]) /\ Lands /\ OnlyTasks
    BY <1>4 DEF CreateLink
  <2>2. NewWrite \in Int
    BY <1>1
  <2> HIDE DEF x
  <2> QED
    BY <1>1, <2>1, <2>2, Bumped, OneTask
<1>5. ASSUME NEW s, UpdateStep(t, etag, s) PROVE Requested
  <2>1. Store(t, [Bump(x) EXCEPT !.steps = (x.steps \ {s}) \cup {NewWrite}]) /\ Lands /\ OnlyTasks
    BY <1>5 DEF UpdateStep
  <2>2. (x.steps \ {s}) \cup {NewWrite} \in SUBSET Nat
    BY <1>1, <1>2
  <2> HIDE DEF x
  <2> QED
    BY <1>1, <2>1, <2>2, Bumped, OneTask
<1>6. ASSUME NEW s, DeleteStep(t, etag, s) PROVE Requested
  <2>1. Store(t, [Bump(x) EXCEPT !.steps = x.steps \ {s}]) /\ Lands /\ OnlyTasks
    BY <1>6 DEF DeleteStep
  <2>2. x.steps \ {s} \in SUBSET Nat
    BY <1>1, <1>2
  <2> HIDE DEF x
  <2> QED
    BY <1>1, <2>1, <2>2, Bumped, OneTask
<1>7. ASSUME NEW empty \in BOOLEAN, UpdateLink(t, etag, empty) PROVE Requested
  <2> DEFINE v == IF empty THEN x.link ELSE NewWrite
  <2>1. Store(t, [Bump(x) EXCEPT !.link = v]) /\ Lands /\ OnlyTasks
    BY <1>7 DEF UpdateLink
  <2>2. v \in Int
    BY <1>1, <1>2
  <2> HIDE DEF x, v
  <2> QED
    BY <1>1, <2>1, <2>2, Bumped, OneTask
<1>8. ASSUME DeleteLink(t, etag) PROVE Requested
  <2>1. Store(t, [Bump(x) EXCEPT !.link = Never]) /\ Lands /\ OnlyTasks
    BY <1>8 DEF DeleteLink
  <2>2. Never \in Int
    BY DEF Never
  <2> HIDE DEF x
  <2> QED
    BY <1>1, <2>1, <2>2, Bumped, OneTask
<1> QED
  BY <1>3, <1>4, <1>5, <1>6, <1>7, <1>8

\* A task created, with its extension inline or without.
LEMMA TaskMade ==
  ASSUME HoldsOK, NEW l \in DOMAIN lists, NEW steps \in SUBSET Nat, NEW linked \in BOOLEAN, NEW withNote \in BOOLEAN,
         CreateTask(l, steps, linked, withNote)
  PROVE  Requested
<1>1. requests \in Nat /\ NewWrite \in Nat /\ requests' = NewWrite /\ NewWrite = requests + 1 /\ l \in Nat
  BY DEF HoldsOK, NewWrite, CreateTask, Lands
<1>2. UNCHANGED <<attachments, lists, deltaHolds, reader, lastRead>>
  BY DEF CreateTask, listSide, readers
<1> DEFINE k == IF linked THEN NewWrite ELSE Never
           x == [in |-> l, etag |-> NewWrite, steps |-> steps, link |-> k,
                 files |-> FALSE, fields |-> NewWrite, recurs |-> FALSE, due |-> Never]
<1>3. Store(NewId, x)
  BY DEF CreateTask
<1>4. k \in Int /\ Never \in Int
  BY <1>1 DEF Never
<1>5. x \in Task /\ x.etag = NewWrite
  <2> HIDE DEF k
  <2> QED
    BY <1>1, <1>4 DEF Task
<1>6. tasks' = [u \in DOMAIN tasks \cup {NewId} |-> IF u = NewId THEN x ELSE tasks[u]]
  BY <1>3 DEF Store, With
<1> HIDE DEF x
<1>7. ASSUME NEW u \in DOMAIN tasks', u # NewId PROVE NoteOn(u)' = NoteOn(u) /\ FilesOf(u)' = FilesOf(u)
  <2>1. notes' = IF withNote THEN With(notes, NewId, NewWrite) ELSE notes
    BY DEF CreateTask
  <2>2. CASE withNote
    <3>1. notes' = [i \in DOMAIN notes \cup {NewId} |-> IF i = NewId THEN NewWrite ELSE notes[i]]
      BY <2>1, <2>2 DEF With
    <3>2. (u \in DOMAIN notes' <=> u \in DOMAIN notes) /\ (u \in DOMAIN notes => notes'[u] = notes[u])
      BY <1>7, <3>1
    <3> QED
      BY <1>2, <3>2 DEF NoteOn, FilesOf
  <2>3. CASE ~withNote
    BY <1>2, <2>1, <2>3 DEF NoteOn, FilesOf
  <2> QED
    BY <2>2, <2>3
<1>8. ASSUME NEW u \in DOMAIN tasks' PROVE Moved(u)
  <2>1. CASE u = NewId
    <3>1. tasks'[u] = x
      BY <1>6, <2>1
    <3> QED
      BY <1>1, <1>5, <2>1, <3>1 DEF Moved
  <2>2. CASE u # NewId
    <3>1. tasks'[u] = tasks[u] /\ u \in DOMAIN tasks
      BY <1>6, <2>2
    <3>2. tasks[u] \in Task /\ tasks[u].etag <= requests /\ tasks[u].etag \in Nat
      BY <3>1 DEF HoldsOK, Task
    <3> QED
      BY <1>1, <1>7, <2>2, <3>1, <3>2 DEF Moved
  <2> QED
    BY <2>1, <2>2
<1>9. DOMAIN tasks' \subseteq DOMAIN tasks \cup {NewId}
  BY <1>6
<1>10. DOMAIN lists' \subseteq DOMAIN lists \cup {NewId} /\ lists' = [i \in DOMAIN lists' |-> lists'[i]]
  BY <1>2, ListsAsTheyWere
<1> QED
  BY <1>1, <1>2, <1>8, <1>9, <1>10 DEF Requested

\* A task with fields and due date written.
LEMMA FieldsWritten ==
  ASSUME NEW x \in Task, NEW f \in Nat, NEW d \in Int
  PROVE  [x EXCEPT !.fields = f, !.due = d] \in Task /\ [x EXCEPT !.fields = f, !.due = d].etag = x.etag
BY DEF Task

\* A task patched: one task changed, or a new one beside it.
LEMMA TaskPatched ==
  ASSUME HoldsOK, DoubleAssumption, NEW t \in DOMAIN tasks, NEW etag, NEW due, PatchTask(t, etag, due)
  PROVE  Requested
<1> DEFINE task   == tasks[t]
           splits == task.recurs /\ due = "set"
           d      == IF due = "as it is" \/ splits THEN task.due ELSE IF due = "set" THEN NewWrite ELSE Never
           b      == Bump(task)
           merged == [b EXCEPT !.fields = NewWrite, !.due = d]
           w      == NewWrite
           split  == [task EXCEPT !.fields = NewWrite, !.due = w]
<1>1. requests \in Nat /\ NewWrite \in Nat /\ requests' = NewWrite /\ NewWrite = requests + 1
  BY DEF HoldsOK, NewWrite, PatchTask, Lands
<1>2. OnlyTasks /\ tasks' = With(IF splits THEN With(tasks, NewId, split) ELSE tasks, t, merged)
  BY DEF PatchTask
<1>3. UNCHANGED <<notes, attachments, lists, deltaHolds, reader, lastRead>>
  BY <1>2 DEF OnlyTasks, listSide, readers
<1>4. task \in Task /\ task.etag \in Nat /\ task.etag <= requests /\ task.due \in Int
  BY DEF HoldsOK, Task
<1>5. d \in Int
  <2>1. d = task.due \/ d = NewWrite \/ d = Never
    OBVIOUS
  <2> HIDE DEF d, task
  <2> QED
    BY <1>1, <1>4, <2>1 DEF Never
<1>6. b \in Task /\ b.etag = NewWrite
  <2> HIDE DEF task
  <2> QED
    BY <1>1, <1>4, Bumped
<1>7. merged \in Task /\ merged.etag = NewWrite
  <2> HIDE DEF b, d
  <2> QED
    BY <1>1, <1>5, <1>6, FieldsWritten
<1>8. split \in Task /\ split.etag <= requests'
  <2> HIDE DEF task
  <2>0. w \in Int
    BY <1>1
  <2>2. task \in Task /\ NewWrite \in Nat
    BY <1>1, <1>4
  <2> HIDE DEF w
  <2>1. split \in Task /\ split.etag = task.etag
    <3> HIDE DEF merged, b, d, splits
    <3> QED
      BY <2>0, <2>2, FieldsWritten
  <2> QED
    BY <1>1, <1>4, <2>1
<1> DEFINE had == IF splits THEN With(tasks, NewId, split) ELSE tasks
<1>9. /\ DOMAIN had \subseteq DOMAIN tasks \cup {NewId}
      /\ \A u \in DOMAIN had : u # NewId => u \in DOMAIN tasks /\ had[u] = tasks[u]
      /\ NewId \in DOMAIN had => had[NewId] \in Task /\ had[NewId].etag <= requests'
  <2>0. NewId \notin DOMAIN tasks
    BY <1>1 DEF HoldsOK, NewId, DoubleAssumption
  <2> HIDE DEF split, merged
  <2>1. CASE splits
    <3>1. had = [u \in DOMAIN tasks \cup {NewId} |-> IF u = NewId THEN split ELSE tasks[u]]
      BY <2>1 DEF With
    <3> HIDE DEF had
    <3> QED
      BY <1>8, <3>1
  <2>2. CASE ~splits
    <3>1. had = tasks
      BY <2>2
    <3> QED
      BY <3>1, <2>0
  <2> QED
    BY <2>1, <2>2
<1>10. tasks' = [u \in DOMAIN had \cup {t} |-> IF u = t THEN merged ELSE had[u]]
  <2> HIDE DEF merged, split
  <2> QED
    BY <1>2 DEF With
<1> HIDE DEF had, merged, split, b, d, task
<1>11. ASSUME NEW u \in DOMAIN tasks' PROVE Moved(u)
  <2>1. CASE u = t
    <3>1. tasks'[u] = merged
      BY <1>10, <2>1
    <3> QED
      BY <1>1, <1>7, <2>1, <3>1 DEF Moved
  <2>2. CASE u # t
    <3>1. tasks'[u] = had[u] /\ u \in DOMAIN had
      BY <1>10, <2>2
    <3>2. CASE u = NewId
      BY <1>9, <3>1, <3>2 DEF Moved
    <3>3. CASE u # NewId
      <4>1. tasks'[u] = tasks[u] /\ u \in DOMAIN tasks
        BY <1>9, <3>1, <3>3
      <4>2. tasks[u] \in Task /\ tasks[u].etag <= requests /\ tasks[u].etag \in Nat
        BY <4>1 DEF HoldsOK, Task
      <4>3. NoteOn(u)' = NoteOn(u) /\ FilesOf(u)' = FilesOf(u)
        BY <1>3 DEF NoteOn, FilesOf
      <4> QED
        BY <1>1, <4>1, <4>2, <4>3 DEF Moved
    <3> QED
      BY <3>2, <3>3
  <2> QED
    BY <2>1, <2>2
<1>12. DOMAIN tasks' \subseteq DOMAIN tasks \cup {NewId}
  BY <1>9, <1>10
<1>13. DOMAIN lists' \subseteq DOMAIN lists \cup {NewId} /\ lists' = [i \in DOMAIN lists' |-> lists'[i]]
  BY <1>3, ListsAsTheyWere
<1> QED
  BY <1>1, <1>3, <1>11, <1>12, <1>13 DEF Requested

\* A task deleted, with what is kept beside it.
LEMMA TaskDropped ==
  ASSUME HoldsOK, NEW t \in DOMAIN tasks, Lands, DropTask(t), UNCHANGED <<listSide, sessions, readers>>
  PROVE  Requested
<1>1. UNCHANGED <<lists, deltaHolds, reader, lastRead>> /\ requests' = NewWrite
  BY DEF listSide, readers, Lands
<1>2. tasks' = Without(tasks, {t}) /\ attachments' = {a \in attachments : a.task # t} /\ notes' = Without(notes, {t})
  BY DEF DropTask
<1>3. ASSUME NEW u \in DOMAIN tasks \ {t} PROVE NoteOn(u)' = NoteOn(u) /\ FilesOf(u)' = FilesOf(u)
  <2>1. notes' = [i \in DOMAIN notes \ {t} |-> notes[i]]
    BY <1>2 DEF Without
  <2>2. (u \in DOMAIN notes' <=> u \in DOMAIN notes) /\ (u \in DOMAIN notes => notes'[u] = notes[u])
    BY <1>3, <2>1
  <2>3. FilesOf(u)' = FilesOf(u)
    BY <1>2, <1>3 DEF FilesOf
  <2> QED
    BY <2>2, <2>3 DEF NoteOn
<1>4. DOMAIN tasks' \subseteq DOMAIN tasks \cup {NewId} /\ \A u \in DOMAIN tasks' : Moved(u)
  BY <1>1, <1>2, <1>3, TasksFewer
<1>5. DOMAIN lists' \subseteq DOMAIN lists \cup {NewId} /\ lists' = [l \in DOMAIN lists' |-> lists'[l]]
  BY <1>1, ListsAsTheyWere
<1> QED
  BY <1>1, <1>4, <1>5 DEF Requested

\* A write to one task and to what is kept beside it.
LEMMA BesideTask ==
  ASSUME HoldsOK, Lands, UNCHANGED <<lists, readers>>, NEW t \in DOMAIN tasks, NEW x \in Task, x.etag = NewWrite, Store(t, x),
         \A u \in DOMAIN tasks \ {t} : NoteOn(u)' = NoteOn(u) /\ FilesOf(u)' = FilesOf(u)
  PROVE  Requested
<1>1. UNCHANGED <<deltaHolds, reader, lastRead>> /\ requests' = NewWrite
  BY DEF Lands, readers
<1>2. DOMAIN tasks' \subseteq DOMAIN tasks \cup {NewId} /\ \A u \in DOMAIN tasks' : Moved(u)
  BY <1>1, TaskWritten
<1>3. DOMAIN lists' \subseteq DOMAIN lists \cup {NewId} /\ lists' = [l \in DOMAIN lists' |-> lists'[l]]
  BY ListsAsTheyWere
<1> QED
  BY <1>1, <1>2, <1>3 DEF Requested

\* Our extension of one task written or taken away, and the task's etag
\* moved with it if the task is there.
LEMMA NoteMoves ==
  ASSUME HoldsOK, Lands, NEW t, NEW etag, NoteWritten(t, etag), UNCHANGED <<attachments, lists, readers>>,
         \A u \in DOMAIN tasks \ {t} : NoteOn(u)' = NoteOn(u)
  PROVE  Requested
<1>1. \A u \in DOMAIN tasks \ {t} : NoteOn(u)' = NoteOn(u) /\ FilesOf(u)' = FilesOf(u)
  BY DEF FilesOf
<1>2. CASE t \in DOMAIN tasks
  <2> DEFINE x == tasks[t]
  <2>1. x \in Task /\ requests \in Nat
    BY <1>2 DEF HoldsOK
  <2>2. Store(t, Bump(x))
    BY <1>2 DEF NoteWritten
  <2> HIDE DEF x
  <2>3. Bump(x) \in Task /\ Bump(x).etag = NewWrite
    BY <2>1, Bumped
  <2> QED
    BY <1>1, <1>2, <2>2, <2>3, BesideTask
<1>3. CASE t \notin DOMAIN tasks
  <2>1. tasks' = tasks
    BY <1>3 DEF NoteWritten
  <2>2. requests \in Nat /\ requests' = requests + 1 /\ requests' = NewWrite
    BY DEF HoldsOK, NewWrite, Lands
  <2>3. ASSUME NEW u \in DOMAIN tasks' PROVE Moved(u)
    <3>1. u \in DOMAIN tasks \ {t} /\ tasks'[u] = tasks[u]
      BY <1>3, <2>1
    <3>2. tasks[u] \in Task /\ tasks[u].etag <= requests /\ tasks[u].etag \in Nat
      BY <3>1 DEF HoldsOK, Task
    <3> QED
      BY <1>1, <2>2, <3>1, <3>2 DEF Moved
  <2>4. DOMAIN lists' \subseteq DOMAIN lists \cup {NewId} /\ lists' = [l \in DOMAIN lists' |-> lists'[l]]
    BY ListsAsTheyWere
  <2> QED
    BY <2>1, <2>2, <2>3, <2>4 DEF Requested, readers
<1> QED
  BY <1>2, <1>3

\* The requests on our extension.
LEMMA NoteRequests ==
  ASSUME HoldsOK, NEW t, NEW etag
  PROVE  /\ \A upsert \in BOOLEAN : WriteNote(t, etag, upsert) => Requested
         /\ DeleteNote(t, etag) => Requested
<1>1. ASSUME NEW upsert \in BOOLEAN, WriteNote(t, etag, upsert) PROVE Requested
  <2>1. Lands /\ NoteWritten(t, etag) /\ UNCHANGED <<attachments, lists, readers>>
    BY <1>1 DEF WriteNote, listSide
  <2>2. notes' = [i \in DOMAIN notes \cup {t} |-> IF i = t THEN NewWrite ELSE notes[i]]
    BY <1>1 DEF WriteNote, With
  <2>3. \A u \in DOMAIN tasks \ {t} : NoteOn(u)' = NoteOn(u)
    BY <2>2 DEF NoteOn
  <2> QED
    BY <2>1, <2>3, NoteMoves
<1>2. ASSUME DeleteNote(t, etag) PROVE Requested
  <2>1. Lands /\ NoteWritten(t, etag) /\ UNCHANGED <<attachments, lists, readers>>
    BY <1>2 DEF DeleteNote, listSide
  <2>2. notes' = [i \in DOMAIN notes \ {t} |-> notes[i]]
    BY <1>2 DEF DeleteNote, Without
  <2>3. \A u \in DOMAIN tasks \ {t} : NoteOn(u)' = NoteOn(u)
    BY <2>2 DEF NoteOn
  <2> QED
    BY <2>1, <2>3, NoteMoves
<1> QED
  BY <1>1, <1>2

\* An attachment added.
LEMMA FilePut ==
  ASSUME HoldsOK, Lands, NEW t \in DOMAIN tasks, PutFile(t), UNCHANGED <<notes, lists, readers>>
  PROVE  Requested
<1> DEFINE x == tasks[t]
           y == [Bump(x) EXCEPT !.files = TRUE]
<1>0. x \in Task /\ requests \in Nat
  BY DEF HoldsOK
<1>1. y \in Task /\ y.etag = NewWrite
  <2> HIDE DEF x
  <2> QED
    BY <1>0, Bumped
<1>2. Store(t, y) /\ attachments' = attachments \cup {[task |-> t, id |-> NewWrite]}
  BY DEF PutFile
<1>3. \A u \in DOMAIN tasks \ {t} : NoteOn(u)' = NoteOn(u) /\ FilesOf(u)' = FilesOf(u)
  BY <1>2 DEF NoteOn, FilesOf
<1> HIDE DEF y
<1> QED
  BY <1>1, <1>2, <1>3, BesideTask

\* An attachment deleted.
LEMMA FileDropped ==
  ASSUME HoldsOK, NEW a, DropFile(a)
  PROVE  Requested
<1>1. Lands /\ UNCHANGED <<notes, lists, readers>> /\ attachments' = attachments \ {a}
  BY DEF DropFile, listSide
<1>2. \A u : u # a.task => NoteOn(u)' = NoteOn(u) /\ FilesOf(u)' = FilesOf(u)
  BY <1>1 DEF NoteOn, FilesOf
<1>3. CASE a.task \in DOMAIN tasks
  <2> DEFINE x == tasks[a.task]
             v == \E b \in attachments \ {a} : b.task = a.task
             y == [Bump(x) EXCEPT !.files = v]
  <2>0. x \in Task /\ requests \in Nat
    BY <1>3 DEF HoldsOK
  <2>v. v \in BOOLEAN
    OBVIOUS
  <2>2. Store(a.task, y)
    BY <1>3 DEF DropFile
  <2>1. y \in Task /\ y.etag = NewWrite
    <3> HIDE DEF x, v
    <3> QED
      BY <2>0, <2>v, Bumped
  <2>3. \A u \in DOMAIN tasks \ {a.task} : NoteOn(u)' = NoteOn(u) /\ FilesOf(u)' = FilesOf(u)
    BY <1>2
  <2> HIDE DEF y
  <2> QED
    BY <1>1, <1>3, <2>1, <2>2, <2>3, BesideTask
<1>4. CASE a.task \notin DOMAIN tasks
  <2>1. tasks' = tasks /\ requests' = NewWrite /\ UNCHANGED <<deltaHolds, reader, lastRead>>
    BY <1>1, <1>4 DEF DropFile, Lands, readers
  <2>2. requests \in Nat /\ NewWrite = requests + 1
    BY DEF HoldsOK, NewWrite
  <2>3. ASSUME NEW u \in DOMAIN tasks PROVE Moved(u)
    <3>1. u # a.task
      BY <1>4
    <3>2. tasks'[u] = tasks[u] /\ NoteOn(u)' = NoteOn(u) /\ FilesOf(u)' = FilesOf(u)
      BY <1>2, <2>1, <3>1
    <3>3. tasks[u] \in Task /\ tasks[u].etag <= requests /\ tasks[u].etag \in Nat
      BY DEF HoldsOK, Task
    <3> QED
      BY <2>1, <2>2, <3>2, <3>3 DEF Moved
  <2>5. DOMAIN tasks' \subseteq DOMAIN tasks \cup {NewId} /\ \A u \in DOMAIN tasks' : Moved(u)
    BY <2>1, <2>3
  <2>6. DOMAIN lists' \subseteq DOMAIN lists \cup {NewId} /\ lists' = [l \in DOMAIN lists' |-> lists'[l]]
    BY <1>1, ListsAsTheyWere
  <2> QED
    BY <2>1, <2>5, <2>6 DEF Requested
<1> QED
  BY <1>3, <1>4

\* The requests on upload sessions.
LEMMA SessionRequests ==
  ASSUME HoldsOK
  PROVE  /\ \A t, size : OpenSession(t, size) => Requested
         /\ \A s, from : PutChunk(s, from) => Requested
         /\ ExpireSessions => Requested
<1>1. ASSUME Lands, UNCHANGED <<taskSide, lists, readers>> PROVE Requested
  <2>1. requests' = NewWrite /\ UNCHANGED <<deltaHolds, reader, lastRead>>
    BY <1>1 DEF Lands, readers
  <2>2. DOMAIN tasks' \subseteq DOMAIN tasks \cup {NewId} /\ \A u \in DOMAIN tasks' : Moved(u)
    BY <1>1, <2>1, TasksAsTheyWere
  <2>3. DOMAIN lists' \subseteq DOMAIN lists \cup {NewId} /\ lists' = [l \in DOMAIN lists' |-> lists'[l]]
    BY <1>1, ListsAsTheyWere
  <2> QED
    BY <2>1, <2>2, <2>3 DEF Requested
<1>2. ASSUME NEW t, NEW size, OpenSession(t, size) PROVE Requested
  <2>1. Lands /\ UNCHANGED <<taskSide, lists, readers>>
    BY <1>2 DEF OpenSession, listSide
  <2> QED
    BY <1>1, <2>1
<1>3. ASSUME ExpireSessions PROVE Requested
  <2>1. Lands /\ UNCHANGED <<taskSide, lists, readers>>
    BY <1>3 DEF ExpireSessions, listSide
  <2> QED
    BY <1>1, <2>1
<1>4. ASSUME NEW s, NEW from, PutChunk(s, from) PROVE Requested
  <2>1. Lands /\ UNCHANGED <<notes, lists, readers>>
    BY <1>4 DEF PutChunk, listSide
  <2>2. CASE UNCHANGED <<tasks, attachments>>
    <3>1. UNCHANGED taskSide
      BY <2>1, <2>2 DEF taskSide
    <3> QED
      BY <1>1, <2>1, <3>1
  <2>3. CASE sessions[s].task \in DOMAIN tasks /\ PutFile(sessions[s].task)
    BY <2>1, <2>3, FilePut
  <2>4. UNCHANGED <<tasks, attachments>> \/ (sessions[s].task \in DOMAIN tasks /\ PutFile(sessions[s].task))
    BY <1>4 DEF PutChunk
  <2> QED
    BY <2>2, <2>3, <2>4
<1> QED
  BY <1>2, <1>3, <1>4

\* A write to a list, to an extension or to the categories.
LEMMA ListWritten ==
  ASSUME HoldsOK, DoubleAssumption, Lands, UNCHANGED <<taskSide, readers>>, NEW l \in DOMAIN lists \cup {NewId}, NEW v,
         lists' = With(lists, l, v) \/ lists' = lists
  PROVE  Requested
<1>1. requests' = NewWrite /\ UNCHANGED <<deltaHolds, reader, lastRead>>
  BY DEF Lands, readers
<1>2. DOMAIN tasks' \subseteq DOMAIN tasks \cup {NewId} /\ \A u \in DOMAIN tasks' : Moved(u)
  BY <1>1, TasksAsTheyWere
<1>3. DOMAIN lists' \subseteq DOMAIN lists \cup {NewId} /\ lists' = [i \in DOMAIN lists' |-> lists'[i]]
  <2>1. CASE lists' = With(lists, l, v)
    <3>1. lists' = [i \in DOMAIN lists \cup {l} |-> IF i = l THEN v ELSE lists[i]]
      BY <2>1 DEF With
    <3> QED
      BY <3>1
  <2>2. CASE lists' = lists
    BY <2>2, ListsAsTheyWere
  <2> QED
    BY <2>1, <2>2
<1> QED
  BY <1>1, <1>2, <1>3 DEF Requested

\* A list deleted, with its tasks.
LEMMA ListDeleted ==
  ASSUME HoldsOK, NEW l \in DOMAIN lists, DeleteList(l)
  PROVE  Requested
<1>1. requests' = NewWrite /\ UNCHANGED <<deltaHolds, reader, lastRead, notes, attachments>>
  BY DEF DeleteList, Lands, readers
<1>2. \A u : NoteOn(u)' = NoteOn(u) /\ FilesOf(u)' = FilesOf(u)
  BY <1>1 DEF NoteOn, FilesOf
<1>3. tasks' = Without(tasks, {t \in DOMAIN tasks : tasks[t].in = l})
  BY DEF DeleteList
<1>4. DOMAIN tasks' \subseteq DOMAIN tasks \cup {NewId} /\ \A u \in DOMAIN tasks' : Moved(u)
  BY <1>1, <1>2, <1>3, TasksFewer
<1>5. lists' = [i \in DOMAIN lists \ {l} |-> lists[i]]
  BY DEF DeleteList, Without
<1>6. DOMAIN lists' \subseteq DOMAIN lists \cup {NewId} /\ lists' = [i \in DOMAIN lists' |-> lists'[i]]
  BY <1>5
<1> QED
  BY <1>1, <1>4, <1>6 DEF Requested

\* The requests on lists, categories and other extensions.
LEMMA CatalogRequests ==
  ASSUME HoldsOK, DoubleAssumption, CatalogRequest
  PROVE  Requested
<1>n. NewId \in DOMAIN lists \cup {NewId}
  OBVIOUS
<1>1. CASE CreateList
  BY <1>n, <1>1, ListWritten DEF CreateList
<1>2. CASE \E l \in DOMAIN lists : UpdateList(l) \/ DeleteList(l)
  <2>1. PICK l \in DOMAIN lists : UpdateList(l) \/ DeleteList(l)
    BY <1>2
  <2>2. CASE UpdateList(l)
    BY <2>2, ListWritten DEF UpdateList
  <2>3. CASE DeleteList(l)
    BY <2>3, ListDeleted
  <2> QED
    BY <2>1, <2>2, <2>3
<1>3. CASE (\E l \in DOMAIN lists \cup TestLists, upsert \in BOOLEAN : WriteListNote(l, upsert))
           \/ \E l \in listNotes : DeleteListNote(l)
  <2>1. PICK l : (\E upsert \in BOOLEAN : WriteListNote(l, upsert)) \/ DeleteListNote(l)
    BY <1>3
  <2>2. Lands /\ lists' = ListBumped(l) /\ UNCHANGED <<taskSide, readers>>
    BY <2>1 DEF WriteListNote, DeleteListNote
  <2>3. CASE l \in DOMAIN lists
    BY <2>2, <2>3, ListWritten DEF ListBumped
  <2>4. CASE l \notin DOMAIN lists
    BY <1>n, <2>2, <2>4, ListWritten DEF ListBumped
  <2> QED
    BY <2>3, <2>4
<1>4. CASE \E owner \in DOMAIN tasks \cup DOMAIN lists : WriteNamed(owner)
  BY <1>n, <1>4, ListWritten DEF WriteNamed
<1>5. CASE \E name \in Names : CreateCategory(name)
  BY <1>n, <1>5, ListWritten DEF CreateCategory
<1>6. CASE \E c \in DOMAIN categories : UpdateCategory(c) \/ DeleteCategory(c)
  BY <1>n, <1>6, ListWritten DEF UpdateCategory, DeleteCategory
<1> QED
  BY <1>1, <1>2, <1>3, <1>4, <1>5, <1>6 DEF CatalogRequest

\* The requests on tasks and what belongs to them.
LEMMA TaskRequests ==
  ASSUME HoldsOK, DoubleAssumption, TaskRequest
  PROVE  Requested
<1>1. CASE \E l \in DOMAIN lists, steps \in {{}, {NewWrite}}, linked, withNote \in BOOLEAN :
             CreateTask(l, steps, linked, withNote)
  <2>1. \A steps \in {{}, {NewWrite}} : steps \in SUBSET Nat
    BY DEF HoldsOK, NewWrite
  <2> QED
    BY <1>1, <2>1, TaskMade
<1>2. CASE \E t \in DOMAIN tasks, etag \in Etags :
             \/ \E due \in {"as it is", "set", "cleared"} : PatchTask(t, etag, due)
             \/ ConditionalDelete(t, etag) \/ DeleteLink(t, etag)
             \/ \E s \in tasks[t].steps : UpdateStep(t, etag, s) \/ DeleteStep(t, etag, s)
             \/ \E empty \in BOOLEAN : UpdateLink(t, etag, empty)
  <2>1. PICK t \in DOMAIN tasks, etag \in Etags :
             \/ \E due \in {"as it is", "set", "cleared"} : PatchTask(t, etag, due)
             \/ ConditionalDelete(t, etag) \/ DeleteLink(t, etag)
             \/ \E s \in tasks[t].steps : UpdateStep(t, etag, s) \/ DeleteStep(t, etag, s)
             \/ \E empty \in BOOLEAN : UpdateLink(t, etag, empty)
    BY <1>2
  <2>2. CASE \E due \in {"as it is", "set", "cleared"} : PatchTask(t, etag, due)
    BY <2>2, TaskPatched
  <2>3. CASE ConditionalDelete(t, etag)
    BY <2>3, TaskDropped DEF ConditionalDelete
  <2>4. CASE DeleteLink(t, etag) \/ \E s \in tasks[t].steps : UpdateStep(t, etag, s) \/ DeleteStep(t, etag, s)
    BY <2>4, ChildRequests
  <2>5. CASE \E empty \in BOOLEAN : UpdateLink(t, etag, empty)
    BY <2>5, ChildRequests
  <2> QED
    BY <2>1, <2>2, <2>3, <2>4, <2>5
<1>3. CASE \E t \in DOMAIN tasks : \/ DeleteTask(t) \/ CreateStep(t) \/ CreateLink(t) \/ PostAttachment(t)
                                   \/ \E size \in 0 .. 2 : OpenSession(t, size)
  <2>1. PICK t \in DOMAIN tasks : \/ DeleteTask(t) \/ CreateStep(t) \/ CreateLink(t) \/ PostAttachment(t)
                                  \/ \E size \in 0 .. 2 : OpenSession(t, size)
    BY <1>3
  <2>2. CASE DeleteTask(t)
    BY <2>2, TaskDropped DEF DeleteTask
  <2>3. CASE CreateStep(t) \/ CreateLink(t)
    BY <2>3, ChildRequests
  <2>4. CASE PostAttachment(t)
    BY <2>4, FilePut DEF PostAttachment, listSide
  <2>5. CASE \E size \in 0 .. 2 : OpenSession(t, size)
    BY <2>5, SessionRequests
  <2> QED
    BY <2>1, <2>2, <2>3, <2>4, <2>5
<1>4. CASE \E a \in attachments : DropFile(a)
  BY <1>4, FileDropped
<1>5. CASE \E s \in DOMAIN sessions, from \in 0 .. 1 : PutChunk(s, from)
  BY <1>5, SessionRequests
<1>6. CASE ExpireSessions
  BY <1>6, SessionRequests
<1>7. CASE \E t \in DOMAIN tasks \cup TestTasks, etag \in Etags :
             DeleteNote(t, etag) \/ \E upsert \in BOOLEAN : WriteNote(t, etag, upsert)
  BY <1>7, NoteRequests
<1> QED
  BY <1>1, <1>2, <1>3, <1>4, <1>5, <1>6, <1>7 DEF TaskRequest

-----------------------------------------------------------------------------
(* Reading.                                                                *)

\* A round has finitely many items, in the order of their IDs.
LEMMA RoundItems ==
  ASSUME NEW past, NEW present, DOMAIN past \subseteq Nat, IsFiniteSet(DOMAIN past),
         DOMAIN present \subseteq Nat, IsFiniteSet(DOMAIN present)
  PROVE  LET round == Since(past, present)
         IN  /\ Items(round) \subseteq Nat /\ IsFiniteSet(Items(round))
             /\ round.changed = [i \in DOMAIN round.changed |-> round.changed[i]]
<1> DEFINE round == Since(past, present)
           D == {j \in DOMAIN present : j \notin DOMAIN past \/ past[j] # present[j]}
<1>1. round.changed = [i \in D |-> present[i]] /\ round.removed = DOMAIN past \ DOMAIN present
  BY DEF Since
<1>2. DOMAIN round.changed = D
  BY <1>1
<1>3. round.changed = [i \in DOMAIN round.changed |-> round.changed[i]]
  BY <1>1
<1>4. Items(round) \subseteq DOMAIN past \cup DOMAIN present
  BY <1>1, <1>2 DEF Items
<1>5. DOMAIN past \cup DOMAIN present \subseteq Nat /\ IsFiniteSet(DOMAIN past \cup DOMAIN present)
  BY FS_Union
<1>6. Items(round) \subseteq Nat /\ IsFiniteSet(Items(round))
  BY <1>4, <1>5, FS_Subset
<1> QED
  BY <1>3, <1>6

\* What a scope holds can be read whole.
LEMMA ScopeHolds ==
  ASSUME HoldsOK, NEW s
  PROVE  /\ Scope(s) = [i \in DOMAIN Scope(s) |-> Scope(s)[i]]
         /\ DOMAIN Scope(s) \subseteq Nat /\ IsFiniteSet(DOMAIN Scope(s))
<1>1. CASE s = TheLists
  BY <1>1 DEF Scope, HoldsOK
<1>2. CASE s # TheLists
  <2> DEFINE D == {u \in DOMAIN tasks : tasks[u].in = s}
  <2>1. Scope(s) = [t \in D |-> tasks[t]]
    BY <1>2 DEF Scope
  <2>2. D \subseteq Nat /\ IsFiniteSet(D)
    BY FS_Subset DEF HoldsOK
  <2> HIDE DEF D
  <2> QED
    BY <2>1, <2>2
<1> QED
  BY <1>1, <1>2

\* A round begun, with a token or without.
LEMMA RoundBegun ==
  ASSUME HoldsOK, TokensOK, ToldAll, DoubleAssumption, BeginRound
  PROVE  TokensOK' /\ WalkOK' /\ ToldAll'
<1> DEFINE was   == IF token = Never THEN NothingThere ELSE tokens[token].held
           past  == IF token = Never THEN NothingThere ELSE mirror
           holds   == Scope(scope)
           round == Since(was, holds)
<1>1. /\ token = Never \/ Known(token, scope)
      /\ tokens' = With(tokens, issued, [scope |-> scope, held |-> holds])
      /\ rounds' = With(rounds, issued, round)
      /\ issued' = issued + 1
      /\ anew' = (token = Never)
      /\ TakePage(issued, round, past, NothingThere, {}, 0)
      /\ scope' = scope
  BY DEF BeginRound
<1>2. was = past
  BY <1>1 DEF ToldAll, Known
<1>3. DOMAIN past \subseteq Nat /\ IsFiniteSet(DOMAIN past)
  <2>1. DOMAIN NothingThere = {}
    BY DEF NothingThere
  <2> QED
    BY <2>1, FS_EmptySet DEF TokensOK
<1>4. /\ holds = [i \in DOMAIN holds |-> holds[i]]
      /\ DOMAIN holds \subseteq Nat /\ IsFiniteSet(DOMAIN holds)
  BY ScopeHolds
<1> HIDE DEF was, past, holds
<1>5. /\ Items(round) \subseteq Nat /\ IsFiniteSet(Items(round))
      /\ round.changed = [i \in DOMAIN round.changed |-> round.changed[i]]
  BY <1>2, <1>3, <1>4, RoundItems
<1>6. round = Since(past, holds)
  BY <1>2
<1> HIDE DEF round
<1>7. ToldSoFar(round, NothingThere, {}, 0)
  BY <1>5, NoneTold
<1>8. issued \in Nat /\ issued' \in Nat /\ issued \in 0 .. issued' - 1 /\ token \in -1 .. issued' - 1
      /\ issued \notin DOMAIN tokens /\ issued # token /\ token < issued
  BY <1>1 DEF TokensOK
<1>9. tokens' = [k \in DOMAIN tokens \cup {issued} |-> IF k = issued THEN [scope |-> scope, held |-> holds] ELSE tokens[k]]
  BY <1>1 DEF With
<1>10. DOMAIN tokens' = DOMAIN tokens \cup {issued} /\ tokens'[issued] = [scope |-> scope, held |-> holds]
       /\ \A k \in DOMAIN tokens : tokens'[k] = tokens[k]
  BY <1>8, <1>9
<1>11. DOMAIN tokens' \subseteq 0 .. issued' - 1
  BY <1>1, <1>8, <1>10 DEF TokensOK
<1>12. \A k \in DOMAIN tokens' : tokens'[k].held = [i \in DOMAIN tokens'[k].held |-> tokens'[k].held[i]]
  <2> TAKE k \in DOMAIN tokens'
  <2>1. CASE k = issued
    <3>1. tokens'[k].held = holds
      BY <1>10, <2>1
    <3> QED
      BY <1>4, <3>1
  <2>2. CASE k # issued
    <3>1. tokens'[k] = tokens[k] /\ k \in DOMAIN tokens
      BY <1>10, <2>2
    <3> QED
      BY <3>1 DEF TokensOK
  <2> QED
    BY <2>1, <2>2
<1>13. rounds' = [k \in DOMAIN rounds \cup {issued} |-> IF k = issued THEN round ELSE rounds[k]]
  BY <1>1 DEF With
<1>14. rounds'[issued] = round
  BY <1>13
<1>15. past = IF anew' THEN NothingThere ELSE mirror
  BY <1>1 DEF past
<1>16. DOMAIN mirror \subseteq Nat /\ IsFiniteSet(DOMAIN mirror)
  BY DEF TokensOK
<1>17. token \in DOMAIN tokens' => tokens'[token] = [scope |-> scope', held |-> mirror]
  BY <1>1, <1>8, <1>10 DEF ToldAll
<1>18. tokens'[issued].held = holds /\ tokens'[issued] = [scope |-> scope', held |-> tokens'[issued].held]
  BY <1>1, <1>10
<1>19. round = Since(past, tokens'[issued].held)
  BY <1>6, <1>18
<1>20. TakePage(issued, round, past, NothingThere, {}, 0)
  BY <1>1
<1> HIDE DEF past
<1> QED
  BY <1>7, <1>8, <1>11, <1>12, <1>14, <1>15, <1>16, <1>17, <1>18, <1>19, <1>20, PageStep, DoubleAssumption, ZenonT(60)

\* The next page of a round.
LEMMA PageAsked ==
  ASSUME TokensOK, WalkOK, ToldAll, DoubleAssumption, NextPage
  PROVE  TokensOK' /\ WalkOK' /\ ToldAll'
<1> DEFINE past  == IF anew THEN NothingThere ELSE mirror
           round == rounds[walking]
<1>1. /\ walking # Never
      /\ TakePage(walking, round, past, told, toldGone, reached)
      /\ UNCHANGED <<deltaHolds, scope, anew>>
  BY DEF NextPage
<1>2. UNCHANGED <<tokens, rounds, issued, scope, anew>>
  BY <1>1 DEF deltaHolds
<1>3. /\ walking \in 0 .. issued - 1
      /\ ToldSoFar(round, told, toldGone, reached)
      /\ RoundOK(walking, round, past)
  BY <1>1 DEF WalkOK
<1>4. past = IF anew' THEN NothingThere ELSE mirror
  BY <1>2
<1>5. rounds'[walking] = round
  BY <1>2
<1> HIDE DEF past, round
<1>6. walking \in DOMAIN tokens' =>
           /\ tokens'[walking] = [scope |-> scope', held |-> tokens'[walking].held]
           /\ round = Since(past, tokens'[walking].held)
  BY <1>2, <1>3 DEF RoundOK
<1>7. issued' \in Nat /\ walking \in 0 .. issued' - 1 /\ token \in -1 .. issued' - 1
      /\ DOMAIN tokens' \subseteq 0 .. issued' - 1 /\ DOMAIN mirror \subseteq Nat /\ IsFiniteSet(DOMAIN mirror)
  BY <1>2, <1>3 DEF TokensOK
<1>8. \A k \in DOMAIN tokens' : tokens'[k].held = [i \in DOMAIN tokens'[k].held |-> tokens'[k].held[i]]
  BY <1>2 DEF TokensOK
<1>9. token \in DOMAIN tokens' => tokens'[token] = [scope |-> scope', held |-> mirror]
  BY <1>2 DEF ToldAll
<1> QED
  BY <1>1, <1>3, <1>4, <1>5, <1>6, <1>7, <1>8, <1>9, PageStep, DoubleAssumption, ZenonT(60)

\* A round given up or refused, a token forgotten, a request made to fail.
LEMMA RoundBroken ==
  ASSUME TokensOK, WalkOK, ToldAll,
         GiveUpRound \/ TokenRefused \/ RoundFails \/ FailDelta(scope) \/ ForgetTokens
  PROVE  TokensOK' /\ WalkOK' /\ ToldAll'
<1>1. CASE GiveUpRound
  <2>1. walking' = Never /\ UNCHANGED <<tokens, issued, scope, mirror, token>>
    BY <1>1 DEF GiveUpRound
  <2> QED
    BY <2>1 DEF TokensOK, WalkOK, ToldAll
<1>2. CASE TokenRefused
  <2>1. walking = Never /\ token' = Never /\ UNCHANGED <<tokens, issued, scope, mirror, walking>>
    BY <1>2 DEF TokenRefused, walkVars
  <2>2. token' = -1 /\ token' \notin DOMAIN tokens' /\ token' \in -1 .. issued' - 1
    BY <2>1 DEF Never, TokensOK
  <2> QED
    BY <2>1, <2>2 DEF TokensOK, WalkOK, ToldAll
<1>3. CASE RoundFails \/ FailDelta(scope)
  <2>1. UNCHANGED <<tokens, rounds, issued, scope, mirror, token, walking, anew, told, toldGone, reached>>
    BY <1>3 DEF RoundFails, FailDelta, reader, walkVars
  <2> QED
    BY <2>1 DEF TokensOK, WalkOK, RoundOK, ToldAll
<1>4. CASE ForgetTokens
  <2>1. tokens' = NothingThere /\ UNCHANGED <<rounds, issued, scope, mirror, token, walking, anew, told, toldGone, reached>>
    BY <1>4 DEF ForgetTokens, reader, walkVars
  <2>2. DOMAIN tokens' = {}
    BY <2>1 DEF NothingThere
  <2> QED
    BY <2>1, <2>2 DEF TokensOK, WalkOK, RoundOK, ToldAll
<1> QED
  BY <1>1, <1>2, <1>3, <1>4

\* What a round does to what the double holds, and a read to what was read.
LEMMA OnlyRead ==
  ASSUME HoldsOK, EtagNames, UNCHANGED <<graphHolds, requests, lastRead>>
  PROVE  HoldsOK' /\ EtagNames'
<1>1. UNCHANGED <<lists, tasks, notes, attachments>>
  BY DEF graphHolds, taskSide, listSide
<1>2. HoldsOK'
  BY <1>1 DEF HoldsOK, NewId
<1>3. EtagNames'
  BY <1>1 DEF EtagNames, NoteOn, FilesOf
<1> QED
  BY <1>2, <1>3

\* A task read.
LEMMA TaskRead ==
  ASSUME HoldsOK, DoubleAssumption, NEW t \in DOMAIN tasks, GetTask(t)
  PROVE  HoldsOK' /\ EtagNames'
<1>1. /\ UNCHANGED <<lists, tasks, notes, attachments, requests>>
      /\ lastRead' = [id |-> t, task |-> tasks[t], note |-> NoteOn(t), files |-> FilesOf(t)]
  BY DEF GetTask, graphHolds, taskSide, listSide
<1>2. tasks[t] \in Task /\ tasks[t].etag <= requests /\ tasks[t].etag \in Nat /\ t \in Nat /\ t < NewId
  BY DEF HoldsOK, Task
<1>3. lastRead'.id = t /\ lastRead'.task = tasks[t] /\ lastRead'.note = NoteOn(t) /\ lastRead'.files = FilesOf(t)
  BY <1>1
<1>4. NewId' = NewId /\ NoteOn(t)' = NoteOn(t) /\ FilesOf(t)' = FilesOf(t)
  BY <1>1 DEF NewId, NoteOn, FilesOf
<1>5. HoldsOK'
  BY <1>1, <1>2, <1>3, <1>4 DEF HoldsOK
<1>6. EtagNames'
  BY <1>1, <1>3, <1>4 DEF EtagNames
<1> QED
  BY <1>5, <1>6

-----------------------------------------------------------------------------

\* The invariant holds at first ...
LEMMA DoubleStarts == DoubleInit => DoubleInv
<1> SUFFICES ASSUME DoubleInit PROVE DoubleInv
  OBVIOUS
<1> USE DoubleAssumption
<1>1. FirstNew \in Nat /\ IsFiniteSet(TestLists) /\ IsFiniteSet(TestTasks) /\ TestLists \cup TestTasks \subseteq 1 .. FirstNew - 1
  BY DEF DoubleAssumption
<1>2. requests = 0 /\ issued = 0 /\ token = -1 /\ walking = -1 /\ lastRead = [id |-> -1] /\ NewId = FirstNew
  BY <1>1 DEF DoubleInit, Never, NewId
<1>3. DOMAIN NothingThere = {} /\ IsFiniteSet({})
  BY FS_EmptySet DEF NothingThere
<1>4. lists = [l \in TestLists |-> [name |-> 0, etag |-> 0]] /\ tokens = NothingThere /\ mirror = NothingThere
  BY DEF DoubleInit
<1>5. PICK home \in [TestTasks -> TestLists] :
        tasks = [t \in TestTasks |->
                  [in |-> home[t], etag |-> 0, steps |-> {}, link |-> Never, files |-> FALSE,
                   fields |-> 0, recurs |-> t \in Recurring, due |-> Never]]
  BY DEF DoubleInit
<1>6. \A t \in TestTasks : home[t] \in Nat /\ t \in Nat /\ t < NewId /\ (t \in Recurring) \in BOOLEAN
  BY <1>1, <1>2
<1>7. DOMAIN tasks = TestTasks /\ DOMAIN lists = TestLists /\ lists = [l \in DOMAIN lists |-> lists[l]]
  BY <1>4, <1>5
<1>8. \A t \in DOMAIN tasks : tasks[t] \in Task /\ tasks[t].etag <= requests /\ t < NewId
  <2> TAKE t \in DOMAIN tasks
  <2> DEFINE r == t \in Recurring
  <2>1. tasks[t] = [in |-> home[t], etag |-> 0, steps |-> {}, link |-> -1, files |-> FALSE,
                    fields |-> 0, recurs |-> r, due |-> -1]
    BY <1>5, <1>7 DEF Never
  <2>2. r \in BOOLEAN /\ home[t] \in Nat
    BY <1>6, <1>7
  <2>3. tasks[t].etag = 0 /\ t < NewId
    BY <1>6, <1>7, <2>1
  <2>4. tasks[t] \in Task
    <3> HIDE DEF r
    <3> QED
      BY <2>1, <2>2 DEF Task
  <2> QED
    BY <1>2, <2>3, <2>4
<1>9. HoldsOK
  BY <1>1, <1>2, <1>7, <1>8 DEF HoldsOK, Never
<1>10. TokensOK
  BY <1>2, <1>3, <1>4 DEF TokensOK
<1>11. WalkOK
  BY <1>2 DEF WalkOK, Never
<1>12. DoubleTrue
  <2>1. token \notin DOMAIN tokens
    BY <1>3, <1>4
  <2>2. lastRead.id \notin DOMAIN tasks
    BY <1>1, <1>2, <1>7
  <2> QED
    BY <2>1, <2>2 DEF DoubleTrue, ToldAll, EtagNames
<1> QED
  BY <1>9, <1>10, <1>11, <1>12 DEF DoubleInv

\* ... and every step keeps it.
LEMMA DoubleStep == DoubleInv /\ [DoubleNext]_doubleVars => DoubleInv'
<1> SUFFICES ASSUME DoubleInv, [DoubleNext]_doubleVars PROVE DoubleInv'
  OBVIOUS
<1> USE DoubleAssumption
<1>0. HoldsOK /\ TokensOK /\ WalkOK /\ ToldAll /\ EtagNames
  BY DEF DoubleInv, DoubleTrue
<1>1. CASE TaskRequest \/ CatalogRequest
  <2>1. Requested
    BY <1>0, <1>1, TaskRequests, CatalogRequests
  <2>2. HoldsOK' /\ EtagNames'
    BY <1>0, <2>1, RequestMade DEF Requested
  <2>3. TokensOK' /\ WalkOK' /\ ToldAll'
    BY <1>0, <2>1, ReadersKept DEF Requested
  <2> QED
    BY <2>2, <2>3 DEF DoubleInv, DoubleTrue
<1>2. CASE Reading
  <2>1. CASE \E t \in DOMAIN tasks : GetTask(t)
    <3>1. PICK t \in DOMAIN tasks : GetTask(t)
      BY <2>1
    <3>2. HoldsOK' /\ EtagNames'
      BY <1>0, <3>1, TaskRead
    <3>3. TokensOK' /\ WalkOK' /\ ToldAll'
      BY <1>0, <3>1, ReadersKept DEF GetTask
    <3> QED
      BY <3>2, <3>3 DEF DoubleInv, DoubleTrue
  <2>2. CASE BeginRound
    <3>1. HoldsOK' /\ EtagNames'
      BY <1>0, <2>2, OnlyRead DEF BeginRound
    <3>2. TokensOK' /\ WalkOK' /\ ToldAll'
      BY <1>0, <2>2, RoundBegun
    <3> QED
      BY <3>1, <3>2 DEF DoubleInv, DoubleTrue
  <2>3. CASE NextPage
    <3>1. HoldsOK' /\ EtagNames'
      BY <1>0, <2>3, OnlyRead DEF NextPage
    <3>2. TokensOK' /\ WalkOK' /\ ToldAll'
      BY <1>0, <2>3, PageAsked
    <3> QED
      BY <3>1, <3>2 DEF DoubleInv, DoubleTrue
  <2>4. CASE GiveUpRound \/ TokenRefused \/ RoundFails \/ FailDelta(scope) \/ ForgetTokens
    <3>1. UNCHANGED <<graphHolds, requests, lastRead>>
      BY <2>4 DEF GiveUpRound, TokenRefused, RoundFails, FailDelta, ForgetTokens
    <3>2. HoldsOK' /\ EtagNames'
      BY <1>0, <3>1, OnlyRead
    <3>3. TokensOK' /\ WalkOK' /\ ToldAll'
      BY <1>0, <2>4, RoundBroken
    <3> QED
      BY <3>2, <3>3 DEF DoubleInv, DoubleTrue
  <2> QED
    BY <1>2, <2>1, <2>2, <2>3, <2>4 DEF Reading
<1>3. CASE UNCHANGED doubleVars
  <2>1. UNCHANGED <<graphHolds, requests, lastRead, deltaHolds, reader>>
    BY <1>3 DEF doubleVars, readers
  <2>2. HoldsOK' /\ EtagNames'
    BY <1>0, <2>1, OnlyRead
  <2>3. TokensOK' /\ WalkOK' /\ ToldAll'
    BY <1>0, <2>1, ReadersKept
  <2> QED
    BY <2>2, <2>3 DEF DoubleInv, DoubleTrue
<1> QED
  BY <1>1, <1>2, <1>3 DEF DoubleNext

\* What a client of the double holds is what the double held: no change and
\* no deletion falls between two rounds of delta or two of their pages, and
\* an etag stands for one version of a task, its extension and attachments
\* included, however many requests, faults and rounds there are.
THEOREM DoubleKept == DoubleSpec => []DoubleTrue
<1>1. DoubleInv => DoubleTrue
  BY DEF DoubleInv
<1> QED
  BY <1>1, DoubleStarts, DoubleStep, PTL DEF DoubleSpec
=============================================================================
