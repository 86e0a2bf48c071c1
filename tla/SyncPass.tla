------------------------------ MODULE SyncPass ------------------------------
(***************************************************************************)
(* A sync pass over one list: the daemon replays the delta link it saved,  *)
(* or reads the list whole, fetches what the page doesn't carry, and       *)
(* applies the result to the cached rows in one transaction.  Meanwhile    *)
(* clients write to the same rows, the outbox worker sends those writes,   *)
(* and a phone edits the same tasks.                                       *)
(*                                                                         *)
(* Every change in Graph gets the next number, and a task's content is the *)
(* number of its last change: a row is up to date if it shows that number. *)
(* A delta link is the number of the last change it has told.  The queue   *)
(* is reduced to at most one write per task, as the Outbox module models   *)
(* the rest of it.                                                         *)
(***************************************************************************)
EXTENDS Integers, FiniteSets

CONSTANTS
  Tasks,       \* the tasks of the list
  Born,        \* those in Graph when the daemon first starts
  Writes,      \* the kinds of local write: update, delete
  Events,      \* what may go wrong or be done: see EventNames
  MaxEdits,    \* bound: changes made on the phone
  MaxWrites,   \* bound: local writes
  MaxLost,     \* bound: answers to a write that get lost
  MaxSyncCrashes  \* bound: times the daemon stops without warning

EventNames == {"fetch_fails", "hydration_fails", "link_rejected", "refused", "discard", "phone_deletes"}

ASSUME SyncAssumption ==
  /\ Born \subseteq Tasks
  /\ Writes \subseteq {"update", "delete"}
  /\ Events \subseteq EventNames
  /\ MaxEdits \in Nat /\ MaxWrites \in Nat /\ MaxLost \in Nat /\ MaxSyncCrashes \in Nat

Nothing  == -1           \* no row, no link, or not on the page
Mine     == -2           \* a local change Graph hasn't answered yet
ChangeNo == Nat          \* the number of a change

VARIABLES
  now,      \* Graph: the number of the last change
  cloud,    \* the change each task is at, or was deleted with
  noted,    \* the change each task's extension is at
  there,    \* the tasks that exist
  shows,    \* cache: the change each task's row shows
  live,     \* the rows that aren't tombstoned
  hydrated, \* the change each row's extension was fetched at
  wrote,    \* each row's local_rev, 0 once a pass has written it
  rev,      \* the store's local_rev
  link,     \* the scope's saved delta link
  op,       \* each task's unresolved write and how far it is
  writeKind,
  before,   \* what the row showed before the write: its rollback
  carries   \* the change Graph's answer to it carries

VARIABLES
  pc,       \* the pass: where it is
  since,    \* the local_rev it read at its start
  saved,    \* the link it replays
  seen,     \* the page: the change each task on it is at
  gone,     \* the tasks known deleted
  needed,   \* the tasks whose extension is still to be fetched
  got,      \* what the fetches brought
  failed,   \* whether one failed
  cursor,   \* the link the page ended with
  replayed  \* whether the page names only what changed

VARIABLES
  owed,     \* rejections whose list is still to be marked for a whole read
  edits, writes, lostAnswers, syncCrashes

graph     == <<now, cloud, noted, there>>
rows      == <<shows, live, hydrated, wrote, rev>>
unsent    == <<op, writeKind, before, carries>>
passState == <<pc, since, saved, seen, gone, needed, got, failed, cursor, replayed>>
counts    == <<edits, writes, lostAnswers, syncCrashes>>
syncVars  == <<graph, rows, link, unsent, passState, owed, counts>>

Busy(t) == op[t] # "none"

SyncInit ==
  /\ now = 0
  /\ cloud = [t \in Tasks |-> 0]
  /\ noted = [t \in Tasks |-> 0]
  /\ there = Born
  /\ shows = [t \in Tasks |-> Nothing]
  /\ live = {}
  /\ hydrated = [t \in Tasks |-> Nothing]
  /\ wrote = [t \in Tasks |-> 0]
  /\ rev = 0
  /\ link = Nothing
  /\ op = [t \in Tasks |-> "none"]
  /\ writeKind = [t \in Tasks |-> "none"]
  /\ before = [t \in Tasks |-> Nothing]
  /\ carries = [t \in Tasks |-> Nothing]
  /\ pc = "idle" /\ since = 0 /\ saved = Nothing
  /\ seen = [t \in Tasks |-> Nothing] /\ gone = {} /\ needed = {}
  /\ got = [t \in Tasks |-> Nothing] /\ failed = FALSE /\ cursor = Nothing /\ replayed = FALSE
  /\ owed = {}
  /\ edits = 0 /\ writes = 0 /\ lostAnswers = 0 /\ syncCrashes = 0

-----------------------------------------------------------------------------
(* The pass.                                                               *)

\* local_rev is read before anything is fetched.
Begin ==
  /\ pc = "idle"
  /\ since' = rev
  /\ pc' = "read"
  /\ UNCHANGED <<graph, rows, link, unsent, saved, seen, gone, needed, got, failed, cursor,
                 replayed, owed, counts>>

ReadLink ==
  /\ pc = "read"
  /\ saved'  = link
  /\ pc' = "get"
  /\ UNCHANGED <<graph, rows, link, unsent, since, seen, gone, needed, got, failed, cursor,
                 replayed, owed, counts>>

\* The page of a round: what changed since the link, or everything.
Page(items, whole) ==
  /\ seen'     = [t \in Tasks |-> IF t \in items \cap there THEN cloud[t] ELSE Nothing]
  /\ gone'     = items \ there
  /\ cursor'   = now
  /\ replayed' = ~whole
  /\ pc'       = "compare"
  /\ UNCHANGED <<graph, rows, link, unsent, since, saved, needed, got, failed, owed, counts>>

Replay    == pc = "get" /\ saved # Nothing /\ Page({t \in Tasks : cloud[t] > saved}, FALSE)
ReadWhole == pc = "get" /\ saved = Nothing /\ Page(there, TRUE)

\* Graph rejects the link: it is dropped and the list read whole.
LinkRejected ==
  /\ "link_rejected" \in Events
  /\ pc = "get"
  /\ saved # Nothing
  /\ saved' = Nothing
  /\ link'  = Nothing
  /\ UNCHANGED <<graph, rows, unsent, pc, since, seen, gone, needed, got, failed, cursor,
                 replayed, owed, counts>>

\* Any other failure: the link is kept for the next pass.
FetchFails ==
  /\ "fetch_fails" \in Events
  /\ pc = "get"
  /\ pc' = "idle"
  /\ UNCHANGED <<graph, rows, link, unsent, since, saved, seen, gone, needed, got, failed, cursor,
                 replayed, owed, counts>>

\* The new link is saved, whatever became of the saved one meanwhile.
Checkpoint == link' = cursor

\* Nothing changed: the scope is checkpointed and the pass is over.
Advance ==
  /\ pc = "compare"
  /\ replayed /\ gone = {} /\ \A t \in Tasks : seen[t] = Nothing
  /\ Checkpoint
  /\ pc' = "idle"
  /\ UNCHANGED <<graph, rows, unsent, since, saved, seen, gone, needed, got, failed, cursor,
                 replayed, owed, counts>>

\* Variants like NeedsNew are what a mistake in the code would make of the
\* definition that follows; no action uses them.
NeedsNew == {t \in Tasks : seen[t] # Nothing /\ hydrated[t] = Nothing}

\* The tasks on the page whose extension wasn't fetched at that change.
Needs == {t \in Tasks : seen[t] # Nothing /\ hydrated[t] # seen[t]}

Compare ==
  /\ pc = "compare"
  /\ ~(replayed /\ gone = {} /\ \A t \in Tasks : seen[t] = Nothing)
  /\ needed' = Needs
  /\ got'    = [t \in Tasks |-> Nothing]
  /\ failed' = FALSE
  /\ pc'     = "hydrate"
  /\ UNCHANGED <<graph, rows, link, unsent, since, saved, seen, gone, cursor, replayed, owed, counts>>

\* One of them is fetched: its JSON, fresher than the page's, and its
\* extension.  A 404 says it was deleted since.
Fetched(t) ==
  /\ pc = "hydrate"
  /\ t \in needed
  /\ needed' = needed \ {t}
  /\ got'    = IF t \in there THEN [got EXCEPT ![t] = cloud[t]] ELSE got
  /\ gone'   = IF t \in there THEN gone ELSE gone \cup {t}
  /\ UNCHANGED <<graph, rows, link, unsent, pc, since, saved, seen, failed, cursor, replayed, owed, counts>>

HydrationFails(t) ==
  /\ "hydration_fails" \in Events
  /\ pc = "hydrate"
  /\ t \in needed
  /\ needed' = needed \ {t}
  /\ failed' = TRUE
  /\ UNCHANGED <<graph, rows, link, unsent, pc, since, saved, seen, gone, got, cursor, replayed, owed, counts>>

LeftAloneWritten(t) == shows[t] # Nothing /\ wrote[t] > since

\* Rows written since the pass began, or with a write unresolved, are left
\* alone.
LeftAlone(t) == shows[t] # Nothing /\ (wrote[t] > since \/ Busy(t))

\* The link is saved only if every fetch succeeded.
ConcludeAlways == Checkpoint
Conclude == IF failed THEN UNCHANGED link ELSE Checkpoint

\* The page is applied in one transaction: seen tasks are written, gone
\* ones tombstoned and, after a whole read, those not seen; the link is
\* saved unless a fetch failed.
Apply ==
  LET upsert  == {t \in Tasks : seen[t] # Nothing /\ ~LeftAlone(t)}
      fresh   == [t \in Tasks |-> IF got[t] # Nothing THEN got[t] ELSE seen[t]]
      fetched == {t \in upsert : got[t] # Nothing}
      altered == {t \in upsert : \/ t \notin live
                                 \/ fresh[t] # shows[t]
                                 \/ t \in fetched /\ got[t] # hydrated[t]}
      removed == {t \in Tasks : /\ ~LeftAlone(t)
                                /\ t \in gone \/ (~replayed /\ seen[t] = Nothing)}
  IN  /\ pc = "hydrate"
      /\ needed = {}
      /\ shows'    = [t \in Tasks |-> IF t \in altered THEN fresh[t] ELSE shows[t]]
      /\ hydrated' = [t \in Tasks |-> IF t \in fetched THEN got[t] ELSE hydrated[t]]
      /\ wrote'    = [t \in Tasks |-> IF t \in altered THEN 0 ELSE wrote[t]]
      /\ live'     = (live \cup upsert) \ removed
      /\ Conclude
      /\ pc' = "idle"
      /\ UNCHANGED <<graph, rev, unsent, since, saved, seen, gone, needed, got, failed, cursor,
                     replayed, owed, counts>>

-----------------------------------------------------------------------------
(* Local writes, and what becomes of them.                                 *)

\* The row as a local write leaves it.
Written(t, version, alive) ==
  /\ rev'   = rev + 1
  /\ wrote' = [wrote EXCEPT ![t] = rev + 1]
  /\ shows' = [shows EXCEPT ![t] = version]
  /\ live'  = IF alive THEN live \cup {t} ELSE live \ {t}
  /\ UNCHANGED hydrated

QueueWrite(t, k) ==
  /\ k \in Writes
  /\ writes < MaxWrites
  /\ t \in live
  /\ ~Busy(t)
  /\ writes' = writes + 1
  /\ op'     = [op EXCEPT ![t] = "pending"]
  /\ writeKind'   = [writeKind EXCEPT ![t] = k]
  /\ before' = [before EXCEPT ![t] = shows[t]]
  /\ Written(t, IF k = "update" THEN Mine ELSE shows[t], k = "update")
  /\ UNCHANGED <<graph, link, carries, passState, owed, edits, lostAnswers, syncCrashes>>

\* Graph makes the change; a delete of what is gone counts as made.
Run(t) ==
  /\ op[t] = "pending"
  /\ writeKind[t] = "update" => t \in there
  /\ op' = [op EXCEPT ![t] = "sent"]
  /\ IF t \in there
     THEN now' = now + 1 /\ cloud' = [cloud EXCEPT ![t] = now + 1]
     ELSE UNCHANGED <<now, cloud>>
  /\ there'  = IF writeKind[t] = "delete" THEN there \ {t} ELSE there
  /\ carries' = [carries EXCEPT ![t] = now + 1]
  /\ UNCHANGED <<noted, rows, link, writeKind, before, passState, owed, counts>>

\* The answer is lost: the write is sent again.
Lose(t) ==
  /\ op[t] = "sent"
  /\ lostAnswers < MaxLost
  /\ lostAnswers' = lostAnswers + 1
  /\ op'   = [op EXCEPT ![t] = "pending"]
  /\ UNCHANGED <<graph, rows, link, writeKind, before, carries, passState, owed, edits, writes, syncCrashes>>

\* The answer is recorded: an update's brings the task as Graph has it, a
\* delete's leaves the row as it is.
RecordSent(t) ==
  /\ op[t] = "sent"
  /\ writeKind[t] = "update"
  /\ op' = [op EXCEPT ![t] = "none"]
  /\ Written(t, carries[t], TRUE)
  /\ UNCHANGED <<graph, link, writeKind, before, carries, passState, owed, counts>>

MarkDone(t) ==
  /\ op[t] = "sent"
  /\ writeKind[t] = "delete"
  /\ op' = [op EXCEPT ![t] = "none"]
  /\ UNCHANGED <<graph, rows, link, writeKind, before, carries, passState, owed, counts>>

\* Graph refuses it: its change is taken back, and then the list is marked
\* to be read whole.
Reject(t) ==
  /\ op[t] = "pending"
  /\ "refused" \in Events \/ (writeKind[t] = "update" /\ t \notin there)
  /\ op'   = [op EXCEPT ![t] = "none"]
  /\ writeKind' = [writeKind EXCEPT ![t] = "none"]
  /\ owed' = owed \cup {t}
  /\ Written(t, before[t], TRUE)
  /\ UNCHANGED <<graph, link, before, carries, passState, counts>>

Reconcile(t) ==
  /\ t \in owed
  /\ owed'   = owed \ {t}
  /\ link'   = Nothing
  /\ UNCHANGED <<graph, rows, unsent, passState, counts>>

\* The user discards a pending write: its change is taken back.
DiscardWrite(t) ==
  /\ "discard" \in Events
  /\ op[t] = "pending"
  /\ op'   = [op EXCEPT ![t] = "none"]
  /\ writeKind' = [writeKind EXCEPT ![t] = "none"]
  /\ Written(t, before[t], TRUE)
  /\ UNCHANGED <<graph, link, before, carries, passState, owed, counts>>

-----------------------------------------------------------------------------
(* The phone, and the daemon's crashes.                                    *)

PhoneEdits(t) ==
  /\ edits < MaxEdits
  /\ t \in there \/ cloud[t] = 0
  /\ edits' = edits + 1
  /\ now'   = now + 1
  /\ cloud' = [cloud EXCEPT ![t] = now + 1]
  /\ noted' \in {noted, [noted EXCEPT ![t] = now + 1]}
  /\ there' = there \cup {t}
  /\ UNCHANGED <<rows, link, unsent, passState, owed, writes, lostAnswers, syncCrashes>>

PhoneDeletes(t) ==
  /\ "phone_deletes" \in Events
  /\ edits < MaxEdits
  /\ t \in there
  /\ edits' = edits + 1
  /\ now'   = now + 1
  /\ cloud' = [cloud EXCEPT ![t] = now + 1]
  /\ there' = there \ {t}
  /\ UNCHANGED <<noted, rows, link, unsent, passState, owed, writes, lostAnswers, syncCrashes>>

\* The pass and what a handler had still to do are forgotten; the rows, the
\* queue and the link are kept.  What was being sent is sent again.
SyncCrash ==
  /\ syncCrashes < MaxSyncCrashes
  /\ syncCrashes' = syncCrashes + 1
  /\ pc'   = "idle"
  /\ owed' = {}
  /\ op'   = [t \in Tasks |-> IF op[t] = "sent" THEN "pending" ELSE op[t]]
  /\ UNCHANGED <<graph, rows, link, writeKind, before, carries, since, saved, seen, gone, needed, got, failed,
                 cursor, replayed, edits, writes, lostAnswers>>

-----------------------------------------------------------------------------

Get == Replay \/ ReadWhole

PassStep ==
  \/ Begin \/ ReadLink \/ Get \/ LinkRejected \/ FetchFails \/ Advance \/ Compare \/ Apply
  \/ \E t \in Tasks : Fetched(t) \/ HydrationFails(t)

Outbox == \E t \in Tasks : Run(t) \/ Lose(t) \/ RecordSent(t) \/ MarkDone(t) \/ Reject(t) \/ Reconcile(t)

Others ==
  \/ \E t \in Tasks : PhoneEdits(t) \/ PhoneDeletes(t) \/ DiscardWrite(t) \/ \E k \in Writes : QueueWrite(t, k)
  \/ SyncCrash

SyncNext == PassStep \/ Outbox \/ Others

SyncSpec == SyncInit /\ [][SyncNext]_syncVars

\* Passes follow one another, the worker goes on, and no fetch fails for
\* ever.
SyncFairSpec ==
  /\ SyncSpec
  /\ WF_syncVars(PassStep) /\ WF_syncVars(Outbox)
  /\ SF_syncVars(Get) /\ SF_syncVars(Advance \/ Apply) /\ \A t \in Tasks : SF_syncVars(Fetched(t))

-----------------------------------------------------------------------------
(* What must hold.                                                         *)

Version == ChangeNo \cup {Nothing, Mine}

\* Every variable keeps its type.
SyncTypeOK ==
  /\ now \in ChangeNo /\ cloud \in [Tasks -> ChangeNo] /\ noted \in [Tasks -> ChangeNo] /\ there \subseteq Tasks
  /\ shows \in [Tasks -> Version] /\ live \subseteq Tasks
  /\ hydrated \in [Tasks -> ChangeNo \cup {Nothing}]
  /\ rev \in Nat /\ wrote \in [Tasks -> Nat]
  /\ link \in ChangeNo \cup {Nothing}
  /\ op \in [Tasks -> {"none", "pending", "sent"}]
  /\ writeKind \in [Tasks -> {"none"} \cup Writes]
  /\ before \in [Tasks -> Version] /\ carries \in [Tasks -> ChangeNo \cup {Nothing}]
  /\ pc \in {"idle", "read", "get", "compare", "hydrate"}
  /\ since \in Nat /\ saved \in ChangeNo \cup {Nothing} /\ cursor \in ChangeNo \cup {Nothing}
  /\ seen \in [Tasks -> ChangeNo \cup {Nothing}] /\ got \in [Tasks -> ChangeNo \cup {Nothing}]
  /\ gone \subseteq Tasks /\ needed \subseteq Tasks /\ owed \subseteq Tasks
  /\ failed \in BOOLEAN /\ replayed \in BOOLEAN
  /\ edits \in 0 .. MaxEdits /\ writes \in 0 .. MaxWrites
  /\ lostAnswers \in 0 .. MaxLost /\ syncCrashes \in 0 .. MaxSyncCrashes

\* The cache has a task as Graph has it, extension and all.
Matches(t) ==
  IF t \in there THEN t \in live /\ shows[t] = cloud[t] /\ hydrated[t] >= noted[t] ELSE t \notin live

\* The checkpoint rule: a saved link never runs ahead of the cache.  What
\* changed before it is in the rows, as long as nothing is written locally.
LinkCovered ==
  link # Nothing => \A t \in Tasks : (wrote[t] = 0 /\ ~Busy(t) /\ cloud[t] <= link) => Matches(t)

\* A local change stays in the row until it is settled: no pass takes it
\* away or brings a task back that is to be deleted.
UnsentKept ==
  \A t \in Tasks : Busy(t) => IF writeKind[t] = "update" THEN t \in live /\ shows[t] = Mine ELSE t \notin live

\* Both: a row tells what Graph said up to the link, or what is still to be
\* told to Graph.
RowsTrue == LinkCovered /\ UnsentKept

\* The cache comes to match Graph and stays so, when the phone has stopped
\* and the queue is settled.
Converges == <>[](\A t \in Tasks : Busy(t) \/ Matches(t))
=============================================================================
