------------------------------ MODULE Attached ------------------------------
(***************************************************************************)
(* A task's files: the adds and deletes that are queued for them, what an  *)
(* undo of either queues, and the bytes both depend on                     *)
(* (daemon/src/attachments, outbox/attachment_write.rs).  An add reads the *)
(* user's file when it is sent, as it was when it was queued or not at     *)
(* all.  A delete keeps the bytes before it is sent, for an undo to attach *)
(* again; the copies kept are swept by age and by their number.            *)
(*                                                                         *)
(* Every version of a file has bytes and a modified time of its own: the   *)
(* number of the version stands for both.  How an upload goes on in its    *)
(* session is in Upload.                                                   *)
(***************************************************************************)
EXTENDS Naturals, FiniteSets

CONSTANTS
  Files,      \* paths of the user's files
  Given,      \* attachments the task has at first; each is its own bytes
  MaxWrites,  \* bound: operations queued
  Limit,      \* copies kept: MAX_KEPT_BYTES, with every file as large
  MaxEdits,   \* bound: versions of a file
  MaxTroubles \* bound: failures, restarts, and what the phone deletes

Writes == 1 .. MaxWrites
Atts == Given \cup Writes   \* an attachment that an add made has the add's number

ASSUME AttachedAssumption ==
  /\ {MaxWrites, Limit, MaxEdits, MaxTroubles} \subseteq Nat
  /\ Given \cap Nat = {}

NoBytes == 0
Bytes == Given \cup Nat

VARIABLES
  disk,      \* the user's files: the version each has, 0 for none
  wants,      \* operations: what each asks for, fixed when it is queued
  stage,     \* operations: the state of each, and how far its attempt is
  read,      \* operations: the bytes the attempt under way holds
  onGraph,   \* Graph's attachments
  shown,     \* the attachments in the cached task
  keeps,      \* kept copies: 0 for none, else the newest is 1 and older ones are more
  copyOf,    \* the bytes of the kept copies
  old,       \* the kept copies past KEPT_FOR
  swept,     \* history: the deletes whose copy a sweep took
  ran,       \* history: the deletes whose DELETE took the attachment
  undone,    \* operations that an undo was queued for
  troubles

copies == <<keeps, copyOf, old, swept>>
attVars == <<disk, wants, stage, read, onGraph, shown, copies, ran, undone, troubles>>

Trouble == troubles < MaxTroubles /\ troubles' = troubles + 1
Smooth == UNCHANGED troubles

Nothing == [verb |-> "none", att |-> 0, file |-> "", undoes |-> 0, bytes |-> NoBytes,
            noUndo |-> FALSE, waits |-> {}]

InFlight == {"check", "read", "reread", "post", "look", "keep", "remove"}
Unsettled == InFlight \cup {"pending", "unknown"}

AttachedInit ==
  /\ disk = [f \in Files |-> 1]
  /\ wants = [o \in Writes |-> Nothing] /\ stage = [o \in Writes |-> "none"]
  /\ read = [o \in Writes |-> NoBytes]
  /\ onGraph = [a \in Atts |-> IF a \in Given THEN a ELSE NoBytes]
  /\ shown = Given
  /\ keeps = [o \in Writes |-> 0] /\ copyOf = [o \in Writes |-> NoBytes]
  /\ old = {} /\ swept = {}
  /\ ran = {} /\ undone = {} /\ troubles = 0

-----------------------------------------------------------------------------
(* Queueing.                                                               *)

BytesOf(a) == IF a \in Given THEN a ELSE wants[a].bytes

\* The next operation waits for all on the task that aren't settled.
Enqueue(o, verb, att, file, undoes, bytes, noUndo) ==
  /\ stage[o] = "none" /\ \A p \in 1 .. (o - 1) : stage[p] # "none"
  /\ wants' = [wants EXCEPT ![o] =
        [verb |-> verb, att |-> att, file |-> file, undoes |-> undoes, bytes |-> bytes,
         noUndo |-> noUndo, waits |-> {p \in Writes : stage[p] \in Unsettled}]]
  /\ stage' = [stage EXCEPT ![o] = "pending"]
  /\ shown' = IF verb = "add" THEN shown \cup {att} ELSE shown \ {att}
  /\ UNCHANGED <<disk, read, onGraph, copies, ran, troubles>>

\* attachments add: the file must be there, and is noted as it is now.
AddFile(o, f) ==
  /\ disk[f] # 0
  /\ Enqueue(o, "add", o, f, 0, disk[f], FALSE) /\ UNCHANGED undone

\* attachments delete, with --no-undo or without.
DeleteAttachment(o, a) ==
  /\ a \in shown
  /\ \E noUndo \in BOOLEAN : Enqueue(o, "delete", a, "", 0, NoBytes, noUndo)
  /\ UNCHANGED undone

\* undo of an add: its attachment is deleted, if it is still there.
UndoAdd(o, p) ==
  /\ wants[p].verb = "add" /\ stage[p] \notin {"failed", "unknown", "dropped"}
  /\ p \in shown /\ p \notin undone
  /\ Enqueue(o, "delete", p, "", 0, NoBytes, FALSE)
  /\ undone' = undone \cup {p}

\* undo of a delete: what was kept is attached again, as a new attachment.
UndoDelete(o, p) ==
  /\ wants[p].verb = "delete" /\ stage[p] = "done" /\ p \notin undone
  /\ ~wants[p].noUndo /\ keeps[p] # 0
  /\ Enqueue(o, "add", o, "", p, BytesOf(wants[p].att), FALSE)
  /\ undone' = undone \cup {p}

-----------------------------------------------------------------------------
(* What becomes of an operation.                                           *)

Waiting(o) == {p \in Writes : stage[p] = "pending" /\ o \in wants[p].waits}

\* It goes on, or ends well.
Reaches(o, place) ==
  /\ stage' = [stage EXCEPT ![o] = place] /\ UNCHANGED shown

\* Their changes to the cached task are taken back.
TakenBack(ps) ==
  (shown \cup {wants[p].att : p \in {q \in ps : wants[q].verb = "delete"}})
     \ {p \in ps : wants[p].verb = "add"}

\* It fails, and with it all that waits on it.
Fails(o) ==
  /\ stage' = [p \in Writes |-> IF p = o \/ p \in Waiting(o) THEN "failed" ELSE stage[p]]
  /\ shown' = TakenBack({o} \cup Waiting(o))

Again(o) == Reaches(o, "pending")

-----------------------------------------------------------------------------
(* Sending an add.                                                         *)

\* An undo reads the copy of the delete it undoes, which nothing rewrites.
BytesThere(o) ==
  LET d == wants[o].undoes
  IN  IF d = 0 THEN disk[wants[o].file] ELSE IF keeps[d] = 0 THEN NoBytes ELSE copyOf[d]
Unchanged(o) ==
  BytesThere(o) # NoBytes /\ (wants[o].undoes = 0 => BytesThere(o) = wants[o].bytes)

ClaimFile(o) ==
  /\ stage[o] = "pending" /\ \A p \in Writes : stage[p] \notin InFlight
  /\ \A p \in wants[o].waits : stage[p] = "done"
  /\ Reaches(o, IF wants[o].verb = "add" THEN "check" ELSE "look")
  /\ UNCHANGED <<disk, wants, read, onGraph, copies, ran, undone>> /\ Smooth

\* Mutant: what was read is sent without another look.
CheckFirst(o) ==
  /\ stage[o] \in {"check", "reread"}
  /\ IF stage[o] = "check" /\ ~Unchanged(o)
       THEN Fails(o)
       ELSE Reaches(o, IF stage[o] = "check" THEN "read" ELSE "post")
  /\ UNCHANGED <<disk, wants, read, onGraph, copies, ran, undone>> /\ Smooth

\* The file must be as it was queued, before it is read and after.
CheckSource(o) ==
  /\ stage[o] \in {"check", "reread"}
  /\ IF Unchanged(o) THEN Reaches(o, IF stage[o] = "check" THEN "read" ELSE "post") ELSE Fails(o)
  /\ UNCHANGED <<disk, wants, read, onGraph, copies, ran, undone>> /\ Smooth

ReadSource(o) ==
  /\ stage[o] = "read"
  /\ IF BytesThere(o) = NoBytes
       THEN Fails(o) /\ UNCHANGED read
       ELSE read' = [read EXCEPT ![o] = BytesThere(o)] /\ Reaches(o, "reread")
  /\ UNCHANGED <<disk, wants, onGraph, copies, ran, undone>> /\ Smooth

\* The POST: answered, refused, or without an answer and then never sent
\* again but by the user.
Attaches(o) == onGraph' = [onGraph EXCEPT ![o] = read[o]]

PostFile(o) ==
  /\ stage[o] = "post"
  /\ \/ Attaches(o) /\ Reaches(o, "done") /\ Smooth
     \/ Attaches(o) /\ Reaches(o, "unknown") /\ Trouble
     \/ UNCHANGED onGraph /\ (Reaches(o, "unknown") \/ Again(o) \/ Fails(o)) /\ Trouble
  /\ UNCHANGED <<disk, wants, read, copies, ran, undone>>

-----------------------------------------------------------------------------
(* Sending a delete.                                                       *)

\* The bytes are kept already, needn't be, or are downloaded; an attachment
\* gone already is deleted as asked.
LookAtKept(o) ==
  /\ stage[o] = "look"
  /\ \/ (wants[o].noUndo \/ keeps[o] # 0) /\ Reaches(o, "remove") /\ Smooth /\ UNCHANGED read
     \/ /\ ~wants[o].noUndo /\ keeps[o] = 0
        /\ \/ /\ onGraph[wants[o].att] # NoBytes
              /\ read' = [read EXCEPT ![o] = onGraph[wants[o].att]] /\ Reaches(o, "keep") /\ Smooth
           \/ onGraph[wants[o].att] = NoBytes /\ Reaches(o, "done") /\ Smooth /\ UNCHANGED read
           \/ (Again(o) \/ Fails(o)) /\ Trouble /\ UNCHANGED read
  /\ UNCHANGED <<disk, wants, onGraph, copies, ran, undone>>

\* sweep_now: the copies past their time go, then the oldest over the limit.
Survives(rank, o) ==
  /\ rank[o] # 0 /\ o \notin old
  /\ Cardinality({p \in Writes \ old : rank[p] \in 1 .. rank[o]}) <= Limit

SweepCopies(rank) ==
  /\ keeps' = [o \in Writes |-> IF Survives(rank, o) THEN rank[o] ELSE 0]
  /\ swept' = {o \in Writes : (o \in swept \/ rank[o] # 0) /\ ~Survives(rank, o)}
  /\ old' = {}

\* Written atomically, as the newest.
KeepBytes(o) ==
  /\ copyOf' = [copyOf EXCEPT ![o] = read[o]]
  /\ SweepCopies([p \in Writes |-> IF p = o THEN 1 ELSE IF keeps[p] = 0 THEN 0 ELSE keeps[p] + 1])

\* keep: without its copy the delete is rejected; the sweep may be what
\* failed, and the copy stay.
KeepCopy(o) ==
  /\ stage[o] = "keep"
  /\ \/ KeepBytes(o) /\ Reaches(o, "remove") /\ Smooth
     \/ (KeepBytes(o) \/ UNCHANGED copies) /\ Fails(o) /\ Trouble
  /\ UNCHANGED <<disk, wants, read, onGraph, ran, undone>>

\* The DELETE may be sent again: one gone already is done.
Removes(o) ==
  /\ onGraph' = [onGraph EXCEPT ![wants[o].att] = NoBytes]
  /\ ran' = IF onGraph[wants[o].att] # NoBytes THEN ran \cup {o} ELSE ran

RemoveAttachment(o) ==
  /\ stage[o] = "remove"
  /\ \/ Removes(o) /\ Reaches(o, "done") /\ Smooth
     \/ Removes(o) /\ Again(o) /\ Trouble
     \/ UNCHANGED <<onGraph, ran>> /\ (Again(o) \/ Fails(o)) /\ Trouble
  /\ UNCHANGED <<disk, wants, read, copies, undone>>

-----------------------------------------------------------------------------
(* The user's choices, restarts, and the world.                            *)

\* What the cached task shows of it again, once it failed.
Redone(o) == IF wants[o].verb = "add" THEN shown \cup {wants[o].att} ELSE shown \ {wants[o].att}

RetryWrite(o) ==
  /\ stage[o] \in {"failed", "unknown"} /\ \A p \in wants[o].waits : stage[p] = "done"
  /\ stage' = [stage EXCEPT ![o] = "pending"]
  /\ shown' = IF stage[o] = "failed" THEN Redone(o) ELSE shown
  /\ Trouble /\ UNCHANGED <<disk, wants, read, onGraph, copies, ran, undone>>

DiscardWrite(o) ==
  /\ stage[o] \in {"pending", "failed", "unknown"}
  /\ stage' = [p \in Writes |-> IF p = o THEN "dropped" ELSE IF p \in Waiting(o) THEN "failed" ELSE stage[p]]
  /\ shown' = IF stage[o] = "failed" THEN TakenBack(Waiting(o)) ELSE TakenBack({o} \cup Waiting(o))
  /\ Trouble /\ UNCHANGED <<disk, wants, read, onGraph, copies, ran, undone>>

\* recover_inflight: an add may have reached Graph; and the sweep of a start.
RestartAttached ==
  /\ stage' = [o \in Writes |-> IF stage[o] \notin InFlight THEN stage[o]
                                ELSE IF wants[o].verb = "add" THEN "unknown" ELSE "pending"]
  /\ SweepCopies(keeps)
  /\ Trouble /\ UNCHANGED <<disk, wants, read, onGraph, shown, copyOf, ran, undone>>

\* A copy passes KEPT_FOR, older ones before it.
Ages(o) ==
  /\ keeps[o] # 0 /\ o \notin old /\ \A p \in Writes : keeps[p] > keeps[o] => p \in old
  /\ old' = old \cup {o}
  /\ Trouble /\ UNCHANGED <<disk, wants, stage, read, onGraph, shown, keeps, copyOf, swept, ran, undone>>

\* The user's file is written, or removed.
EditFile(f) ==
  /\ disk[f] # 0
  /\ \/ disk[f] < MaxEdits /\ disk' = [disk EXCEPT ![f] = @ + 1] /\ Smooth
     \/ disk' = [disk EXCEPT ![f] = 0] /\ Trouble
  /\ UNCHANGED <<wants, stage, read, onGraph, shown, copies, ran, undone>>

PhoneDeletes(a) ==
  /\ onGraph[a] # NoBytes /\ onGraph' = [onGraph EXCEPT ![a] = NoBytes]
  /\ Trouble /\ UNCHANGED <<disk, wants, stage, read, shown, copies, ran, undone>>

\* A sync, once nothing is queued for the task.
SyncFiles ==
  /\ \A o \in Writes : stage[o] \notin Unsettled
  /\ shown' = {a \in Atts : onGraph[a] # NoBytes}
  /\ UNCHANGED <<disk, wants, stage, read, onGraph, copies, ran, undone, troubles>>

-----------------------------------------------------------------------------
QueueWrite(o) ==
  \/ \E f \in Files : AddFile(o, f)
  \/ \E a \in Atts : DeleteAttachment(o, a)
  \/ \E p \in Writes : UndoAdd(o, p) \/ UndoDelete(o, p)
SendStep(o) ==
  \/ ClaimFile(o) \/ CheckSource(o) \/ ReadSource(o) \/ PostFile(o)
  \/ LookAtKept(o) \/ KeepCopy(o) \/ RemoveAttachment(o)
Choose(o) == RetryWrite(o) \/ DiscardWrite(o)

AttachedNext ==
  \/ \E o \in Writes : QueueWrite(o) \/ SendStep(o) \/ Choose(o) \/ Ages(o)
  \/ \E f \in Files : EditFile(f)
  \/ \E a \in Atts : PhoneDeletes(a)
  \/ RestartAttached \/ SyncFiles

AttachedSpec == AttachedInit /\ [][AttachedNext]_attVars

-----------------------------------------------------------------------------
Stages == InFlight \cup {"none", "pending", "unknown", "done", "failed", "dropped"}
FileAsked == [verb : {"none", "add", "delete"}, att : Atts \cup {0}, file : Files \cup {""},
              undoes : Writes \cup {0}, bytes : Bytes, noUndo : BOOLEAN, waits : SUBSET Writes]

AttachedTypeOK ==
  /\ disk \in [Files -> Nat]
  /\ wants \in [Writes -> FileAsked]
  /\ stage \in [Writes -> Stages]
  /\ read \in [Writes -> Bytes]
  /\ onGraph \in [Atts -> Bytes]
  /\ shown \subseteq Atts
  /\ keeps \in [Writes -> Nat] /\ copyOf \in [Writes -> Bytes]
  /\ old \subseteq Writes /\ swept \subseteq Writes
  /\ ran \subseteq Writes /\ undone \subseteq Writes
  /\ troubles \in 0 .. MaxTroubles

\* What was attached is the file as it was when the user said to attach it,
\* and what an undo attached is what its delete took away, whatever was
\* written to the file, swept, or retried between.  (attachment_write.rs,
\* read: refused when it changed; attachments::inverse: the kept bytes.)
AttachedAsMeant == \A o \in Writes : onGraph[o] # NoBytes => onGraph[o] = wants[o].bytes

\* An attachment that a DELETE of ours took from Graph has its bytes in
\* the copy kept for undo, unless the user said --no-undo, or a sweep has
\* taken the copy since.  (attachment_write.rs: if they can't be kept,
\* nothing is deleted.)
KeptForUndo ==
  \A o \in ran : \/ wants[o].noUndo \/ o \in swept
                 \/ keeps[o] # 0 /\ copyOf[o] = BytesOf(wants[o].att)

\* Both: no bytes but those meant are attached or kept.
BytesTrue == AttachedAsMeant /\ KeptForUndo
=============================================================================
