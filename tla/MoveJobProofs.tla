---------------------------- MODULE MoveJobProofs ----------------------------
(***************************************************************************)
(* Proofs about a move between lists, for any number of attachments,       *)
(* copies, edits, faults and retries: the steps it saves are enough to go  *)
(* on from, it implements what MoveTask promises, and the task's last      *)
(* version is never lost.                                                  *)
(***************************************************************************)
EXTENDS MoveJob, TLAPS

-----------------------------------------------------------------------------
(* Where the attempt is.                                                   *)

\* The running attempt and the database agree on how far the move is.
Agree ==
  /\ p.stage = saved.stage /\ p.copy = saved.copy /\ p.source = saved.source
  /\ p.etag = saved.etag /\ p.delete_started = saved.delete_started

\* Each place of the attempt belongs to a stage.
PlaceOK ==
  /\ at # "idle" => state = "inflight" /\ Agree
  /\ at \in {"post", "posted"} => p.stage = "create"
  /\ at = "posted" => made >= 1
  /\ at \in {"put", "putted"} => p.stage = "attachments"
  /\ at = "put" => \E f \in Files : p.files[f] = "sent"
  /\ at = "source" => p.stage = "verify"
  /\ at \in {"read", "batch", "batched", "recover", "recover_copy", "recheck"} => p.stage = "delete"

\* What is uploaded to, checked or trusted is a copy.
CopyOK(s) == s.stage \in {"attachments", "verify", "delete"} => s.copy \in Copies

ShapeOK == PlaceOK /\ CopyOK(p) /\ CopyOK(saved)

-----------------------------------------------------------------------------
(* What the promise rests on.                                              *)

\* Past its first stage the move has read a version of the original; it asks
\* for the delete of one that a copy was found to hold.  It speaks of a lost
\* original, or makes the task anew from the cache, only if Graph has none.
BackedOK(s) ==
  /\ s.stage # "prepare" => s.etag \in 1..version
  /\ s.stage = "delete" => s.etag \in checked
  /\ s.both_missing => ~Original /\ s.stage # "prepare"
  /\ s.source = "local" => ~Original

\* What the attempt has read stays good until it is used.
ReadOK ==
  /\ asked \subseteq checked
  /\ reply \in Deleted => ~Original
  /\ at \in {"read", "batch"} => read \in checked
  /\ at = "source" => p.etag \in checked
  /\ at = "recover_copy" => read <= version /\ (read = 0 => ~Original)
  /\ at = "recheck" => read \in 1..version
  /\ at = "finish" => ~Original /\ checked # {}

PromiseOK == BackedOK(p) /\ BackedOK(saved) /\ ReadOK

-----------------------------------------------------------------------------
(* Why nothing is lost, while the phone leaves the lists and the copy be.  *)

Holds(c, v) == copies[c].there /\ Matches(c, v)

\* Once the delete may be sent the copy the steps name holds what they say.
SafeSteps(s) ==
  /\ s.delete_started => s.stage = "delete"
  /\ s.stage = "delete" => Holds(s.copy, s.etag)
  /\ ~s.both_missing

\* Only the version the copy holds is ever asked to be deleted.
SafeAttempt ==
  /\ at = "source" => Holds(p.copy, p.etag)
  /\ at \in {"read", "batch", "batched"} => read = p.etag
  /\ at \in {"read", "batch", "batched", "recover", "recover_copy", "recheck"} => p.delete_started
  /\ asked \subseteq {saved.etag}
  /\ asked # {} \/ aimed => saved.delete_started

\* A deleted original leaves a copy of its last version, which nothing undoes.
SafeDelete ==
  /\ aimed /\ Original => version = saved.etag
  /\ ~Original => /\ \E c \in Copies : Holds(c, version)
                  /\ saved.delete_started \/ saved.stage = "prepare"

SafeOK ==
  touches = 0 =>
    /\ live = {"from", "to"}
    /\ SafeSteps(p) /\ SafeSteps(saved) /\ SafeAttempt
    /\ ~late => SafeDelete

\* A copy that is there was made.
MadeOK == \A c \in Copies : copies[c].there => c <= made

-----------------------------------------------------------------------------
(* The types.                                                              *)

USE MoveAssumption

LEMMA NoStepsTyped == NoSteps \in Steps
BY DEF NoSteps, Steps, Stages, None, Copies, Other

\* Graph's side of the move keeps its type.
LEMMA GraphTypesKept == TypeOK /\ ShapeOK /\ ReadOK /\ [Next]_vars => GraphTypes'
<1> SUFFICES ASSUME TypeOK, ShapeOK, ReadOK, [Next]_vars PROVE GraphTypes'
  OBVIOUS
<1> USE DEF GraphTypes
<1> DEFINE Copied == [there : BOOLEAN, holds : 0..Other, files : [Files -> Nat]]
<1>a. GraphTypes /\ p \in Steps /\ read \in 0..(MaxEdits + 1) /\ checked \subseteq 1..(MaxEdits + 1)
  BY DEF TypeOK, AttemptTypes, PastTypes
<1>g. \A c \in Copies : [copies EXCEPT ![c].there = FALSE] \in [Copies -> Copied]
  BY <1>a
<1>b. CASE UNCHANGED graph
  BY <1>a, <1>b DEF graph
<1>1. CASE CreatePost
  <2>1. p.etag \in 0..Other
    BY <1>a DEF Steps, Other
  <2>2. [NoCopy EXCEPT !.there = "to" \in live, !.holds = p.etag] \in Copied
    <3>1. \A b \in BOOLEAN : [NoCopy EXCEPT !.there = b, !.holds = p.etag] \in Copied
      BY <2>1 DEF NoCopy, Other
    <3>2. ("to" \in live) \in BOOLEAN
      OBVIOUS
    <3> QED
      BY <3>1, <3>2, Zenon
  <2>3. CASE Made
    <3> DEFINE new == [NoCopy EXCEPT !.there = "to" \in live, !.holds = p.etag]
    <3>1. made + 1 \in Copies /\ made' \in 0..MaxCopies
      BY <1>a, <2>3 DEF Made, Copies
    <3>2. new \in Copied
      BY <2>2
    <3>3. copies' = [copies EXCEPT ![made + 1] = new]
      BY <2>3 DEF Made
    <3> HIDE DEF new
    <3>4. copies' \in [Copies -> Copied]
      BY <1>a, <3>1, <3>2, <3>3
    <3> QED
      BY <1>1, <1>a, <3>1, <3>4 DEF CreatePost
  <2>4. CASE UNCHANGED <<copies, made>>
    BY <1>1, <1>a, <2>4 DEF CreatePost
  <2> QED
    BY <1>1, <2>3, <2>4 DEF CreatePost
<1>2. CASE AttachPost
  <2>1. p.copy \in Copies /\ Sending \in Files
    BY <1>2, <1>a DEF AttachPost, Sending, ShapeOK, PlaceOK, CopyOK
  <2>2. [copies EXCEPT ![p.copy].files[Sending] = @ + 1] \in [Copies -> Copied]
    <3>1. copies[p.copy] \in Copied /\ copies[p.copy].files \in [Files -> Nat]
      BY <1>a, <2>1
    <3>2. [copies[p.copy].files EXCEPT ![Sending] = @ + 1] \in [Files -> Nat]
      BY <2>1, <3>1
    <3>3. [copies[p.copy] EXCEPT !.files[Sending] = @ + 1] \in Copied
      BY <3>1, <3>2
    <3> QED
      BY <1>a, <2>1, <3>3
  <2>3. copies' \in [Copies -> Copied]
    BY <1>2, <1>a, <2>2 DEF AttachPost, Put
  <2> QED
    BY <1>2, <1>a, <2>3 DEF AttachPost
<1>3. CASE DeleteSend
  BY <1>3, <1>a DEF DeleteSend, ReadOK
<1>4. CASE DeleteAnswer
  BY <1>4, <1>a DEF DeleteAnswer
<1>5. CASE RollBack
  <2>1. copies' \in [Copies -> Copied]
    <3>1. p.copy \in {None} \cup Copies
      BY <1>a DEF Steps
    <3> QED
      BY <1>5, <1>a, <1>g, <3>1 DEF RollBack
  <2> QED
    BY <1>5, <1>a, <2>1 DEF RollBack
<1>6. CASE GraphDeletes
  BY <1>6, <1>a DEF GraphDeletes
<1>7. ASSUME NEW v \in 1..(MaxEdits + 1), GraphCompares(v) PROVE GraphTypes'
  BY <1>7, <1>a DEF GraphCompares
<1>8. CASE PhoneEdits
  BY <1>8, <1>a DEF PhoneEdits
<1>9. CASE PhoneDeletes
  <2>1. copies' \in [Copies -> Copied]
    BY <1>9, <1>a, <1>g DEF PhoneDeletes
  <2> QED
    BY <1>9, <1>a, <2>1 DEF PhoneDeletes
<1>10. ASSUME NEW l \in {"from", "to"}, PhoneDeletesList(l) PROVE GraphTypes'
  BY <1>10, <1>a DEF PhoneDeletesList
<1>11. ASSUME NEW c \in Copies, PhoneEditsCopy(c) PROVE GraphTypes'
  BY <1>11, <1>a DEF PhoneEditsCopy, Other
<1>12. CASE Run \/ Prepare \/ CreateIntent \/ CreateRecord \/ AttachIntent \/ AttachRecord
            \/ VerifyCopy \/ VerifySource \/ DeleteIntent \/ DeleteRead
  BY <1>b, <1>12 DEF Run, Prepare, CreateIntent, CreateRecord, AttachIntent, AttachRecord,
                     VerifyCopy, VerifySource, DeleteIntent, DeleteRead
<1>13. CASE RecoverSource \/ RecoverCopy \/ Recheck \/ Finish \/ Settle \/ Restart \/ Retry
            \/ Discard \/ SpoolLost
  BY <1>b, <1>13 DEF RecoverSource, RecoverCopy, Recheck, Finish, Settle, Restart, Retry,
                     Discard, SpoolLost
<1>14. ASSUME NEW l \in {"from", "to"}, ReadWhole(l) \/ ListGone(l) PROVE GraphTypes'
  BY <1>b, <1>14 DEF ReadWhole, ListGone
<1>15. ASSUME NEW c \in Copies, Meet(c) \/ Attribute(c) PROVE GraphTypes'
  BY <1>b, <1>15 DEF Meet, Attribute
<1>16. CASE UNCHANGED vars
  BY <1>b, <1>16 DEF vars
<1> QED
  BY <1>1, <1>2, <1>3, <1>4, <1>5, <1>6, <1>7, <1>8, <1>9, <1>10, <1>11, <1>12, <1>13,
     <1>14, <1>15, <1>16 DEF Next, Attempt, Others

\* What the attempt saves and where it goes keep their types.
LEMMA AttemptTypesKept == TypeOK /\ ShapeOK /\ [Next]_vars => AttemptTypes'
<1> SUFFICES ASSUME TypeOK, ShapeOK, [Next]_vars PROVE AttemptTypes'
  OBVIOUS
<1> USE DEF AttemptTypes
<1>a. AttemptTypes /\ version \in 1..(MaxEdits + 1) /\ made \in 0..MaxCopies
  BY DEF TypeOK, GraphTypes
<1>b. NoSteps \in Steps
  BY NoStepsTyped
<1>s. \A x \in Stages : [p EXCEPT !.stage = x] \in Steps
  BY <1>a DEF Steps
<1>u. \A b \in BOOLEAN : [p EXCEPT !.needs_user = b] \in Steps /\ [p EXCEPT !.in_doubt = b] \in Steps
  BY <1>a DEF Steps
<1>n. [p EXCEPT !.copy = None] \in Steps
  BY <1>a DEF Steps
<1> USE DEF Save, Goto, End, Abort, NextStage, RollBackFrom, PauseFor, ReadFailure, ReadFailed,
            SaveFails, Stages
<1>1. CASE Run
  BY <1>1, <1>a DEF Run
<1>2. CASE Prepare
  <2>1. [p EXCEPT !.stage = "create", !.source = "graph", !.etag = version,
                  !.files = [f \in Files |-> "pending"]] \in Steps
    <3>1. [f \in Files |-> "pending"] \in [Files -> {"pending", "sent", "done"}]
      OBVIOUS
    <3>2. ASSUME NEW F \in [Files -> {"pending", "sent", "done"}], NEW v \in 0..(MaxEdits + 1)
          PROVE  [p EXCEPT !.stage = "create", !.source = "graph", !.etag = v, !.files = F] \in Steps
      BY <1>a DEF Steps
    <3>3. version \in 0..(MaxEdits + 1)
      BY <1>a
    <3> QED
      BY <3>1, <3>2, <3>3, Zenon
  <2> QED
    BY <1>2, <1>a, <2>1 DEF Prepare
<1>3. CASE CreateIntent
  BY <1>3, <1>a, <1>s, <1>u DEF CreateIntent
<1>4. CASE CreatePost
  <2> DEFINE q == [p EXCEPT !.in_doubt = FALSE]
  <2>1. q \in Steps /\ [q EXCEPT !.stage = "rollback"] \in Steps
    BY <1>a DEF Steps
  <2> QED
    BY <1>4, <1>a, <2>1 DEF CreatePost
<1>5. CASE CreateRecord
  <2>1. made \in Copies
    BY <1>5, <1>a DEF CreateRecord, ShapeOK, PlaceOK, Copies
  <2>2. Created \in Steps
    BY <1>a, <2>1 DEF Steps, Created
  <2> QED
    BY <1>5, <1>a, <2>2 DEF CreateRecord
<1>6. CASE AttachIntent
  <2> DEFINE Put1(f) == [p EXCEPT !.files[f] = "sent", !.in_doubt = TRUE, !.needs_user = TRUE]
  <2>1. ASSUME NEW f \in Files PROVE Put1(f) \in Steps
    <3>1. [p.files EXCEPT ![f] = "sent"] \in [Files -> {"pending", "sent", "done"}]
      BY <1>a DEF Steps
    <3> QED
      BY <1>a, <3>1 DEF Steps
  <2>2. CASE \E f \in Files : Save(Put1(f)) /\ Goto("put")
    <3>1. PICK f \in Files : Save(Put1(f)) /\ Goto("put")
      BY <2>2
    <3> HIDE DEF Put1
    <3> QED
      BY <1>a, <2>1, <3>1
  <2> QED
    BY <1>6, <1>a, <1>s, <2>2 DEF AttachIntent
<1>7. CASE AttachPost
  <2> DEFINE Answered(x) == [p EXCEPT !.files[Sending] = x, !.in_doubt = FALSE, !.needs_user = FALSE]
  <2>1. Sending \in Files
    BY <1>7 DEF AttachPost, Sending, ShapeOK, PlaceOK
  <2>2. ASSUME NEW x \in {"pending", "done"}
        PROVE  Answered(x) \in Steps /\ [Answered(x) EXCEPT !.stage = "rollback"] \in Steps
    <3>1. [p.files EXCEPT ![Sending] = x] \in [Files -> {"pending", "sent", "done"}]
      BY <1>a, <2>1 DEF Steps
    <3>2. Answered(x) \in Steps
      BY <1>a, <3>1 DEF Steps
    <3> HIDE DEF Answered
    <3> QED
      BY <3>2 DEF Steps
  <2>3. Answered("pending") \in Steps /\ Answered("done") \in Steps
        /\ [Answered("pending") EXCEPT !.stage = "rollback"] \in Steps
    BY <2>2
  <2> QED
    BY <1>7, <1>a, <2>3 DEF AttachPost
<1>8. CASE AttachRecord
  BY <1>8, <1>a DEF AttachRecord
<1>9. CASE VerifyCopy
  <2>1. [p EXCEPT !.checked = p.etag] \in Steps
    BY <1>a DEF Steps, Other
  <2> QED
    BY <1>9, <1>a, <1>s, <2>1 DEF VerifyCopy
<1>10. CASE VerifySource
  BY <1>10, <1>a, <1>s DEF VerifySource
<1>11. CASE DeleteIntent
  <2>1. [p EXCEPT !.delete_started = TRUE] \in Steps /\ p.etag \in 0..(MaxEdits + 1)
    BY <1>a DEF Steps
  <2> QED
    BY <1>11, <1>a, <2>1 DEF DeleteIntent
<1>12. CASE DeleteRead
  BY <1>12, <1>a, <1>u DEF DeleteRead
<1>13. CASE DeleteSend
  BY <1>13, <1>a DEF DeleteSend, store
<1>14. CASE DeleteAnswer
  BY <1>14, <1>a, <1>u DEF DeleteAnswer
<1>15. CASE RecoverSource
  BY <1>15, <1>a DEF RecoverSource
<1>16. CASE RecoverCopy
  <2>1. [p EXCEPT !.checked = copies[p.copy].holds] \in Steps
    BY <1>16, <1>a DEF RecoverCopy, Steps, ShapeOK, PlaceOK, CopyOK, TypeOK, GraphTypes
  <2>2. [[p EXCEPT !.both_missing = TRUE] EXCEPT !.needs_user = TRUE] \in Steps
    BY <1>a DEF Steps
  <2>3. [[p EXCEPT !.copy = None] EXCEPT !.stage = "rollback"] \in Steps
    BY <1>a DEF Steps
  <2> QED
    BY <1>16, <1>a, <2>1, <2>2, <2>3 DEF RecoverCopy, BothThere
<1>17. CASE Recheck
  <2>1. [p EXCEPT !.checked = read] \in Steps
    BY <1>a DEF Steps, Other
  <2>2. [[p EXCEPT !.copy = None] EXCEPT !.stage = "rollback"] \in Steps
    BY <1>a DEF Steps
  <2> QED
    BY <1>17, <1>a, <1>u, <2>1, <2>2 DEF Recheck, Differ
<1>18. CASE Finish
  <2>1. [p EXCEPT !.needs_user = FALSE, !.both_missing = FALSE] \in Steps
    BY <1>a DEF Steps
  <2> QED
    BY <1>18, <1>a, <2>1 DEF Finish
<1>19. CASE RollBack
  BY <1>19, <1>a, <1>u, <1>n DEF RollBack
<1>20. CASE Settle
  BY <1>20, <1>a DEF Settle
<1>21. CASE Restart
  BY <1>21, <1>a, <1>b DEF Restart
<1>22. CASE Retry
  <2>1. RetrySteps \in Steps
    <3>1. [NoSteps EXCEPT !.stage = "create", !.source = "local", !.etag = saved.etag] \in Steps
      BY <1>a, <1>b DEF Steps
    <3>2. [f \in Files |-> IF saved.files[f] = "sent" THEN "pending" ELSE saved.files[f]]
             \in [Files -> {"pending", "sent", "done"}]
      BY <1>a DEF Steps
    <3>3. [saved EXCEPT !.in_doubt = FALSE, !.needs_user = FALSE,
             !.files = [f \in Files |-> IF @[f] = "sent" THEN "pending" ELSE @[f]]] \in Steps
      BY <1>a, <3>2 DEF Steps
    <3> QED
      BY <1>b, <3>1, <3>3 DEF RetrySteps
  <2> QED
    BY <1>22, <1>a, <2>1 DEF Retry, memory
<1>23. ASSUME NEW c \in Copies, Attribute(c) PROVE AttemptTypes'
  <2>1. Found(c) \in Steps
    BY <1>a DEF Found, Steps
  <2> QED
    BY <1>23, <1>a, <2>1 DEF Attribute, memory
<1>24. CASE UNCHANGED <<memory, saved>>
  BY <1>24, <1>a DEF memory
<1>25. CASE GraphDeletes \/ Discard \/ PhoneEdits \/ PhoneDeletes \/ SpoolLost
  BY <1>24, <1>25 DEF GraphDeletes, Discard, PhoneEdits, PhoneDeletes, SpoolLost, store
<1>26. ASSUME NEW l \in {"from", "to"}, ReadWhole(l) \/ ListGone(l) \/ PhoneDeletesList(l)
       PROVE  AttemptTypes'
  BY <1>24, <1>26 DEF ReadWhole, ListGone, PhoneDeletesList, store
<1>27. ASSUME NEW c \in Copies, Meet(c) \/ PhoneEditsCopy(c) PROVE AttemptTypes'
  BY <1>24, <1>27 DEF Meet, PhoneEditsCopy, store
<1>28. ASSUME NEW v \in 1..(MaxEdits + 1), GraphCompares(v) PROVE AttemptTypes'
  BY <1>24, <1>28 DEF GraphCompares, store
<1>29. CASE UNCHANGED vars
  BY <1>24, <1>29 DEF vars, store
<1> QED
  BY <1>1, <1>2, <1>3, <1>4, <1>5, <1>6, <1>7, <1>8, <1>9, <1>10, <1>11, <1>12, <1>13, <1>14,
     <1>15, <1>16, <1>17, <1>18, <1>19, <1>20, <1>21, <1>22, <1>23, <1>25, <1>26, <1>27, <1>28,
     <1>29 DEF Next, Attempt, Others

\* The queue's entry and the cache keep their types.
LEMMA RowTypesKept == TypeOK /\ ShapeOK /\ [Next]_vars => RowTypes'
<1> SUFFICES ASSUME TypeOK, ShapeOK, [Next]_vars PROVE RowTypes'
  OBVIOUS
<1> DEFINE Row == [list : {"from", "to"}, id : {None, 0} \cup Copies, live : BOOLEAN]
<1> USE DEF RowTypes
<1>a. RowTypes /\ made \in 0..MaxCopies /\ p \in Steps /\ saved \in Steps
  BY DEF TypeOK, GraphTypes, AttemptTypes
<1>c. \A c \in {None, 0} \cup Copies : [row EXCEPT !.id = c] \in Row
  BY <1>a
<1>d. [row EXCEPT !.live = FALSE] \in Row
  BY <1>a
<1>b. MoveBack(saved) \in Row
  <2>1. [list |-> "from", id |-> 0, live |-> TRUE] \in Row
    OBVIOUS
  <2>2. [row EXCEPT !.list = "from", !.live = TRUE] \in Row
    BY <1>a
  <2>3. saved.source \in {"none", "graph", "local"}
    BY <1>a DEF Steps
  <2> QED
    BY <1>d, <2>1, <2>2, <2>3 DEF MoveBack
<1>u. CASE RowKept
  BY <1>a, <1>u DEF RowKept
<1>1. CASE Run
  BY <1>1, <1>a DEF Run
<1>2. CASE Prepare
  BY <1>2, <1>a DEF Prepare
<1>3. CASE CreateRecord
  <2>1. made \in Copies
    BY <1>3, <1>a DEF CreateRecord, ShapeOK, PlaceOK, Copies
  <2> QED
    BY <1>3, <1>a, <1>c, <2>1 DEF CreateRecord
<1>4. CASE Finish
  <2>1. p.copy \in {None, 0} \cup Copies
    BY <1>a DEF Steps
  <2> QED
    BY <1>4, <1>a, <1>c, <2>1 DEF Finish
<1>5. CASE Settle
  BY <1>5, <1>a, <1>b DEF Settle, Merged, Deferred
<1>6. CASE Restart
  BY <1>6, <1>a DEF Restart, Recovered
<1>7. CASE Retry
  <2>1. [row EXCEPT !.list = "to", !.live = TRUE] \in Row
    BY <1>a
  <2> QED
    BY <1>7, <1>a, <2>1 DEF Retry
<1>8. CASE Discard
  BY <1>8, <1>a, <1>b, <1>d DEF Discard, Merged
<1>9. ASSUME NEW c \in Copies, Meet(c) PROVE RowTypes'
  BY <1>9, <1>a DEF Meet
<1>10. ASSUME NEW l \in {"from", "to"}, ReadWhole(l) PROVE RowTypes'
  <2>1. \A b \in BOOLEAN : [row EXCEPT !.live = b] \in Row
    BY <1>a
  <2>2. Original \in BOOLEAN /\ (row.id # None /\ copies[row.id].there) \in BOOLEAN
    BY DEF Original
  <2>3. (IF row.id = 0 THEN Original ELSE row.id # None /\ copies[row.id].there) \in BOOLEAN
    BY <2>2
  <2>4. row' \in Row
    BY <1>10, <1>a, <2>1, <2>3 DEF ReadWhole
  <2> QED
    BY <1>10, <1>a, <2>4 DEF ReadWhole
<1>11. ASSUME NEW l \in {"from", "to"}, ListGone(l) PROVE RowTypes'
  BY <1>11, <1>a, <1>d DEF ListGone
<1>12. ASSUME NEW c \in Copies, Attribute(c) PROVE RowTypes'
  BY <1>12, <1>a, <1>c DEF Attribute
<1>13. CASE SpoolLost
  BY <1>13, <1>a DEF SpoolLost
<1>14. CASE CreateIntent \/ CreatePost \/ AttachIntent \/ AttachPost \/ AttachRecord \/ VerifyCopy
            \/ VerifySource \/ DeleteIntent \/ DeleteRead \/ DeleteSend \/ DeleteAnswer
  BY <1>u, <1>14 DEF CreateIntent, CreatePost, AttachIntent, AttachPost, AttachRecord, VerifyCopy,
            VerifySource, DeleteIntent, DeleteRead, DeleteSend, DeleteAnswer, store, RowKept
<1>15. CASE RecoverSource \/ RecoverCopy \/ Recheck \/ RollBack \/ GraphDeletes \/ PhoneEdits
            \/ PhoneDeletes
  BY <1>u, <1>15 DEF RecoverSource, RecoverCopy, Recheck, RollBack, GraphDeletes, PhoneEdits,
            PhoneDeletes, store, RowKept
<1>16. ASSUME NEW v \in 1..(MaxEdits + 1), GraphCompares(v) PROVE RowTypes'
  BY <1>u, <1>16 DEF GraphCompares, store, RowKept
<1>17. ASSUME NEW l \in {"from", "to"}, PhoneDeletesList(l) PROVE RowTypes'
  BY <1>u, <1>17 DEF PhoneDeletesList, store, RowKept
<1>18. ASSUME NEW c \in Copies, PhoneEditsCopy(c) PROVE RowTypes'
  BY <1>u, <1>18 DEF PhoneEditsCopy, store, RowKept
<1>19. CASE UNCHANGED vars
  BY <1>u, <1>19 DEF vars, store, RowKept
<1> QED
  BY <1>1, <1>2, <1>3, <1>4, <1>5, <1>6, <1>7, <1>8, <1>9, <1>10, <1>11, <1>12, <1>13, <1>14,
     <1>15, <1>16, <1>17, <1>18, <1>19 DEF Next, Attempt, Others

\* The history and the counters keep their types.
LEMMA PastTypesKept == TypeOK /\ ShapeOK /\ PromiseOK /\ [Next]_vars => PastTypes'
<1> SUFFICES ASSUME TypeOK, ShapeOK, PromiseOK, [Next]_vars PROVE PastTypes'
  OBVIOUS
<1> USE DEF PastTypes
<1>a. PastTypes /\ version \in 1..(MaxEdits + 1) /\ late \in BOOLEAN /\ aimed \in BOOLEAN
  BY DEF TypeOK, GraphTypes
<1>f. ASSUME NEW e, Fault(e) PROVE faults' \in 0..MaxFaults
  BY <1>a, <1>f DEF Fault
<1>p. CASE UNCHANGED past
  BY <1>a, <1>p DEF past
<1>q. CASE Past /\ faults' \in 0..MaxFaults
  BY <1>a, <1>q DEF Past
<1> USE DEF NoFault, SaveFails, ReadFailure, ReadFailed
<1>1. CASE Run \/ Prepare \/ CreateIntent \/ CreatePost
  <2>1. faults' \in 0..MaxFaults
    BY <1>1, <1>a, <1>f DEF Run, Prepare, CreateIntent, CreatePost
  <2> QED
    BY <1>1, <1>q, <2>1 DEF Run, Prepare, CreateIntent, CreatePost
<1>2. CASE CreateRecord \/ AttachIntent \/ AttachPost \/ VerifySource
  <2>1. faults' \in 0..MaxFaults
    BY <1>2, <1>a, <1>f DEF CreateRecord, AttachIntent, AttachPost, VerifySource
  <2> QED
    BY <1>2, <1>q, <2>1 DEF CreateRecord, AttachIntent, AttachPost, VerifySource
<1>3. CASE DeleteIntent \/ DeleteRead \/ DeleteSend \/ DeleteAnswer
  <2>1. faults' \in 0..MaxFaults
    BY <1>3, <1>a, <1>f DEF DeleteIntent, DeleteRead, DeleteSend, DeleteAnswer
  <2> QED
    BY <1>3, <1>q, <2>1 DEF DeleteIntent, DeleteRead, DeleteSend, DeleteAnswer
<1>4. CASE RecoverSource \/ RecoverCopy \/ Finish \/ RollBack \/ Restart \/ SpoolLost
  <2>1. faults' \in 0..MaxFaults
    BY <1>4, <1>a, <1>f DEF RecoverSource, RecoverCopy, Finish, RollBack, Restart, SpoolLost
  <2> QED
    BY <1>4, <1>q, <2>1 DEF RecoverSource, RecoverCopy, Finish, RollBack, Restart, SpoolLost
<1>5. CASE AttachRecord
  <2>1. faults' \in 0..MaxFaults
    BY <1>5, <1>a, <1>f DEF AttachRecord
  <2> QED
    BY <1>5, <1>a, <2>1 DEF AttachRecord
<1>6. CASE VerifyCopy
  <2>1. faults' \in 0..MaxFaults
    BY <1>6, <1>a, <1>f DEF VerifyCopy
  <2>2. p.etag \in 1..(MaxEdits + 1)
    BY <1>6, <1>a DEF VerifyCopy, AtStage, PromiseOK, BackedOK
  <2> QED
    BY <1>6, <1>a, <2>1, <2>2 DEF VerifyCopy
<1>7. CASE Recheck
  <2>1. faults' \in 0..MaxFaults
    BY <1>7, <1>a, <1>f DEF Recheck
  <2>2. read \in 1..(MaxEdits + 1)
    BY <1>7, <1>a DEF Recheck, PromiseOK, ReadOK
  <2> QED
    BY <1>7, <1>a, <2>1, <2>2 DEF Recheck
<1>8. CASE Settle \/ GraphDeletes \/ Discard
  BY <1>8, <1>p DEF Settle, GraphDeletes, Discard
<1>9. CASE Retry
  BY <1>9, <1>a DEF Retry
<1>10. CASE PhoneEdits
  <2>1. late' \in BOOLEAN
    BY <1>10, <1>a DEF PhoneEdits
  <2> QED
    BY <1>10, <1>a, <2>1 DEF PhoneEdits
<1>11. CASE PhoneDeletes
  BY <1>11, <1>a DEF PhoneDeletes, Touch
<1>12. ASSUME NEW v \in 1..(MaxEdits + 1), GraphCompares(v) PROVE PastTypes'
  BY <1>12, <1>p DEF GraphCompares
<1>13. ASSUME NEW l \in {"from", "to"}, ReadWhole(l) \/ ListGone(l) PROVE PastTypes'
  BY <1>13, <1>p DEF ReadWhole, ListGone
<1>14. ASSUME NEW l \in {"from", "to"}, PhoneDeletesList(l) PROVE PastTypes'
  BY <1>14, <1>a DEF PhoneDeletesList, Touch
<1>15. ASSUME NEW c \in Copies, Meet(c) \/ Attribute(c) PROVE PastTypes'
  BY <1>15, <1>p DEF Meet, Attribute
<1>16. ASSUME NEW c \in Copies, PhoneEditsCopy(c) PROVE PastTypes'
  BY <1>16, <1>a DEF PhoneEditsCopy, Touch
<1>17. CASE UNCHANGED vars
  BY <1>17, <1>p DEF vars
<1> QED
  BY <1>1, <1>2, <1>3, <1>4, <1>5, <1>6, <1>7, <1>8, <1>9, <1>10, <1>11, <1>12, <1>13, <1>14,
     <1>15, <1>16, <1>17 DEF Next, Attempt, Others

-----------------------------------------------------------------------------
(* The shape.                                                              *)

\* Wherever the attempt is, it is at the stage that was saved, and has a copy
\* where it needs one.
LEMMA ShapeKept == TypeOK /\ ShapeOK /\ [Next]_vars => ShapeOK'
<1> SUFFICES ASSUME TypeOK, ShapeOK, [Next]_vars PROVE ShapeOK'
  OBVIOUS
<1>a. p \in Steps /\ saved \in Steps /\ made \in 0..MaxCopies
  BY DEF TypeOK, AttemptTypes, GraphTypes
<1>u. CASE UNCHANGED <<p, saved, at, state, made>>
  BY <1>u DEF ShapeOK, PlaceOK, CopyOK, Agree
<1>s. ASSUME UNCHANGED <<p, saved, state, made>>, at # "idle",
             at' \in {"settle", "finish"} \/ (at' = "recheck" /\ p.stage = "delete")
      PROVE  ShapeOK'
  BY <1>s DEF ShapeOK, PlaceOK, CopyOK, Agree
<1> USE DEF ShapeOK, PlaceOK, CopyOK, Agree, Steps, AtStage, Save, Goto, End, Abort, NextStage,
            RollBackFrom, PauseFor, ReadFailure, ReadFailed, SaveFails, RowKept, graph
<1>1. CASE Run
  BY <1>1, <1>a DEF Run
<1>2. CASE Prepare
  <2> DEFINE q == [p EXCEPT !.stage = "create", !.source = "graph", !.etag = version,
                            !.files = [f \in Files |-> "pending"]]
  <2>1. UNCHANGED <<state, made>> /\ at # "idle" /\ p.stage = "prepare" /\ state = "inflight" /\ q.stage = "create"
    BY <1>2, <1>a DEF Prepare
  <2>2. CASE NextStage(q)
    <3> HIDE DEF q
    <3> QED
      BY <1>a, <2>1, <2>2
  <2>3. CASE UNCHANGED <<p, saved>> /\ at' = "settle"
    BY <1>s, <2>1, <2>3
  <2> QED
    BY <1>2, <2>2, <2>3 DEF Prepare
<1>3. CASE CreateIntent
  BY <1>3, <1>a DEF CreateIntent
<1>4. CASE CreatePost
  <2>1. at = "post" /\ state' = state
    BY <1>4 DEF CreatePost
  <2>2. CASE Made /\ UNCHANGED <<p, saved>>
    <3>1. made' >= 1
      BY <1>a, <2>2 DEF Made
    <3> QED
      BY <1>4, <1>a, <2>1, <2>2, <3>1 DEF CreatePost
  <2> DEFINE q == [p EXCEPT !.in_doubt = FALSE]
  <2>3. CASE made' = made /\ Abort("paused")
    BY <1>a, <2>1, <2>3
  <2>4. CASE made' = made /\ RollBackFrom(q)
    BY <1>a, <2>1, <2>4
  <2>5. CASE made' = made /\ Save(q) /\ End("temporary")
    BY <1>a, <2>1, <2>5
  <2> QED
    BY <1>4, <2>2, <2>3, <2>4, <2>5 DEF CreatePost
<1>5. CASE CreateRecord
  <2>1. made \in Copies
    BY <1>5, <1>a DEF CreateRecord, Copies
  <2>2. CASE NextStage(Created)
    BY <1>5, <1>a, <2>1, <2>2 DEF CreateRecord, Created
  <2>3. CASE Abort("paused")
    BY <1>5, <1>a, <2>3 DEF CreateRecord
  <2> QED
    BY <1>5, <2>2, <2>3 DEF CreateRecord
<1>6. CASE AttachIntent
  <2>1. at = "stage" /\ p.stage = "attachments" /\ UNCHANGED <<state, made>>
    BY <1>6 DEF AttachIntent
  <2>2. CASE NextStage([p EXCEPT !.stage = "verify"])
    BY <1>a, <2>1, <2>2
  <2>3. ASSUME NEW f \in Files, Goto("put"),
               Save([p EXCEPT !.files[f] = "sent", !.in_doubt = TRUE, !.needs_user = TRUE])
        PROVE  ShapeOK'
    <3>1. p'.files[f] = "sent"
      BY <1>a, <2>3
    <3> QED
      BY <1>a, <2>1, <2>3, <3>1
  <2>4. CASE RollBackFrom(p)
    BY <1>a, <2>1, <2>4
  <2>5. CASE UNCHANGED <<p, saved>> /\ End("temporary")
    BY <1>a, <2>1, <2>5
  <2> QED
    BY <1>6, <2>2, <2>3, <2>4, <2>5 DEF AttachIntent
<1>7. CASE AttachPost
  <2> DEFINE Answered(x) == [p EXCEPT !.files[Sending] = x, !.in_doubt = FALSE, !.needs_user = FALSE]
  <2>1. at = "put" /\ p.stage = "attachments" /\ UNCHANGED <<state, made>>
    BY <1>7 DEF AttachPost
  <2>2. CASE p' = Answered("done") /\ Goto("putted") /\ UNCHANGED saved
    BY <1>a, <2>1, <2>2
  <2>3. CASE RollBackFrom(Answered("pending"))
    BY <1>a, <2>1, <2>3
  <2>4. CASE Save(Answered("pending")) /\ End("temporary")
    BY <1>a, <2>1, <2>4
  <2>5. CASE Abort("paused")
    BY <1>a, <2>1, <2>5
  <2> QED
    BY <1>7, <2>2, <2>3, <2>4, <2>5 DEF AttachPost
<1>8. CASE AttachRecord
  BY <1>8, <1>a DEF AttachRecord
<1>9. CASE VerifyCopy
  BY <1>9, <1>a DEF VerifyCopy
<1>10. CASE VerifySource
  BY <1>10, <1>a DEF VerifySource
<1>11. CASE DeleteIntent
  BY <1>11, <1>a DEF DeleteIntent
<1>12. CASE DeleteRead
  BY <1>12, <1>a DEF DeleteRead
<1>13. CASE DeleteSend
  BY <1>13, <1>a DEF DeleteSend, store
<1>14. CASE DeleteAnswer
  BY <1>14, <1>a DEF DeleteAnswer
<1>15. CASE RecoverSource
  BY <1>15, <1>a DEF RecoverSource
<1>16. CASE RecoverCopy
  <2>1. UNCHANGED <<state, made>> /\ state = "inflight" /\ p.stage = "delete" /\ at # "idle" /\ Agree
    BY <1>16 DEF RecoverCopy
  <2>2. CASE p' = [p EXCEPT !.checked = copies[p.copy].holds] /\ Goto("finish") /\ UNCHANGED saved
    <3>1. p'.stage = p.stage /\ p'.copy = p.copy /\ Agree'
      BY <1>a, <2>1, <2>2
    <3> QED
      BY <2>1, <2>2, <3>1
  <2>3. CASE UNCHANGED <<p, saved>> /\ at' \in {"recheck", "settle"}
    BY <1>s, <2>1, <2>3
  <2>4. CASE RollBackFrom([p EXCEPT !.copy = None])
    BY <1>a, <2>1, <2>4
  <2>5. CASE PauseFor([p EXCEPT !.both_missing = TRUE])
    <3>1. p'.stage = p.stage /\ p'.copy = p.copy /\ saved' = p' /\ at' = "settle"
      BY <1>a, <2>5
    <3> QED
      BY <2>1, <3>1
  <2> QED
    BY <1>16, <2>2, <2>3, <2>4, <2>5 DEF RecoverCopy, BothThere
<1>17. CASE Recheck
  <2>1. UNCHANGED <<state, made>> /\ state = "inflight" /\ p.stage = "delete" /\ at # "idle"
    BY <1>17 DEF Recheck
  <2>2. CASE Save([p EXCEPT !.checked = read]) /\ Goto("read")
    BY <1>a, <2>1, <2>2
  <2>3. CASE PauseFor(p) \/ RollBackFrom([p EXCEPT !.copy = None])
    BY <1>a, <2>1, <2>3
  <2>4. CASE UNCHANGED <<p, saved>> /\ at' = "settle"
    BY <1>s, <2>1, <2>4
  <2> QED
    BY <1>17, <2>2, <2>3, <2>4 DEF Recheck, Differ
<1>18. CASE Finish
  BY <1>18, <1>a DEF Finish
<1>19. CASE RollBack
  BY <1>19, <1>a DEF RollBack
<1>20. CASE Settle
  BY <1>20, <1>a DEF Settle, Deferred
<1>21. CASE Restart
  BY <1>21, <1>a DEF Restart, NoSteps
<1>22. CASE Retry
  BY <1>22, <1>a DEF Retry, RetrySteps, NoSteps, memory
<1>23. CASE Discard
  BY <1>23, <1>a DEF Discard, memory
<1>24. ASSUME NEW l \in {"from", "to"}, ListGone(l) PROVE ShapeOK'
  BY <1>24, <1>a DEF ListGone, memory
<1>25. ASSUME NEW c \in Copies, Attribute(c) PROVE ShapeOK'
  BY <1>25, <1>a DEF Attribute, Found, memory
<1>26. CASE GraphDeletes \/ PhoneEdits \/ PhoneDeletes \/ SpoolLost
  BY <1>u, <1>26 DEF GraphDeletes, PhoneEdits, PhoneDeletes, SpoolLost, store, memory
<1>27. ASSUME NEW v \in 1..(MaxEdits + 1), GraphCompares(v) PROVE ShapeOK'
  BY <1>u, <1>27 DEF GraphCompares, store, memory
<1>28. ASSUME NEW l \in {"from", "to"}, ReadWhole(l) \/ PhoneDeletesList(l) PROVE ShapeOK'
  BY <1>u, <1>28 DEF ReadWhole, PhoneDeletesList, store, memory
<1>29. ASSUME NEW c \in Copies, Meet(c) \/ PhoneEditsCopy(c) PROVE ShapeOK'
  BY <1>u, <1>29 DEF Meet, PhoneEditsCopy, store, memory
<1>30. CASE UNCHANGED vars
  BY <1>u, <1>30 DEF vars, store, memory
<1> QED
  BY <1>1, <1>2, <1>3, <1>4, <1>5, <1>6, <1>7, <1>8, <1>9, <1>10, <1>11, <1>12, <1>13, <1>14,
     <1>15, <1>16, <1>17, <1>18, <1>19, <1>20, <1>21, <1>22, <1>23, <1>24, <1>25, <1>26, <1>27,
     <1>28, <1>29, <1>30 DEF Next, Attempt, Others

-----------------------------------------------------------------------------
(* What the promise rests on is kept.                                      *)

LEMMA PromiseKept == TypeOK /\ ShapeOK /\ PromiseOK /\ [Next]_vars => PromiseOK'
<1> SUFFICES ASSUME TypeOK, ShapeOK, PromiseOK, [Next]_vars PROVE PromiseOK'
  OBVIOUS
<1>a. /\ p \in Steps /\ saved \in Steps /\ version \in 1..(MaxEdits + 1)
      /\ checked \subseteq 1..(MaxEdits + 1) /\ read \in 0..(MaxEdits + 1)
  BY DEF TypeOK, AttemptTypes, GraphTypes, PastTypes
<1>u. CASE UNCHANGED <<p, saved, at, read, version, removed, asked, reply, checked>>
  BY <1>u DEF PromiseOK, BackedOK, ReadOK, Original
<1> USE DEF PromiseOK, BackedOK, ReadOK, Original, Deleted, ShapeOK, PlaceOK, Agree, Steps, AtStage,
            Save, Goto, End, Abort, NextStage, RollBackFrom, PauseFor, ReadFailure, ReadFailed,
            SaveFails, RowKept, Past, graph, store
<1>1. CASE Run
  BY <1>1, <1>a DEF Run
<1>2. CASE Prepare
  <2> DEFINE q == [p EXCEPT !.stage = "create", !.source = "graph", !.etag = version,
                            !.files = [f \in Files |-> "pending"]]
  <2>1. UNCHANGED <<version, removed, asked, reply, checked>> /\ p.stage = "prepare"
    BY <1>2 DEF Prepare
  <2>2. q.stage = "create" /\ q.source = "graph" /\ q.etag = version /\ q.both_missing = p.both_missing
    BY <1>a
  <2>3. CASE NextStage(q)
    <3> HIDE DEF q
    <3> QED
      BY <1>a, <2>1, <2>2, <2>3
  <2>4. CASE Abort("failed") \/ Abort("temporary")
    BY <1>a, <2>1, <2>4
  <2>5. CASE UNCHANGED <<p, saved>> /\ End("temporary")
    BY <1>a, <2>1, <2>5
  <2> QED
    BY <1>2, <2>3, <2>4, <2>5 DEF Prepare
<1>3. CASE CreateIntent
  BY <1>3, <1>a DEF CreateIntent
<1>4. CASE CreatePost
  <2> DEFINE q == [p EXCEPT !.in_doubt = FALSE]
  <2>1. UNCHANGED <<version, removed, asked, reply, checked>> /\ p.stage = "create"
    BY <1>4 DEF CreatePost
  <2>2. q.stage = p.stage /\ q.source = p.source /\ q.etag = p.etag /\ q.both_missing = p.both_missing
    BY <1>a
  <2>3. CASE UNCHANGED <<p, saved>> /\ (Goto("posted") \/ End("paused"))
    BY <1>a, <2>1, <2>3
  <2>4. CASE RollBackFrom(q)
    BY <1>a, <2>1, <2>2, <2>4
  <2>5. CASE Save(q) /\ End("temporary")
    <3> HIDE DEF q
    <3> QED
      BY <1>a, <2>1, <2>2, <2>5
  <2> QED
    BY <1>4, <2>3, <2>4, <2>5 DEF CreatePost
<1>5. CASE CreateRecord
  <2>1. UNCHANGED <<version, removed, asked, reply, checked>> /\ p.stage = "create"
    BY <1>5 DEF CreateRecord
  <2>2. /\ Created.stage = "attachments" /\ Created.source = p.source /\ Created.etag = p.etag
        /\ Created.both_missing = p.both_missing
    BY <1>a DEF Created
  <2>3. CASE NextStage(Created)
    BY <1>a, <2>1, <2>2, <2>3
  <2>4. CASE Abort("paused")
    BY <1>a, <2>1, <2>4
  <2> QED
    BY <1>5, <2>3, <2>4 DEF CreateRecord
<1>6. CASE AttachIntent
  <2>1. UNCHANGED <<version, removed, asked, reply, checked>> /\ p.stage = "attachments"
    BY <1>6 DEF AttachIntent
  <2>2. CASE NextStage([p EXCEPT !.stage = "verify"])
    BY <1>a, <2>1, <2>2
  <2>3. ASSUME NEW f \in Files, Goto("put"),
               Save([p EXCEPT !.files[f] = "sent", !.in_doubt = TRUE, !.needs_user = TRUE])
        PROVE  PromiseOK'
    BY <1>a, <2>1, <2>3
  <2>4. CASE RollBackFrom(p)
    BY <1>a, <2>1, <2>4
  <2>5. CASE UNCHANGED <<p, saved>> /\ End("temporary")
    BY <1>a, <2>1, <2>5
  <2> QED
    BY <1>6, <2>2, <2>3, <2>4, <2>5 DEF AttachIntent
<1>7. CASE AttachPost
  <2> DEFINE Answered(x) == [p EXCEPT !.files[Sending] = x, !.in_doubt = FALSE, !.needs_user = FALSE]
  <2>1. UNCHANGED <<version, removed, asked, reply, checked>> /\ p.stage = "attachments"
    BY <1>7 DEF AttachPost
  <2>2. CASE p' = Answered("done") /\ Goto("putted") /\ UNCHANGED saved
    BY <1>a, <2>1, <2>2
  <2>3. CASE RollBackFrom(Answered("pending"))
    BY <1>a, <2>1, <2>3
  <2>4. CASE Save(Answered("pending")) /\ End("temporary")
    BY <1>a, <2>1, <2>4
  <2>5. CASE Abort("paused")
    BY <1>a, <2>1, <2>5
  <2> QED
    BY <1>7, <2>2, <2>3, <2>4, <2>5 DEF AttachPost
<1>8. CASE AttachRecord
  BY <1>8, <1>a DEF AttachRecord
<1>9. CASE VerifyCopy
  BY <1>9, <1>a DEF VerifyCopy
<1>10. CASE VerifySource
  BY <1>10, <1>a DEF VerifySource
<1>11. CASE DeleteIntent
  BY <1>11, <1>a DEF DeleteIntent
<1>12. CASE DeleteRead
  BY <1>12, <1>a DEF DeleteRead
<1>13. CASE DeleteSend
  BY <1>13, <1>a DEF DeleteSend, store
<1>14. CASE DeleteAnswer
  BY <1>14, <1>a DEF DeleteAnswer, Deleted
<1>15. CASE RecoverSource
  BY <1>15, <1>a DEF RecoverSource
<1>16. CASE RecoverCopy
  <2>1. /\ UNCHANGED <<version, removed, asked, reply, checked>> /\ p.stage = "delete"
        /\ at = "recover_copy" /\ read <= version /\ (read = 0 => ~Original) /\ checked # {}
    BY <1>16 DEF RecoverCopy
  <2>2. CASE read = 0 /\ p' = [p EXCEPT !.checked = copies[p.copy].holds] /\ Goto("finish") /\ saved' = saved
    BY <1>a, <2>1, <2>2
  <2>3. CASE read # 0 /\ Goto("recheck") /\ UNCHANGED <<p, saved>>
    BY <1>a, <2>1, <2>3
  <2>4. CASE RollBackFrom([p EXCEPT !.copy = None])
    BY <1>a, <2>1, <2>4
  <2>5. CASE read = 0 /\ PauseFor([p EXCEPT !.both_missing = TRUE])
    BY <1>a, <2>1, <2>5
  <2>6. CASE Abort("failed") \/ Abort("temporary")
    BY <1>a, <2>1, <2>6
  <2> QED
    BY <1>16, <2>2, <2>3, <2>4, <2>5, <2>6 DEF RecoverCopy, BothThere
<1>17. CASE Recheck
  <2>1. /\ UNCHANGED <<version, removed, asked, reply>> /\ p.stage = "delete"
        /\ at = "recheck" /\ read \in 1..version /\ p.etag \in checked
    BY <1>17 DEF Recheck
  <2>2. CASE /\ checked' = checked \cup {read} /\ Save([p EXCEPT !.checked = read])
             /\ Goto("read")
    BY <1>a, <2>1, <2>2
  <2>3. CASE PauseFor(p) /\ checked' = checked
    BY <1>a, <2>1, <2>3
  <2>4. CASE RollBackFrom([p EXCEPT !.copy = None]) /\ checked' = checked
    BY <1>a, <2>1, <2>4
  <2>5. CASE (Abort("failed") \/ Abort("temporary")) /\ checked' = checked
    BY <1>a, <2>1, <2>5
  <2> QED
    BY <1>17, <2>2, <2>3, <2>4, <2>5 DEF Recheck, Differ
<1>18. CASE Finish
  <2> DEFINE q == [p EXCEPT !.needs_user = FALSE, !.both_missing = FALSE]
  <2>1. UNCHANGED <<version, removed, asked, reply, checked>>
    BY <1>18 DEF Finish
  <2>2. /\ q.stage = p.stage /\ q.source = p.source /\ q.etag = p.etag /\ q.both_missing = FALSE
    BY <1>a
  <2>3. CASE Save(q) /\ at' = "idle"
    <3> HIDE DEF q
    <3> QED
      BY <1>a, <2>1, <2>2, <2>3
  <2>4. CASE UNCHANGED <<p, saved>> /\ at' = "settle"
    BY <1>a, <2>1, <2>4
  <2> QED
    BY <1>18, <2>3, <2>4 DEF Finish
<1>19. CASE RollBack
  BY <1>19, <1>a DEF RollBack
<1>20. CASE Settle
  BY <1>20, <1>a DEF Settle, past
<1>21. CASE Restart
  BY <1>21, <1>a DEF Restart, NoSteps
<1>22. CASE Retry
  BY <1>22, <1>a DEF Retry, RetrySteps, NoSteps, memory
<1>23. ASSUME NEW c \in Copies, Attribute(c) PROVE PromiseOK'
  BY <1>23, <1>a DEF Attribute, Found, memory, past
<1>24. CASE GraphDeletes
  BY <1>24, <1>a DEF GraphDeletes, memory, past
<1>25. ASSUME NEW v \in 1..(MaxEdits + 1), GraphCompares(v) PROVE PromiseOK'
  BY <1>25, <1>a DEF GraphCompares, memory, past
<1>26. CASE PhoneEdits
  BY <1>26, <1>a DEF PhoneEdits, memory
<1>27. CASE PhoneDeletes
  BY <1>27, <1>a DEF PhoneDeletes, memory
<1>28. ASSUME NEW l \in {"from", "to"}, PhoneDeletesList(l) PROVE PromiseOK'
  BY <1>28, <1>a DEF PhoneDeletesList, memory
<1>29. CASE Discard \/ SpoolLost
  BY <1>u, <1>29 DEF Discard, SpoolLost, memory, past
<1>30. ASSUME NEW l \in {"from", "to"}, ReadWhole(l) \/ ListGone(l) PROVE PromiseOK'
  BY <1>u, <1>30 DEF ReadWhole, ListGone, memory, past
<1>31. ASSUME NEW c \in Copies, Meet(c) \/ PhoneEditsCopy(c) PROVE PromiseOK'
  BY <1>u, <1>31 DEF Meet, PhoneEditsCopy, memory, past
<1>32. CASE UNCHANGED vars
  BY <1>u, <1>32 DEF vars, memory, past
<1> QED
  BY <1>1, <1>2, <1>3, <1>4, <1>5, <1>6, <1>7, <1>8, <1>9, <1>10, <1>11, <1>12, <1>13, <1>14,
     <1>15, <1>16, <1>17, <1>18, <1>19, <1>20, <1>21, <1>22, <1>23, <1>24, <1>25, <1>26, <1>27,
     <1>28, <1>29, <1>30, <1>31, <1>32 DEF Next, Attempt, Others

MoveInv == TypeOK /\ ShapeOK /\ PromiseOK

LEMMA MoveStarts == Init => MoveInv
<1> SUFFICES ASSUME Init PROVE MoveInv
  OBVIOUS
<1> USE DEF Init
<1>1. p \in Steps /\ saved \in Steps
  BY NoStepsTyped
<1>2. GraphTypes
  <2>1. NoCopy \in [there : BOOLEAN, holds : 0..Other, files : [Files -> Nat]]
    BY DEF NoCopy, Other
  <2>2. copies \in [Copies -> [there : BOOLEAN, holds : 0..Other, files : [Files -> Nat]]]
    BY <2>1
  <2>3. aimed \in BOOLEAN
    BY Zenon
  <2>4. version \in 1..(MaxEdits + 1) /\ made \in 0..MaxCopies
    OBVIOUS
  <2> QED
    BY <2>2, <2>3, <2>4 DEF GraphTypes
<1>3. RowTypes
  BY DEF RowTypes
<1>4. AttemptTypes
  BY <1>1 DEF AttemptTypes
<1>5. PastTypes
  <2>1. late \in BOOLEAN
    BY Zenon
  <2>2. touches \in 0..MaxTouches /\ faults \in 0..MaxFaults /\ choices \in 0..MaxChoices
    OBVIOUS
  <2> QED
    BY <2>1, <2>2 DEF PastTypes
<1>6. ShapeOK
  BY DEF ShapeOK, PlaceOK, CopyOK, NoSteps
<1>7. PromiseOK
  BY DEF PromiseOK, BackedOK, ReadOK, NoSteps, Deleted
<1> QED
  BY <1>2, <1>3, <1>4, <1>5, <1>6, <1>7 DEF MoveInv, TypeOK

LEMMA MoveInvariant == Spec => []MoveInv
<1>1. MoveInv /\ [Next]_vars => MoveInv'
  BY GraphTypesKept, RowTypesKept, AttemptTypesKept, PastTypesKept, ShapeKept, PromiseKept
     DEF MoveInv, TypeOK, PromiseOK
<1> QED
  BY MoveStarts, <1>1, PTL DEF Spec

\* Every variable of the move keeps its type, for any attachments, copies, edits and faults: the
\* steps saved in the database are always ones an attempt can go on from.
THEOREM MoveTypes == Spec => []TypeOK
<1>1. MoveInv => TypeOK
  BY DEF MoveInv
<1> QED
  BY MoveInvariant, <1>1, PTL

-----------------------------------------------------------------------------
(* The move implements its promise.                                        *)

\* What a step that changes none of Graph's side and nothing checked does to
\* the promise: at most it says something else.
LEMMA OnlySaid ==
  ASSUME UNCHANGED <<version, removed, checked, aimed>>, state' = state
  PROVE  UNCHANGED Promise!vars
BY DEF Promise!vars, Said

LEMMA StepsAllowed == MoveInv /\ [Next]_vars => [Promise!Next]_(Promise!vars)
<1> SUFFICES ASSUME MoveInv, [Next]_vars PROVE [Promise!Next]_(Promise!vars)
  OBVIOUS
<1> DEFINE Allowed == [Promise!Next]_(Promise!vars)
<1>a. /\ p \in Steps /\ version \in 1..(MaxEdits + 1) /\ ShapeOK /\ PromiseOK
      /\ state \in {"pending", "inflight", "unknown", "done", "failed", "dropped"}
  BY DEF MoveInv, TypeOK, AttemptTypes, GraphTypes, RowTypes
<1>1. CASE VerifyCopy
  <2>1. at = "stage" /\ p.stage = "verify" /\ state = "inflight" /\ p.etag \in 1..version
    BY <1>1, <1>a DEF VerifyCopy, AtStage, ShapeOK, PlaceOK, PromiseOK, BackedOK
  <2>2. UNCHANGED <<version, removed, aimed, state>>
    BY <1>1 DEF VerifyCopy, graph, RowKept
  <2>3. CASE checked' = checked \cup {p.etag}
    BY <2>1, <2>2, <2>3 DEF Promise!Next, Promise!Check, Said
  <2>4. CASE checked' = checked
    BY <2>2, <2>4, OnlySaid
  <2> QED
    BY <1>1, <2>3, <2>4 DEF VerifyCopy
<1>2. CASE Recheck
  <2>1. at = "recheck" /\ state = "inflight" /\ read \in 1..version
    BY <1>2, <1>a DEF Recheck, ShapeOK, PlaceOK, PromiseOK, ReadOK
  <2>2. UNCHANGED <<version, removed, aimed, state>>
    BY <1>2 DEF Recheck, graph, RowKept
  <2>3. CASE checked' = checked \cup {read}
    BY <2>1, <2>2, <2>3 DEF Promise!Next, Promise!Check, Said
  <2>4. CASE checked' = checked
    BY <2>2, <2>4, OnlySaid
  <2> QED
    BY <1>2, <2>3, <2>4 DEF Recheck
<1>3. ASSUME NEW v \in 1..(MaxEdits + 1), GraphCompares(v) PROVE Allowed
  <2>1. UNCHANGED <<version, removed, checked, state>> /\ v \in checked
    BY <1>3, <1>a DEF GraphCompares, store, past, PromiseOK, ReadOK
  <2>2. CASE Original /\ version = v
    BY <1>3, <2>1, <2>2 DEF GraphCompares, Original, Promise!Next, Promise!Aim, Said
  <2>3. CASE ~(Original /\ version = v)
    BY <1>3, <2>1, <2>3, OnlySaid DEF GraphCompares
  <2> QED
    BY <2>2, <2>3
<1>4. CASE GraphDeletes
  BY <1>4 DEF GraphDeletes, Original, store, past, Promise!Next, Promise!Remove, Promise!Miss, Said
<1>5. CASE Finish
  <2>1. at = "finish" /\ state = "inflight" /\ removed # "no" /\ checked # {}
    BY <1>5, <1>a DEF Finish, ShapeOK, PlaceOK, PromiseOK, ReadOK, Original
  <2>2. UNCHANGED <<version, removed, aimed, checked>>
    BY <1>5 DEF Finish, graph, Past
  <2>3. CASE state' = "done"
    BY <2>1, <2>2, <2>3 DEF Promise!Next, Promise!Finish, Said
  <2>4. CASE state' = state
    BY <2>2, <2>4, OnlySaid
  <2> QED
    BY <1>5, <2>3, <2>4 DEF Finish
<1>6. CASE Settle
  <2>1. state = "inflight" /\ UNCHANGED <<version, removed, aimed, checked>>
    BY <1>6, <1>a DEF Settle, ShapeOK, PlaceOK, graph, past
  <2>2. state' \in {"unknown", "pending", "failed"}
    BY <1>6 DEF Settle, Deferred
  <2> QED
    BY <2>1, <2>2 DEF Promise!Next, Promise!Stop, Promise!vars, Said
<1>7. CASE Restart
  <2>1. state = "inflight" /\ UNCHANGED <<version, removed, aimed, checked>>
    BY <1>7 DEF Restart, graph, Past
  <2>2. state' \in {"unknown", "pending"}
    BY <1>7 DEF Restart, Recovered
  <2> QED
    BY <2>1, <2>2 DEF Promise!Next, Promise!Stop, Promise!vars, Said
<1>8. CASE Retry
  BY <1>8 DEF Retry, graph, Promise!Next, Promise!Resume, Said
<1>9. CASE Discard
  BY <1>9 DEF Discard, graph, past, Promise!Next, Promise!Stop, Said
<1>10. ASSUME NEW l \in {"from", "to"}, ListGone(l) PROVE Allowed
  <2>1. UNCHANGED <<version, removed, aimed, checked>>
    BY <1>10 DEF ListGone, graph, past
  <2>2. CASE state \in {"pending", "unknown"} /\ state' = "failed"
    BY <2>1, <2>2 DEF Promise!Next, Promise!Stop, Said
  <2>3. CASE state' = state
    BY <2>1, <2>3, OnlySaid
  <2> QED
    BY <1>10, <2>2, <2>3 DEF ListGone
<1>11. ASSUME NEW c \in Copies, Attribute(c) PROVE Allowed
  BY <1>11 DEF Attribute, graph, past, Promise!Next, Promise!Resume, Said
<1>12. CASE PhoneEdits
  BY <1>12, <1>a DEF PhoneEdits, Original, store, Promise!Next, Promise!Edit, Said
<1>13. CASE PhoneDeletes
  <2>1. UNCHANGED <<version, checked, aimed, state>>
    BY <1>13 DEF PhoneDeletes, store
  <2>2. CASE Original /\ removed' = "phone"
    BY <2>1, <2>2 DEF Original, Promise!Next, Promise!Delete, Said
  <2>3. CASE removed' = removed
    BY <2>1, <2>3, OnlySaid
  <2> QED
    BY <1>13, <2>2, <2>3 DEF PhoneDeletes
<1>14. ASSUME NEW l \in {"from", "to"}, PhoneDeletesList(l) PROVE Allowed
  <2>1. UNCHANGED <<version, checked, aimed, state>>
    BY <1>14 DEF PhoneDeletesList, store
  <2>2. CASE Original /\ removed' = "phone"
    BY <2>1, <2>2 DEF Original, Promise!Next, Promise!Delete, Said
  <2>3. CASE removed' = removed
    BY <2>1, <2>3, OnlySaid
  <2> QED
    BY <1>14, <2>2, <2>3 DEF PhoneDeletesList
<1>15. CASE Run
  BY <1>15 DEF Run, graph, Past, Promise!vars, Said
<1>16. CASE Prepare \/ CreateIntent \/ CreatePost \/ CreateRecord \/ AttachIntent \/ AttachPost
            \/ AttachRecord \/ VerifySource \/ DeleteIntent \/ DeleteRead
  BY <1>16, OnlySaid DEF Prepare, CreateIntent, CreatePost, CreateRecord, AttachIntent, AttachPost,
            AttachRecord, VerifySource, DeleteIntent, DeleteRead, graph, Past, RowKept
<1>17. CASE DeleteSend \/ DeleteAnswer \/ RecoverSource \/ RecoverCopy \/ RollBack \/ SpoolLost
  BY <1>17, OnlySaid DEF DeleteSend, DeleteAnswer, RecoverSource, RecoverCopy, RollBack, SpoolLost,
            graph, Past, RowKept, store
<1>18. ASSUME NEW l \in {"from", "to"}, ReadWhole(l) PROVE Allowed
  BY <1>18, OnlySaid DEF ReadWhole, graph, past
<1>19. ASSUME NEW c \in Copies, Meet(c) \/ PhoneEditsCopy(c) PROVE Allowed
  BY <1>19, OnlySaid DEF Meet, PhoneEditsCopy, graph, past, store
<1>20. CASE UNCHANGED vars
  BY <1>20, OnlySaid DEF vars, graph, past, store
<1> QED
  BY <1>1, <1>2, <1>3, <1>4, <1>5, <1>6, <1>7, <1>8, <1>9, <1>10, <1>11, <1>12, <1>13, <1>14,
     <1>15, <1>16, <1>17, <1>18, <1>19, <1>20 DEF Next, Attempt, Others

\* The saga implements MoveTask, whatever fails, stops, is retried or is done on a phone between
\* two of its steps: it removes the original only at a version some copy was found to hold (but
\* for an edit inside Graph's batch), and says done only once the original is gone and a copy
\* was checked.
THEOREM MoveRefines == Spec => Refines
<1>1. Init => Promise!Init
  BY DEF Init, Promise!Init, Said
<1> QED
  BY MoveInvariant, StepsAllowed, <1>1, PTL DEF Spec, Refines, Promise!Spec

-----------------------------------------------------------------------------
(* Nothing is lost.                                                        *)

LEMMA MadeKept == MoveInv /\ MadeOK /\ [Next]_vars => MadeOK'
<1> SUFFICES ASSUME MoveInv, MadeOK, [Next]_vars, NEW c \in Copies, copies'[c].there PROVE c <= made'
  BY DEF MadeOK
<1>a. /\ copies \in [Copies -> [there : BOOLEAN, holds : 0..Other, files : [Files -> Nat]]]
      /\ made \in 0..MaxCopies /\ ShapeOK
  BY DEF MoveInv, TypeOK, GraphTypes
<1>u. CASE UNCHANGED graph
  BY <1>u DEF graph, MadeOK
<1>1. CASE CreatePost
  <2>1. CASE Made
    BY <1>a, <2>1 DEF Made, MadeOK, Copies
  <2>2. CASE UNCHANGED <<copies, made>>
    BY <2>2 DEF MadeOK
  <2> QED
    BY <1>1, <2>1, <2>2 DEF CreatePost
<1>2. CASE copies[c].there /\ made' = made
  BY <1>2 DEF MadeOK
<1>3. CASE AttachPost
  <2>1. p.copy \in Copies
    BY <1>3, <1>a DEF AttachPost, ShapeOK, PlaceOK, CopyOK
  <2> QED
    BY <1>2, <1>3, <1>a, <2>1 DEF AttachPost, Put
<1>4. CASE DeleteSend \/ DeleteAnswer \/ GraphDeletes \/ PhoneEdits
  BY <1>2, <1>4 DEF DeleteSend, DeleteAnswer, GraphDeletes, PhoneEdits
<1>5. CASE RollBack
  BY <1>2, <1>5, <1>a DEF RollBack
<1>6. ASSUME NEW v \in 1..(MaxEdits + 1), GraphCompares(v) PROVE c <= made'
  BY <1>2, <1>6 DEF GraphCompares
<1>7. CASE PhoneDeletes
  BY <1>2, <1>7, <1>a DEF PhoneDeletes
<1>8. ASSUME NEW l \in {"from", "to"}, PhoneDeletesList(l) PROVE c <= made'
  BY <1>2, <1>8, <1>a DEF PhoneDeletesList
<1>9. ASSUME NEW d \in Copies, PhoneEditsCopy(d) PROVE c <= made'
  BY <1>2, <1>9, <1>a DEF PhoneEditsCopy
<1>10. CASE Run \/ Prepare \/ CreateIntent \/ CreateRecord \/ AttachIntent \/ AttachRecord
            \/ VerifyCopy \/ VerifySource \/ DeleteIntent \/ DeleteRead
  BY <1>u, <1>10 DEF Run, Prepare, CreateIntent, CreateRecord, AttachIntent, AttachRecord,
                     VerifyCopy, VerifySource, DeleteIntent, DeleteRead
<1>11. CASE RecoverSource \/ RecoverCopy \/ Recheck \/ Finish \/ Settle \/ Restart \/ Retry
            \/ Discard \/ SpoolLost
  BY <1>u, <1>11 DEF RecoverSource, RecoverCopy, Recheck, Finish, Settle, Restart, Retry,
                     Discard, SpoolLost
<1>12. ASSUME NEW l \in {"from", "to"}, ReadWhole(l) \/ ListGone(l) PROVE c <= made'
  BY <1>u, <1>12 DEF ReadWhole, ListGone
<1>13. ASSUME NEW d \in Copies, Meet(d) \/ Attribute(d) PROVE c <= made'
  BY <1>u, <1>13 DEF Meet, Attribute
<1>14. CASE UNCHANGED vars
  BY <1>u, <1>14 DEF vars
<1> QED
  BY <1>1, <1>3, <1>4, <1>5, <1>6, <1>7, <1>8, <1>9, <1>10, <1>11, <1>12, <1>13, <1>14
     DEF Next, Attempt, Others

LEMMA SafeKept == MoveInv /\ MadeOK /\ SafeOK /\ [Next]_vars => SafeOK'
<1> SUFFICES ASSUME MoveInv, MadeOK, SafeOK, [Next]_vars, touches' = 0
             PROVE  SafeOK'
  BY DEF SafeOK
<1>a. /\ p \in Steps /\ saved \in Steps /\ version \in 1..(MaxEdits + 1)
      /\ copies \in [Copies -> [there : BOOLEAN, holds : 0..Other, files : [Files -> Nat]]]
      /\ touches \in 0..MaxTouches /\ made \in 0..MaxCopies /\ ShapeOK /\ PromiseOK
  BY DEF MoveInv, TypeOK, AttemptTypes, GraphTypes, PastTypes
<1>t. ASSUME touches' = touches
      PROVE  /\ live = {"from", "to"}
             /\ SafeSteps(p) /\ SafeSteps(saved) /\ SafeAttempt
             /\ ~late => SafeDelete
  BY <1>t DEF SafeOK
<1>u. CASE UNCHANGED <<graph, memory, saved, late, touches>>
  BY <1>t, <1>u DEF SafeOK, SafeSteps, SafeAttempt, SafeDelete, Holds, Matches, Original, graph, memory
<1>x. ASSUME Touch PROVE FALSE
  BY <1>x, <1>a DEF Touch
<1> USE DEF SafeOK, SafeSteps, SafeAttempt, SafeDelete, Holds, Matches, Original, ShapeOK, PlaceOK,
            CopyOK, Agree, Steps, AtStage,
            Save, Goto, End, Abort, NextStage, RollBackFrom, PauseFor, ReadFailure, ReadFailed,
            SaveFails, RowKept, Past, graph
<1>1. CASE Run
  BY <1>1, <1>a, <1>t DEF Run
<1>2. CASE Prepare
  <2> DEFINE q == [p EXCEPT !.stage = "create", !.source = "graph", !.etag = version,
                            !.files = [f \in Files |-> "pending"]]
  <2>1. UNCHANGED <<version, removed, copies, live, asked, aimed, late, touches>>
        /\ at = "stage" /\ p.stage = "prepare" /\ saved.stage = "prepare"
    BY <1>2, <1>a DEF Prepare
  <2>2. q.stage = "create" /\ q.delete_started = p.delete_started /\ q.both_missing = p.both_missing
    BY <1>a
  <2>3. CASE NextStage(q) /\ Original
    <3> HIDE DEF q
    <3> QED
      BY <1>a, <1>t, <2>1, <2>2, <2>3
  <2>4. CASE Abort("failed") \/ Abort("temporary")
    BY <1>a, <1>t, <2>1, <2>4
  <2>5. CASE UNCHANGED <<p, saved>> /\ End("temporary")
    BY <1>a, <1>t, <2>1, <2>5
  <2> QED
    BY <1>2, <2>3, <2>4, <2>5 DEF Prepare
<1>3. CASE CreateIntent
  BY <1>3, <1>a, <1>t DEF CreateIntent
<1>4. CASE CreateRecord
  <2>1. UNCHANGED <<version, removed, copies, live, asked, aimed, late, touches>>
        /\ at = "posted" /\ p.stage = "create" /\ saved.stage = "create"
    BY <1>4, <1>a DEF CreateRecord
  <2>2. /\ Created.stage = "attachments" /\ Created.delete_started = p.delete_started
        /\ Created.both_missing = p.both_missing
    BY <1>a DEF Created
  <2>3. CASE NextStage(Created)
    BY <1>a, <1>t, <2>1, <2>2, <2>3
  <2>4. CASE Abort("paused")
    BY <1>a, <1>t, <2>1, <2>4
  <2> QED
    BY <1>4, <2>3, <2>4 DEF CreateRecord
<1>5. CASE AttachIntent
  <2>1. UNCHANGED <<version, removed, copies, live, asked, aimed, late, touches>>
        /\ at = "stage" /\ p.stage = "attachments" /\ saved.stage = "attachments"
    BY <1>5, <1>a DEF AttachIntent
  <2>2. CASE NextStage([p EXCEPT !.stage = "verify"])
    BY <1>a, <1>t, <2>1, <2>2
  <2>3. ASSUME NEW f \in Files, Goto("put"),
               Save([p EXCEPT !.files[f] = "sent", !.in_doubt = TRUE, !.needs_user = TRUE])
        PROVE  SafeOK'
    BY <1>a, <1>t, <2>1, <2>3
  <2>4. CASE RollBackFrom(p)
    BY <1>a, <1>t, <2>1, <2>4
  <2>5. CASE UNCHANGED <<p, saved>> /\ End("temporary")
    BY <1>a, <1>t, <2>1, <2>5
  <2> QED
    BY <1>5, <2>2, <2>3, <2>4, <2>5 DEF AttachIntent
<1>6. CASE AttachRecord
  BY <1>6, <1>a, <1>t DEF AttachRecord
<1>7. CASE VerifyCopy
  BY <1>7, <1>a, <1>t DEF VerifyCopy
<1>8. CASE VerifySource
  <2>1. UNCHANGED <<version, removed, copies, live, asked, aimed, late, touches>>
        /\ at = "source" /\ p.stage = "verify" /\ saved.stage = "verify"
    BY <1>8, <1>a, <1>t DEF VerifySource
  <2>2. CASE (p.source = "local" \/ ~Original) /\ Goto("finish") /\ UNCHANGED <<p, saved>>
    BY <1>a, <1>t, <2>1, <2>2
  <2>3. CASE NextStage([p EXCEPT !.stage = "delete"])
    <3>1. Holds(p.copy, p.etag)
      BY <1>t, <2>1
    <3>2. p'.stage = "delete" /\ p'.copy = p.copy /\ p'.etag = p.etag /\ saved' = p'
          /\ p'.both_missing = p.both_missing /\ p'.delete_started = p.delete_started /\ at' = "stage"
      BY <1>a, <2>3
    <3> QED
      BY <1>a, <1>t, <2>1, <3>1, <3>2
  <2>4. CASE RollBackFrom(p)
    BY <1>a, <1>t, <2>1, <2>4
  <2>5. CASE UNCHANGED <<p, saved>> /\ at' = "settle"
    BY <1>a, <1>t, <2>1, <2>5
  <2> QED
    BY <1>8, <2>2, <2>3, <2>4, <2>5 DEF VerifySource
<1>9. CASE DeleteIntent
  BY <1>9, <1>a, <1>t DEF DeleteIntent
<1>10. CASE DeleteRead
  <2>1. UNCHANGED <<version, removed, copies, live, asked, aimed, late, touches>>
        /\ at = "read" /\ p.stage = "delete" /\ saved.stage = "delete" /\ read = p.etag
    BY <1>10, <1>a, <1>t DEF DeleteRead
  <2>2. CASE UNCHANGED <<p, saved>> /\ (Goto("finish") \/ Goto("batch"))
    BY <1>a, <1>t, <2>1, <2>2
  <2>3. CASE PauseFor(p)
    BY <1>a, <1>t, <2>1, <2>3
  <2>4. CASE Abort("failed") \/ Abort("temporary")
    BY <1>a, <1>t, <2>1, <2>4
  <2> QED
    BY <1>10, <2>2, <2>3, <2>4 DEF DeleteRead
<1>11. CASE DeleteSend
  <2>1. /\ UNCHANGED <<version, removed, copies, live, aimed, late, touches, p, saved, read>>
        /\ at = "batch" /\ p.stage = "delete" /\ at' = "batched"
    BY <1>11, <1>a DEF DeleteSend, store
  <2>2. asked' = asked \cup {read} /\ read = saved.etag /\ saved.delete_started
    BY <1>11, <1>a, <1>t, <2>1 DEF DeleteSend
  <2> QED
    BY <1>a, <1>t, <2>1, <2>2
<1>12. CASE DeleteAnswer
  <2>1. UNCHANGED <<version, removed, copies, live, aimed, late, touches>> /\ asked' \subseteq asked
        /\ at = "batched" /\ p.stage = "delete" /\ saved.stage = "delete"
        /\ p.delete_started /\ saved.delete_started
    BY <1>12, <1>a, <1>t DEF DeleteAnswer
  <2>2. CASE UNCHANGED <<p, saved>> /\ at' \in {"finish", "settle"}
    BY <1>a, <1>t, <2>1, <2>2
  <2>3. CASE PauseFor(p)
    BY <1>a, <1>t, <2>1, <2>3
  <2> QED
    BY <1>12, <2>2, <2>3 DEF DeleteAnswer
<1>13. CASE RecoverSource
  BY <1>13, <1>a, <1>t DEF RecoverSource
<1>14. CASE RecoverCopy
  <2>1. UNCHANGED <<version, removed, copies, live, asked, aimed, late, touches>>
        /\ at = "recover_copy" /\ p.stage = "delete" /\ Agree /\ p.delete_started
    BY <1>14, <1>a, <1>t DEF RecoverCopy
  <2>2. copies[p.copy].there
    BY <1>t, <2>1
  <2>3. CASE p' = [p EXCEPT !.checked = copies[p.copy].holds] /\ Goto("finish") /\ UNCHANGED saved
    BY <1>a, <1>t, <2>1, <2>3
  <2>4. CASE Goto("recheck") /\ UNCHANGED <<p, saved>>
    BY <1>a, <1>t, <2>1, <2>4
  <2>5. CASE Abort("failed") \/ Abort("temporary")
    BY <1>a, <1>t, <2>1, <2>5
  <2> QED
    BY <1>14, <2>2, <2>3, <2>4, <2>5 DEF RecoverCopy, BothThere
<1>15. CASE Recheck
  <2>1. UNCHANGED <<version, removed, copies, live, asked, aimed, late, touches>>
        /\ at = "recheck" /\ p.stage = "delete" /\ saved.stage = "delete"
        /\ p.delete_started /\ saved.delete_started /\ p.etag = saved.etag /\ p.copy = saved.copy
    BY <1>15, <1>a, <1>t DEF Recheck
  <2>2. CASE Matches(p.copy, read) /\ Save([p EXCEPT !.checked = read]) /\ Goto("read")
    <3>1. read = p.etag
      BY <1>t, <2>1, <2>2
    <3> QED
      BY <1>a, <1>t, <2>1, <2>2, <3>1
  <2>3. CASE PauseFor(p)
    BY <1>a, <1>t, <2>1, <2>3
  <2>4. CASE ~("to" \in live /\ copies[p.copy].there)
    BY <1>a, <1>t, <2>1, <2>4
  <2>5. CASE UNCHANGED <<p, saved>> /\ at' = "settle"
    BY <1>a, <1>t, <2>1, <2>5
  <2> QED
    BY <1>15, <2>2, <2>3, <2>4, <2>5 DEF Recheck, Differ, Same
<1>16. CASE Finish
  <2> DEFINE q == [p EXCEPT !.needs_user = FALSE, !.both_missing = FALSE]
  <2>1. UNCHANGED <<version, removed, copies, live, asked, aimed, late, touches>>
        /\ at = "finish" /\ Agree
    BY <1>16, <1>a DEF Finish
  <2>2. /\ q.stage = p.stage /\ q.copy = p.copy /\ q.etag = p.etag
        /\ q.delete_started = p.delete_started /\ ~q.both_missing
    BY <1>a
  <2>3. CASE Save(q) /\ at' = "idle"
    <3> HIDE DEF q
    <3> QED
      BY <1>a, <1>t, <2>1, <2>2, <2>3
  <2>4. CASE UNCHANGED <<p, saved>> /\ End("temporary")
    BY <1>a, <1>t, <2>1, <2>4
  <2> QED
    BY <1>16, <2>3, <2>4 DEF Finish
<1>17. CASE Settle
  BY <1>17, <1>a, <1>t DEF Settle, past
<1>18. CASE Restart
  BY <1>18, <1>a, <1>t DEF Restart, NoSteps
<1>19. CASE Retry
  BY <1>19, <1>a, <1>t DEF Retry, RetrySteps, NoSteps, memory
<1>20. CASE CreatePost
  <2> DEFINE q == [p EXCEPT !.in_doubt = FALSE]
  <2>1. UNCHANGED <<version, removed, live, asked, aimed, late, touches>>
        /\ at = "post" /\ p.stage = "create" /\ saved.stage = "create"
    BY <1>20, <1>a DEF CreatePost
  <2>2. q.stage = p.stage /\ q.delete_started = p.delete_started /\ q.both_missing = p.both_missing
    BY <1>a
  <2>3. ~late => Original
    BY <1>t, <2>1
  <2>4. CASE UNCHANGED <<p, saved>> /\ (Goto("posted") \/ End("paused"))
    BY <1>a, <1>t, <2>1, <2>3, <2>4
  <2>5. CASE RollBackFrom(q)
    BY <1>a, <1>t, <2>1, <2>2, <2>3, <2>5
  <2>6. CASE Save(q) /\ End("temporary")
    <3> HIDE DEF q
    <3> QED
      BY <1>a, <1>t, <2>1, <2>2, <2>3, <2>6
  <2> QED
    BY <1>20, <2>4, <2>5, <2>6 DEF CreatePost
<1>21. CASE AttachPost
  <2> DEFINE Answered(x) == [p EXCEPT !.files[Sending] = x, !.in_doubt = FALSE, !.needs_user = FALSE]
  <2>1. UNCHANGED <<version, removed, live, asked, aimed, late, touches>>
        /\ at = "put" /\ p.stage = "attachments" /\ saved.stage = "attachments"
    BY <1>21, <1>a DEF AttachPost
  <2>2. ~late => Original
    BY <1>t, <2>1
  <2>3. CASE p' = Answered("done") /\ Goto("putted") /\ UNCHANGED saved
    BY <1>a, <1>t, <2>1, <2>2, <2>3
  <2>4. CASE RollBackFrom(Answered("pending"))
    BY <1>a, <1>t, <2>1, <2>2, <2>4
  <2>5. CASE Save(Answered("pending")) /\ End("temporary")
    BY <1>a, <1>t, <2>1, <2>2, <2>5
  <2>6. CASE Abort("paused")
    BY <1>a, <1>t, <2>1, <2>2, <2>6
  <2> QED
    BY <1>21, <2>3, <2>4, <2>5, <2>6 DEF AttachPost
<1>22. CASE RollBack
  BY <1>22, <1>a, <1>t DEF RollBack
<1>23. ASSUME NEW c \in Copies, Attribute(c) PROVE SafeOK'
  BY <1>23, <1>a, <1>t DEF Attribute, Found, memory, past
<1>24. CASE GraphDeletes
  BY <1>24, <1>a, <1>t DEF GraphDeletes, memory, past, store
<1>25. ASSUME NEW v \in 1..(MaxEdits + 1), GraphCompares(v) PROVE SafeOK'
  BY <1>25, <1>a, <1>t DEF GraphCompares, memory, past, store
<1>26. CASE PhoneEdits
  BY <1>26, <1>a, <1>t DEF PhoneEdits, memory, store
<1>27. CASE PhoneDeletes
  BY <1>27, <1>x DEF PhoneDeletes
<1>28. ASSUME NEW l \in {"from", "to"}, PhoneDeletesList(l) PROVE SafeOK'
  BY <1>28, <1>x DEF PhoneDeletesList
<1>29. CASE Discard \/ SpoolLost
  BY <1>u, <1>29 DEF Discard, SpoolLost, past
<1>30. ASSUME NEW l \in {"from", "to"}, ReadWhole(l) \/ ListGone(l) PROVE SafeOK'
  BY <1>u, <1>30 DEF ReadWhole, ListGone, past
<1>31. ASSUME NEW c \in Copies, Meet(c) PROVE SafeOK'
  BY <1>u, <1>31 DEF Meet, past
<1>32. ASSUME NEW c \in Copies, PhoneEditsCopy(c) PROVE SafeOK'
  BY <1>32, <1>x DEF PhoneEditsCopy
<1>33. CASE UNCHANGED vars
  BY <1>u, <1>33 DEF vars, past, store
<1> QED
  BY <1>1, <1>2, <1>3, <1>4, <1>5, <1>6, <1>7, <1>8, <1>9, <1>10, <1>11, <1>12, <1>13, <1>14,
     <1>15, <1>16, <1>17, <1>18, <1>19, <1>20, <1>21, <1>22, <1>23, <1>24, <1>25, <1>26, <1>27,
     <1>28, <1>29, <1>30, <1>31, <1>32, <1>33 DEF Next, Attempt, Others

\* The task is never lost, whatever fails, stops or is retried: as long as the phone deletes
\* nothing and leaves the copy alone and no edit lands inside Graph's batch, Graph has its last
\* version in the original or in a copy with every attachment.
THEOREM MoveNeverLost == Spec => []NeverLost
<1>1. Init => MadeOK /\ SafeOK
  BY DEF Init, MadeOK, NoCopy, SafeOK, SafeSteps, SafeAttempt, SafeDelete, NoSteps, Original
<1>2. MoveInv /\ MadeOK /\ SafeOK /\ [Next]_vars => MadeOK' /\ SafeOK'
  BY MadeKept, SafeKept
<1>3. SafeOK => NeverLost
  BY DEF SafeOK, SafeDelete, NeverLost, Holds
<1> QED
  BY MoveInvariant, <1>1, <1>2, <1>3, PTL DEF Spec

-----------------------------------------------------------------------------
(* Why no POST is sent twice in one choice of the user.                    *)

Early(s) == s.stage \in {"prepare", "create"}

\* The copy's POST may still be sent in this choice.
Fresh ==
  /\ state \in {"pending", "inflight"}
  /\ Early(saved) /\ saved.copy = None
  /\ ~saved.in_doubt \/ at = "post"

\* A POST that may have run is in doubt, and what is in doubt waits for the user.
CreateOK ==
  /\ made <= 1 + choices
  /\ Fresh => made <= choices
  /\ at \in {"post", "posted"} => saved.in_doubt /\ saved.copy = None
  /\ Early(saved) /\ saved.in_doubt =>
       /\ state # "pending"
       /\ state = "inflight" => at \in {"post", "posted"} \/ (at = "settle" /\ ended = "paused")

\* At most one upload is out, and it is saved as in doubt before it goes.
FilesOK ==
  /\ at \notin {"idle", "putted", "settle"} => p.files = saved.files /\ p.in_doubt = saved.in_doubt
  /\ \A f, g \in Files : saved.files[f] = "sent" /\ saved.files[g] = "sent" => f = g
  /\ \A f \in Files : saved.files[f] = "sent" => saved.in_doubt /\ ~Early(saved)
  /\ at = "putted" => \A f \in Files :
        p.files[f] = "done" \/ (p.files[f] = "pending" /\ saved.files[f] = "pending")

\* A move ends after its uploads.
FinishOK == at = "finish" => saved.stage \in {"verify", "delete"}

\* An upload whose answer was not saved is sent again without being asked.
MayResend(f) ==
  /\ saved.files[f] = "sent"
  /\ state = "pending" \/ at \in {"stage", "put"} \/ (at = "settle" /\ ended = "temporary")

\* Attachment f may still be sent to copy c in this choice.
MaySend(c, f) ==
  \/ Early(saved)
  \/ saved.stage = "attachments" /\ c = saved.copy /\ (saved.files[f] = "pending" \/ MayResend(f))

UploadsOK ==
  \A c \in Copies, f \in Files :
    /\ copies[c].files[f] <= 1 + choices + unsaved
    /\ MaySend(c, f) => copies[c].files[f] <= choices + unsaved

\* The copy's POST is sent once per choice.
LEMMA CreateKept == TypeOK /\ ShapeOK /\ FilesOK /\ CreateOK /\ [Next]_vars => CreateOK'
<1> SUFFICES ASSUME TypeOK, ShapeOK, FilesOK, CreateOK, [Next]_vars PROVE CreateOK'
  OBVIOUS
<1>a. p \in Steps /\ saved \in Steps /\ made \in 0..MaxCopies /\ choices \in 0..MaxChoices
  BY DEF TypeOK, AttemptTypes, GraphTypes, PastTypes
<1>u. CASE UNCHANGED <<saved, at, ended, state, made, choices>>
  BY <1>u DEF CreateOK, Fresh, Early
<1>l. ASSUME ~Early(saved'), at' \notin {"post", "posted"}, UNCHANGED <<made, choices>>
      PROVE  CreateOK'
  BY <1>l DEF CreateOK, Fresh
<1>b. saved.in_doubt \in BOOLEAN /\ p.in_doubt \in BOOLEAN
  BY <1>a DEF Steps
<1>k. ASSUME UNCHANGED <<saved, state, made, choices>>, ~saved.in_doubt,
             at \notin {"post", "posted"}, at' \notin {"post", "posted"}
      PROVE  CreateOK'
  BY <1>k, <1>b DEF CreateOK, Fresh, Early
<1> USE DEF Past, RowKept, Save, Goto, End, Abort, NextStage, RollBackFrom, PauseFor, ReadFailure,
            ReadFailed, SaveFails, AtStage
<1>1. CASE Run
  <2>1. /\ UNCHANGED <<saved, made, choices>> /\ state = "pending" /\ at = "idle"
        /\ at' \in {"stage", "settle"}
    BY <1>1 DEF Run, graph
  <2>2. CASE Early(saved) /\ saved.in_doubt
    BY <2>1, <2>2 DEF CreateOK
  <2>3. CASE ~Early(saved)
    BY <1>l, <2>1, <2>3 DEF Early
  <2>4. CASE ~saved.in_doubt
    BY <1>a, <1>b, <2>1, <2>4 DEF CreateOK, Fresh, Early
  <2> QED
    BY <2>2, <2>3, <2>4
<1>2. CASE Prepare
  <2> DEFINE q == [p EXCEPT !.stage = "create", !.source = "graph", !.etag = version,
                            !.files = [f \in Files |-> "pending"]]
  <2>1. /\ UNCHANGED <<made, choices, state>> /\ at = "stage" /\ state = "inflight"
        /\ saved.stage = "prepare" /\ p.copy = saved.copy /\ p.in_doubt = saved.in_doubt
    BY <1>2 DEF Prepare, ShapeOK, PlaceOK, Agree, FilesOK, graph
  <2>6. ~saved.in_doubt
    BY <1>b, <2>1 DEF CreateOK, Early
  <2>2. q.stage = "create" /\ q.copy = p.copy /\ q.in_doubt = p.in_doubt
    BY <1>a DEF Steps
  <2>3. CASE NextStage(q)
    <3> HIDE DEF q
    <3> QED
      BY <1>a, <1>b, <2>1, <2>2, <2>3, <2>6 DEF CreateOK, Fresh, Early
  <2>4. CASE UNCHANGED saved /\ at' = "settle"
    BY <1>k, <2>1, <2>4, <2>6
  <2> QED
    BY <1>2, <2>3, <2>4 DEF Prepare
<1>3. CASE CreateIntent
  <2>1. /\ UNCHANGED <<made, choices, state>> /\ at = "stage" /\ state = "inflight"
        /\ saved.stage = "create" /\ p.stage = "create" /\ p.copy = saved.copy /\ ~saved.in_doubt
    BY <1>3, <1>a DEF CreateIntent, ShapeOK, PlaceOK, Agree, CreateOK, Early, graph
  <2>2. CASE NextStage([p EXCEPT !.stage = "attachments"])
    BY <1>l, <1>a, <2>1, <2>2 DEF Early, Steps
  <2>3. CASE p.copy = None /\ Save([p EXCEPT !.in_doubt = TRUE]) /\ Goto("post")
    <3>1. saved'.stage = "create" /\ saved'.copy = None /\ saved'.in_doubt
      BY <1>a, <2>1, <2>3 DEF Steps
    <3> QED
      BY <1>a, <2>1, <2>3, <3>1 DEF CreateOK, Fresh, Early
  <2>4. CASE UNCHANGED saved /\ at' = "settle"
    BY <1>k, <2>1, <2>4
  <2> QED
    BY <1>3, <2>2, <2>3, <2>4 DEF CreateIntent
<1>4. CASE CreatePost
  <2> DEFINE q == [p EXCEPT !.in_doubt = FALSE]
  <2>1. /\ UNCHANGED <<choices, state>> /\ at = "post" /\ state = "inflight" /\ saved.copy = None
        /\ saved.stage = "create" /\ p.stage = "create" /\ p.copy = saved.copy /\ saved.in_doubt
        /\ made <= choices
    BY <1>4, <1>a DEF CreatePost, ShapeOK, PlaceOK, Agree, CreateOK, Early, Fresh
  <2>2. CASE Made /\ UNCHANGED saved /\ (at' = "posted" \/ (at' = "settle" /\ ended' = "paused"))
    BY <1>a, <2>1, <2>2 DEF CreateOK, Fresh, Early, Made
  <2>3. CASE made' = made /\ UNCHANGED saved /\ at' = "settle" /\ ended' = "paused"
    BY <1>a, <2>1, <2>3 DEF CreateOK, Fresh, Early
  <2>4. CASE made' = made /\ RollBackFrom(q)
    BY <1>l, <1>a, <2>1, <2>4 DEF Early, Steps
  <2>5. CASE made' = made /\ Save(q) /\ End("temporary")
    <3>1. saved'.stage = "create" /\ saved'.copy = None /\ ~saved'.in_doubt
      BY <1>a, <2>1, <2>5 DEF Steps
    <3> QED
      BY <1>a, <2>1, <2>5, <3>1 DEF CreateOK, Fresh, Early
  <2> QED
    BY <1>4, <2>2, <2>3, <2>4, <2>5 DEF CreatePost
<1>5. CASE CreateRecord
  <2>1. CASE NextStage(Created)
    BY <1>5, <1>l, <1>a, <2>1 DEF CreateRecord, Created, Early, Steps, graph
  <2>2. CASE Abort("paused")
    BY <1>5, <1>a, <2>2 DEF CreateRecord, CreateOK, Fresh, Early, graph
  <2> QED
    BY <1>5, <2>1, <2>2 DEF CreateRecord
<1>6. CASE AttachIntent
  <2>1. /\ UNCHANGED <<made, choices>> /\ at' \notin {"post", "posted"}
        /\ p.stage = "attachments" /\ saved.stage = "attachments"
    BY <1>6 DEF AttachIntent, ShapeOK, PlaceOK, Agree, graph
  <2>2. ~Early(saved')
    BY <1>6, <1>a, <2>1 DEF AttachIntent, Early, Steps
  <2> QED
    BY <1>l, <2>1, <2>2
<1>7. CASE AttachPost
  <2>1. /\ UNCHANGED <<made, choices>> /\ at' \notin {"post", "posted"}
        /\ p.stage = "attachments" /\ saved.stage = "attachments"
    BY <1>7 DEF AttachPost, ShapeOK, PlaceOK, Agree
  <2>2. ~Early(saved')
    BY <1>7, <1>a, <2>1 DEF AttachPost, Early, Steps
  <2> QED
    BY <1>l, <2>1, <2>2
<1>8. CASE AttachRecord \/ VerifyCopy \/ VerifySource
  <2>1. /\ UNCHANGED <<made, choices>> /\ at' \notin {"post", "posted"}
        /\ p.stage \in {"attachments", "verify"} /\ saved.stage = p.stage
    BY <1>8 DEF AttachRecord, VerifyCopy, VerifySource, ShapeOK, PlaceOK, Agree, graph
  <2>2. ~Early(saved')
    BY <1>8, <1>a, <2>1 DEF AttachRecord, VerifyCopy, VerifySource, Early, Steps
  <2> QED
    BY <1>l, <2>1, <2>2
<1>9. CASE DeleteIntent \/ DeleteRead \/ DeleteSend \/ DeleteAnswer
  <2>1. /\ UNCHANGED <<made, choices>> /\ at' \notin {"post", "posted"}
        /\ p.stage = "delete" /\ saved.stage = "delete"
    BY <1>9 DEF DeleteIntent, DeleteRead, DeleteSend, DeleteAnswer, ShapeOK, PlaceOK, Agree, graph
  <2>2. ~Early(saved')
    BY <1>9, <1>a, <2>1 DEF DeleteIntent, DeleteRead, DeleteSend, DeleteAnswer, Early, Steps, store
  <2> QED
    BY <1>l, <2>1, <2>2
<1>10. CASE RecoverSource \/ RecoverCopy \/ Recheck
  <2>1. /\ UNCHANGED <<made, choices>> /\ at' \notin {"post", "posted"}
        /\ p.stage = "delete" /\ saved.stage = "delete"
    BY <1>10 DEF RecoverSource, RecoverCopy, Recheck, Differ, BothThere, ShapeOK, PlaceOK, Agree, graph
  <2>2. ~Early(saved')
    BY <1>10, <1>a, <2>1 DEF RecoverSource, RecoverCopy, Recheck, Differ, Early, Steps
  <2> QED
    BY <1>l, <2>1, <2>2
<1>11. CASE Finish
  <2>1. UNCHANGED <<made, choices>> /\ at = "finish" /\ p.stage = saved.stage /\ p.copy = saved.copy
    BY <1>11 DEF Finish, ShapeOK, PlaceOK, Agree, graph
  <2>2. saved'.stage = saved.stage /\ saved'.in_doubt = saved.in_doubt
    BY <1>11, <1>a, <2>1 DEF Finish, FilesOK, Steps
  <2>3. at' \in {"idle", "settle"} /\ state' \in {state, "done"} /\ (state' = "done" \/ saved' = saved)
    BY <1>11 DEF Finish
  <2>4. state = "inflight"
    BY <2>1 DEF ShapeOK, PlaceOK
  <2> QED
    BY <2>1, <2>2, <2>3, <2>4 DEF CreateOK, Fresh, Early
<1>12. CASE RollBack
  <2>1. /\ UNCHANGED <<made, choices>> /\ at' \notin {"post", "posted"}
        /\ p.stage = "rollback" /\ saved.stage = "rollback"
    BY <1>12 DEF RollBack, ShapeOK, PlaceOK, Agree
  <2>2. ~Early(saved')
    BY <1>12, <1>a, <2>1 DEF RollBack, Early, Steps
  <2> QED
    BY <1>l, <2>1, <2>2
<1>13. CASE Settle
  BY <1>13 DEF Settle, Deferred, CreateOK, Fresh, Early, ShapeOK, PlaceOK, graph, past
<1>14. CASE Restart
  BY <1>14 DEF Restart, Recovered, CreateOK, Fresh, Early, graph
<1>15. CASE Retry
  <2>1. choices' = choices + 1 /\ made' = made /\ at' = at /\ at = "idle" /\ state' = "pending"
    BY <1>15 DEF Retry, graph, memory, ShapeOK, PlaceOK
  <2>2. ~saved'.in_doubt
    BY <1>15, <1>a DEF Retry, RetrySteps, NoSteps, Steps
  <2> QED
    BY <1>a, <2>1, <2>2 DEF CreateOK, Fresh, Early
<1>16. CASE Discard
  BY <1>16 DEF Discard, CreateOK, Fresh, Early, graph, memory, past
<1>17. ASSUME NEW l \in {"from", "to"}, ListGone(l) PROVE CreateOK'
  BY <1>17 DEF ListGone, CreateOK, Fresh, Early, graph, memory, past
<1>18. ASSUME NEW c \in Copies, Attribute(c) PROVE CreateOK'
  <2>1. /\ UNCHANGED <<made, choices>> /\ at' = at /\ at = "idle"
    BY <1>18 DEF Attribute, graph, memory, past, ShapeOK, PlaceOK
  <2>2. ~Early(saved')
    BY <1>18, <1>a DEF Attribute, Found, Early, Steps
  <2> QED
    BY <1>l, <2>1, <2>2
<1>19. CASE GraphDeletes \/ PhoneEdits \/ PhoneDeletes \/ SpoolLost
  BY <1>u, <1>19 DEF GraphDeletes, PhoneEdits, PhoneDeletes, SpoolLost, Touch, store, memory, past, graph
<1>20. ASSUME NEW v \in 1..(MaxEdits + 1), GraphCompares(v) PROVE CreateOK'
  BY <1>u, <1>20 DEF GraphCompares, store, memory, past
<1>21. ASSUME NEW l \in {"from", "to"}, ReadWhole(l) \/ PhoneDeletesList(l) PROVE CreateOK'
  BY <1>u, <1>21 DEF ReadWhole, PhoneDeletesList, Touch, store, memory, past, graph
<1>22. ASSUME NEW c \in Copies, Meet(c) \/ PhoneEditsCopy(c) PROVE CreateOK'
  BY <1>u, <1>22 DEF Meet, PhoneEditsCopy, Touch, store, memory, past, graph
<1>23. CASE UNCHANGED vars
  BY <1>u, <1>23 DEF vars, store, memory, graph, past
<1> QED
  BY <1>1, <1>2, <1>3, <1>4, <1>5, <1>6, <1>7, <1>8, <1>9, <1>10, <1>11, <1>12, <1>13, <1>14,
     <1>15, <1>16, <1>17, <1>18, <1>19, <1>20, <1>21, <1>22, <1>23 DEF Next, Attempt, Others

\* One upload at a time is out, and the database knows of it.
LEMMA FilesKept == TypeOK /\ ShapeOK /\ FilesOK /\ [Next]_vars => FilesOK'
<1> SUFFICES ASSUME TypeOK, ShapeOK, FilesOK, [Next]_vars PROVE FilesOK'
  OBVIOUS
<1>a. p \in Steps /\ saved \in Steps
  BY DEF TypeOK, AttemptTypes
<1>k. ASSUME saved'.files = saved.files, saved'.in_doubt = saved.in_doubt,
             Early(saved') => Early(saved),
             at' # "putted",
             at' \in {"idle", "settle"} \/ (p'.files = saved'.files /\ p'.in_doubt = saved'.in_doubt)
      PROVE  FilesOK'
  BY <1>k DEF FilesOK
<1>n. ASSUME \A f \in Files : saved'.files[f] # "sent", at' # "putted",
             at' \in {"idle", "settle"} \/ (p'.files = saved'.files /\ p'.in_doubt = saved'.in_doubt)
      PROVE  FilesOK'
  BY <1>n DEF FilesOK
<1>c. CASE UNCHANGED saved /\ at' \in {"idle", "settle"}
  BY <1>k, <1>c
<1>d. CASE UNCHANGED <<saved, p>> /\ at \notin {"idle", "settle", "putted"} /\ at' # "putted"
  BY <1>k, <1>d DEF FilesOK
<1>e. CASE UNCHANGED <<saved, p, at>>
  BY <1>e DEF FilesOK
\* What is saved without touching the files.
<1>q. ASSUME NEW q, Save(q), at \notin {"idle", "settle", "putted"}, at' # "putted",
             q.files = p.files, q.in_doubt = p.in_doubt,
             Early(q) => Early(saved)
      PROVE  FilesOK'
  BY <1>k, <1>q DEF FilesOK, Save
<1> USE DEF Goto, End, Abort, NextStage, RollBackFrom, PauseFor, ReadFailure, ReadFailed,
            SaveFails, AtStage
<1>s. \A x \in Stages : LET q == [p EXCEPT !.stage = x]
                        IN  q.stage = x /\ q.files = p.files /\ q.in_doubt = p.in_doubt
  BY <1>a DEF Steps
<1>l. ASSUME NEW x \in Stages, x \notin {"prepare", "create"}, NextStage([p EXCEPT !.stage = x]), at = "stage" \/ at = "source"
      PROVE  FilesOK'
  BY <1>l, <1>q, <1>s DEF Early
<1>p. ASSUME at \notin {"idle", "settle", "putted"}, PauseFor(p) PROVE FilesOK'
  <2>1. LET q == [p EXCEPT !.needs_user = TRUE]
        IN  q.files = p.files /\ q.in_doubt = p.in_doubt /\ q.stage = p.stage
    BY <1>a DEF Steps
  <2> QED
    BY <1>p, <1>q, <2>1 DEF Early, ShapeOK, PlaceOK, Agree
<1>1. CASE Run
  BY <1>1, <1>k DEF Run
<1>2. CASE Prepare
  <2> DEFINE q == [p EXCEPT !.stage = "create", !.source = "graph", !.etag = version,
                            !.files = [f \in Files |-> "pending"]]
  <2>1. CASE NextStage(q)
    <3>1. \A f \in Files : q.files[f] = "pending"
      BY <1>a DEF Steps
    <3> HIDE DEF q
    <3> QED
      BY <1>n, <2>1, <3>1 DEF Save
  <2> QED
    BY <1>2, <1>c, <2>1 DEF Prepare
<1>3. CASE CreateIntent
  <2>1. CASE Save([p EXCEPT !.in_doubt = TRUE]) /\ Goto("post")
    <3>1. p.stage = "create" /\ saved.stage = "create" /\ p.files = saved.files
      BY <1>3 DEF CreateIntent, ShapeOK, PlaceOK, Agree, FilesOK
    <3>2. \A f \in Files : saved.files[f] # "sent"
      BY <3>1 DEF FilesOK, Early
    <3>3. saved'.files = saved.files
      BY <1>a, <2>1, <3>1 DEF Save, Steps
    <3> QED
      BY <1>n, <2>1, <3>2, <3>3 DEF Save
  <2> QED
    BY <1>3, <1>c, <1>l, <2>1 DEF CreateIntent, Stages
<1>4. CASE CreatePost
  <2> DEFINE q == [p EXCEPT !.in_doubt = FALSE]
  <2>1. at = "post" /\ p.stage = "create" /\ saved.stage = "create" /\ p.files = saved.files
    BY <1>4 DEF CreatePost, ShapeOK, PlaceOK, Agree, FilesOK
  <2>2. \A f \in Files : saved.files[f] # "sent"
    BY <2>1 DEF FilesOK, Early
  <2>3. q.files = p.files /\ [q EXCEPT !.stage = "rollback"].files = p.files
    BY <1>a DEF Steps
  <2> HIDE DEF q
  <2>4. CASE RollBackFrom(q) \/ (Save(q) /\ End("temporary"))
    BY <1>n, <2>1, <2>2, <2>3, <2>4 DEF Save
  <2> USE DEF q
  <2>5. CASE UNCHANGED <<p, saved>> /\ (at' = "posted" \/ at' = "settle")
    BY <1>d, <2>1, <2>5
  <2> QED
    BY <1>4, <2>4, <2>5 DEF CreatePost
<1>5. CASE CreateRecord
  <2>1. at = "posted" /\ saved.stage = "create" /\ p.files = saved.files
    BY <1>5 DEF CreateRecord, ShapeOK, PlaceOK, Agree, FilesOK
  <2>2. \A f \in Files : saved.files[f] # "sent"
    BY <2>1 DEF FilesOK, Early
  <2>3. CASE NextStage(Created)
    <3>1. Created.files = p.files
      BY <1>a DEF Created, Steps
    <3> QED
      BY <1>n, <2>1, <2>2, <2>3, <3>1 DEF Save
  <2> QED
    BY <1>5, <1>c, <2>3 DEF CreateRecord
<1>6. CASE AttachIntent
  <2>1. at = "stage" /\ p.stage = "attachments" /\ p.files = saved.files
    BY <1>6 DEF AttachIntent, FilesOK
  <2>2. ASSUME NEW f \in Files, \A g \in Files : p.files[g] = "sent" => g = f, Goto("put"),
               Save([p EXCEPT !.files[f] = "sent", !.in_doubt = TRUE, !.needs_user = TRUE])
        PROVE  FilesOK'
    <3> DEFINE q == [p EXCEPT !.files[f] = "sent", !.in_doubt = TRUE, !.needs_user = TRUE]
    <3>1. q.stage = "attachments" /\ q.in_doubt /\ q.files = [p.files EXCEPT ![f] = "sent"]
      BY <1>a, <2>1 DEF Steps
    <3>2. \A g \in Files : q.files[g] = "sent" => g = f
      BY <1>a, <2>2, <3>1 DEF Steps
    <3> HIDE DEF q
    <3>3. p' = q /\ saved' = q /\ at' = "put"
      BY <2>2 DEF Save, q
    <3>4. \A g, h \in Files : q.files[g] = "sent" /\ q.files[h] = "sent" => g = h
      BY <3>2
    <3> HIDE <3>2
    <3> QED
      BY <3>1, <3>3, <3>4 DEF FilesOK, Early
  <2>3. CASE NextStage([p EXCEPT !.stage = "verify"]) \/ RollBackFrom(p)
    BY <1>l, <2>1, <2>3 DEF Stages
  <2> QED
    BY <1>6, <1>c, <2>2, <2>3 DEF AttachIntent
<1>7. CASE AttachPost
  <2> DEFINE Answered(x) == [p EXCEPT !.files[Sending] = x, !.in_doubt = FALSE, !.needs_user = FALSE]
  <2>1. at = "put" /\ p.stage = "attachments" /\ p.files = saved.files /\ saved.stage = "attachments"
    BY <1>7 DEF AttachPost, ShapeOK, PlaceOK, Agree, FilesOK
  <2>2. Sending \in Files /\ p.files[Sending] = "sent"
    BY <2>1 DEF Sending, ShapeOK, PlaceOK
  <2>3. \A f \in Files : saved.files[f] = "sent" => f = Sending
    BY <2>1, <2>2 DEF FilesOK
  <2>4. ASSUME NEW x PROVE /\ Answered(x).files = [p.files EXCEPT ![Sending] = x]
                           /\ [Answered(x) EXCEPT !.stage = "rollback"].files = Answered(x).files
    BY <1>a DEF Steps
  <2>5. CASE p' = Answered("done") /\ Goto("putted") /\ UNCHANGED saved
    <3>1. p'.files = [p.files EXCEPT ![Sending] = "done"] /\ p.files \in [Files -> {"pending", "sent", "done"}]
      BY <1>a, <2>4, <2>5 DEF Steps
    <3>2. \A f \in Files : p'.files[f] = "done" \/ (p'.files[f] = "pending" /\ saved'.files[f] = "pending")
      BY <2>1, <2>3, <2>5, <3>1
    <3> HIDE DEF Answered
    <3> QED
      BY <2>5, <3>2 DEF FilesOK
  <2>6. CASE RollBackFrom(Answered("pending")) \/ (Save(Answered("pending")) /\ End("temporary"))
    <3>1. \A f \in Files : Answered("pending").files[f] # "sent"
      BY <1>a, <2>1, <2>3, <2>4 DEF Steps
    <3>2. [Answered("pending") EXCEPT !.stage = "rollback"].files = Answered("pending").files
      BY <2>4
    <3> HIDE DEF Answered
    <3> QED
      BY <1>n, <2>6, <3>1, <3>2 DEF Save
  <2>7. CASE Abort("paused")
    BY <1>c, <2>7
  <2> QED
    BY <1>7, <2>5, <2>6, <2>7 DEF AttachPost
<1>8. CASE AttachRecord
  <2>1. CASE Save(p) /\ Goto("stage")
    <3>1. \A f \in Files : p.files[f] # "sent"
      BY <1>8 DEF AttachRecord, FilesOK
    <3> QED
      BY <1>n, <2>1, <3>1 DEF Save
  <2> QED
    BY <1>8, <1>c, <2>1 DEF AttachRecord
<1>9. CASE VerifyCopy
  <2>1. CASE p' = [p EXCEPT !.checked = p.etag] /\ Goto("source") /\ UNCHANGED saved
    <3>1. p'.files = p.files /\ p'.in_doubt = p.in_doubt
      BY <1>a, <2>1 DEF Steps
    <3>2. at = "stage"
      BY <1>9 DEF VerifyCopy
    <3> QED
      BY <1>k, <2>1, <3>1, <3>2 DEF FilesOK
  <2> QED
    BY <1>9, <1>c, <1>l, <2>1 DEF VerifyCopy, Stages
<1>10. CASE VerifySource
  BY <1>10, <1>c, <1>d, <1>l DEF VerifySource, Stages
<1>11. CASE DeleteIntent
  <2>1. CASE Save([p EXCEPT !.delete_started = TRUE])
    <3>1. LET q == [p EXCEPT !.delete_started = TRUE]
          IN  q.files = p.files /\ q.in_doubt = p.in_doubt /\ q.stage = p.stage
      BY <1>a DEF Steps
    <3>2. at = "stage" /\ p.stage = "delete" /\ at' # "putted"
      BY <1>11 DEF DeleteIntent
    <3> QED
      BY <1>q, <2>1, <3>1, <3>2 DEF Early
  <2> QED
    BY <1>11, <1>c, <1>d, <2>1 DEF DeleteIntent
<1>12. CASE DeleteRead \/ DeleteAnswer
  BY <1>12, <1>c, <1>d, <1>p DEF DeleteRead, DeleteAnswer
<1>13. CASE DeleteSend \/ RecoverSource
  BY <1>13, <1>c, <1>d DEF DeleteSend, RecoverSource, store
<1>14. CASE RecoverCopy
  <2>0. at = "recover_copy" /\ p.stage = "delete"
    BY <1>14 DEF RecoverCopy, ShapeOK, PlaceOK
  <2>1. CASE p' = [p EXCEPT !.checked = copies[p.copy].holds] /\ Goto("finish") /\ UNCHANGED saved
    <3>1. p'.files = p.files /\ p'.in_doubt = p.in_doubt
      BY <1>a, <2>1 DEF Steps
    <3> QED
      BY <1>k, <2>0, <2>1, <3>1 DEF FilesOK
  <2>2. CASE RollBackFrom([p EXCEPT !.copy = None])
    <3>1. LET q == [[p EXCEPT !.copy = None] EXCEPT !.stage = "rollback"]
          IN  q.files = p.files /\ q.in_doubt = p.in_doubt /\ q.stage = "rollback"
      BY <1>a DEF Steps
    <3> QED
      BY <1>q, <2>0, <2>2, <3>1 DEF Early
  <2>3. CASE PauseFor([p EXCEPT !.both_missing = TRUE])
    <3>1. LET q == [[p EXCEPT !.both_missing = TRUE] EXCEPT !.needs_user = TRUE]
          IN  q.files = p.files /\ q.in_doubt = p.in_doubt /\ q.stage = p.stage
      BY <1>a DEF Steps
    <3> QED
      BY <1>q, <2>0, <2>3, <3>1 DEF Early
  <2>4. CASE UNCHANGED <<p, saved>> /\ at' \in {"recheck", "settle"}
    BY <1>d, <2>0, <2>4
  <2> QED
    BY <1>14, <2>1, <2>2, <2>3, <2>4 DEF RecoverCopy, BothThere
<1>15. CASE Recheck
  <2>0. at = "recheck" /\ p.stage = "delete"
    BY <1>15 DEF Recheck, ShapeOK, PlaceOK
  <2>1. CASE Save([p EXCEPT !.checked = read]) /\ Goto("read")
    <3>1. LET q == [p EXCEPT !.checked = read]
          IN  q.files = p.files /\ q.in_doubt = p.in_doubt /\ q.stage = p.stage
      BY <1>a DEF Steps
    <3> QED
      BY <1>q, <2>0, <2>1, <3>1 DEF Early
  <2>2. CASE RollBackFrom([p EXCEPT !.copy = None])
    <3>1. LET q == [[p EXCEPT !.copy = None] EXCEPT !.stage = "rollback"]
          IN  q.files = p.files /\ q.in_doubt = p.in_doubt /\ q.stage = "rollback"
      BY <1>a DEF Steps
    <3> QED
      BY <1>q, <2>0, <2>2, <3>1 DEF Early
  <2>3. CASE PauseFor(p) \/ (UNCHANGED <<p, saved>> /\ at' = "settle")
    BY <1>d, <1>p, <2>0, <2>3
  <2> QED
    BY <1>15, <2>1, <2>2, <2>3 DEF Recheck, Differ
<1>16. CASE Finish
  <2>1. CASE Save([p EXCEPT !.needs_user = FALSE, !.both_missing = FALSE])
    <3>1. LET q == [p EXCEPT !.needs_user = FALSE, !.both_missing = FALSE]
          IN  q.files = p.files /\ q.in_doubt = p.in_doubt /\ q.stage = p.stage
      BY <1>a DEF Steps
    <3>2. at = "finish" /\ at' # "putted" /\ p.stage = saved.stage
      BY <1>16 DEF Finish, ShapeOK, PlaceOK, Agree
    <3> QED
      BY <1>q, <2>1, <3>1, <3>2 DEF Early
  <2> QED
    BY <1>16, <1>c, <2>1 DEF Finish
<1>17. CASE RollBack
  <2>0. at = "stage" /\ p.stage = "rollback"
    BY <1>17 DEF RollBack
  <2>1. CASE Save([p EXCEPT !.copy = None]) /\ Goto("stage")
    <3>1. LET q == [p EXCEPT !.copy = None]
          IN  q.files = p.files /\ q.in_doubt = p.in_doubt /\ q.stage = "rollback"
      BY <1>a, <2>0 DEF Steps
    <3> QED
      BY <1>q, <2>0, <2>1, <3>1 DEF Early
  <2> QED
    BY <1>17, <1>c, <1>p, <2>0, <2>1 DEF RollBack
<1>18. CASE Settle \/ Restart
  BY <1>18, <1>c DEF Settle, Restart
<1>19. CASE Retry
  <2>1. \A f \in Files : RetrySteps.files[f] # "sent"
    <3>1. \A f \in Files : NoSteps.files[f] = "pending"
      BY DEF NoSteps
    <3>2. [NoSteps EXCEPT !.stage = "create", !.source = "local", !.etag = saved.etag].files = NoSteps.files
      BY DEF NoSteps
    <3> DEFINE F == [f \in Files |-> IF saved.files[f] = "sent" THEN "pending" ELSE saved.files[f]]
    <3>3. \A f \in Files : F[f] # "sent"
      OBVIOUS
    <3>4. [saved EXCEPT !.in_doubt = FALSE, !.needs_user = FALSE,
             !.files = [f \in Files |-> IF @[f] = "sent" THEN "pending" ELSE @[f]]].files = F
      BY <1>a DEF Steps
    <3> QED
      BY <3>1, <3>2, <3>3, <3>4 DEF RetrySteps
  <2>2. saved' = RetrySteps /\ at' = at /\ at = "idle"
    BY <1>19 DEF Retry, memory, ShapeOK, PlaceOK
  <2> QED
    BY <1>n, <2>1, <2>2
<1>20. ASSUME NEW c \in Copies, Attribute(c) PROVE FilesOK'
  <2>1. \A f \in Files : saved.files[f] # "sent"
    BY <1>20 DEF Attribute, FilesOK, Early
  <2>2. Found(c).files = saved.files
    BY <1>a DEF Found, Steps
  <2>3. saved' = Found(c) /\ at' = at /\ at = "idle"
    BY <1>20 DEF Attribute, memory, ShapeOK, PlaceOK
  <2> QED
    BY <1>n, <2>1, <2>2, <2>3
<1>21. CASE GraphDeletes \/ Discard \/ PhoneEdits \/ PhoneDeletes \/ SpoolLost
  BY <1>e, <1>21 DEF GraphDeletes, Discard, PhoneEdits, PhoneDeletes, SpoolLost, store, memory
<1>22. ASSUME NEW v \in 1..(MaxEdits + 1), GraphCompares(v) PROVE FilesOK'
  BY <1>e, <1>22 DEF GraphCompares, store, memory
<1>23. ASSUME NEW l \in {"from", "to"}, ReadWhole(l) \/ ListGone(l) \/ PhoneDeletesList(l) PROVE FilesOK'
  BY <1>e, <1>23 DEF ReadWhole, ListGone, PhoneDeletesList, store, memory
<1>24. ASSUME NEW c \in Copies, Meet(c) \/ PhoneEditsCopy(c) PROVE FilesOK'
  BY <1>e, <1>24 DEF Meet, PhoneEditsCopy, store, memory
<1>25. CASE UNCHANGED vars
  BY <1>e, <1>25 DEF vars, store, memory
<1> QED
  BY <1>1, <1>2, <1>3, <1>4, <1>5, <1>6, <1>7, <1>8, <1>9, <1>10, <1>11, <1>12, <1>13, <1>14,
     <1>15, <1>16, <1>17, <1>18, <1>19, <1>20, <1>21, <1>22, <1>23, <1>24, <1>25
     DEF Next, Attempt, Others

\* No attempt ends before the stage at which it checks the copy.
LEMMA FinishKept == TypeOK /\ ShapeOK /\ FinishOK /\ [Next]_vars => FinishOK'
<1> SUFFICES ASSUME TypeOK, ShapeOK, FinishOK, [Next]_vars, at' = "finish"
             PROVE  saved'.stage \in {"verify", "delete"}
  BY DEF FinishOK
<1>u. CASE UNCHANGED <<saved, at>>
  BY <1>u DEF FinishOK
<1>n. at = "finish" => state = "inflight"
  BY DEF ShapeOK, PlaceOK
<1> USE DEF Save, Goto, End, Abort, NextStage, RollBackFrom, PauseFor, ReadFailure, ReadFailed,
            SaveFails, AtStage
<1>1. CASE VerifySource \/ DeleteIntent \/ DeleteRead \/ DeleteAnswer \/ RecoverCopy
  BY <1>1 DEF VerifySource, DeleteIntent, DeleteRead, DeleteAnswer, RecoverCopy, BothThere, ShapeOK,
              PlaceOK, Agree
<1>2. CASE Run \/ Prepare \/ CreateIntent \/ CreatePost \/ CreateRecord \/ AttachIntent
           \/ AttachPost \/ AttachRecord \/ VerifyCopy
  BY <1>2 DEF Run, Prepare, CreateIntent, CreatePost, CreateRecord, AttachIntent, AttachPost,
              AttachRecord, VerifyCopy
<1>3. CASE DeleteSend \/ RecoverSource \/ Recheck \/ Finish \/ RollBack \/ Settle \/ Restart
  BY <1>3 DEF DeleteSend, RecoverSource, Recheck, Differ, Finish, RollBack, Settle, Restart
<1>4. CASE Retry
  BY <1>4, <1>n DEF Retry, memory
<1>5. ASSUME NEW c \in Copies, Attribute(c) PROVE FALSE
  BY <1>5, <1>n DEF Attribute, memory
<1>6. CASE GraphDeletes \/ Discard \/ PhoneEdits \/ PhoneDeletes \/ SpoolLost
  BY <1>u, <1>6 DEF GraphDeletes, Discard, PhoneEdits, PhoneDeletes, SpoolLost, store, memory
<1>7. ASSUME NEW v \in 1..(MaxEdits + 1), GraphCompares(v) PROVE UNCHANGED <<saved, at>>
  BY <1>7 DEF GraphCompares, store, memory
<1>8. ASSUME NEW l \in {"from", "to"}, ReadWhole(l) \/ ListGone(l) \/ PhoneDeletesList(l)
      PROVE  UNCHANGED <<saved, at>>
  BY <1>8 DEF ReadWhole, ListGone, PhoneDeletesList, store, memory
<1>9. ASSUME NEW c \in Copies, Meet(c) \/ PhoneEditsCopy(c) PROVE UNCHANGED <<saved, at>>
  BY <1>9 DEF Meet, PhoneEditsCopy, store, memory
<1>10. CASE UNCHANGED vars
  BY <1>u, <1>10 DEF vars, store, memory
<1> QED
  BY <1>u, <1>1, <1>2, <1>3, <1>4, <1>5, <1>6, <1>7, <1>8, <1>9, <1>10 DEF Next, Attempt, Others

\* Each attachment is sent once per choice, and once more per answer that was lost on disk.
LEMMA UploadsKept ==
  TypeOK /\ ShapeOK /\ FilesOK /\ FinishOK /\ UploadsOK /\ [Next]_vars => UploadsOK'
<1> SUFFICES ASSUME TypeOK, ShapeOK, FilesOK, FinishOK, UploadsOK, [Next]_vars PROVE UploadsOK'
  OBVIOUS
<1> DEFINE Held == \A c \in Copies : copies'[c].files = copies[c].files
<1>a. p \in Steps /\ saved \in Steps /\ made \in 0..MaxCopies /\ unsaved \in Nat /\ choices \in Nat
  BY DEF TypeOK, AttemptTypes, GraphTypes, PastTypes
<1>b. \A c \in Copies, f \in Files : copies[c].files[f] \in Nat
  BY DEF TypeOK, GraphTypes
\* Nothing is uploaded, and nothing more may be.
<1>k. ASSUME Held, UNCHANGED <<choices, unsaved>>,
             \A c \in Copies, f \in Files : MaySend(c, f)' => MaySend(c, f)
      PROVE  UploadsOK'
  BY <1>a, <1>b, <1>k DEF UploadsOK
\* The move is past its uploads.
<1>o. ASSUME Held, UNCHANGED <<choices, unsaved>>, saved'.stage \in {"verify", "delete", "rollback"}
      PROVE  UploadsOK'
  <2>1. \A c \in Copies, f \in Files : ~MaySend(c, f)'
    BY <1>o DEF MaySend, Early
  <2> QED
    BY <1>k, <1>o, <2>1
<1>e. ASSUME Held, UNCHANGED <<choices, unsaved, saved, state, at, ended>> PROVE UploadsOK'
  BY <1>k, <1>e DEF MaySend, MayResend, Early
\* The attempt goes on from where it could send.
<1>g. ASSUME Held, UNCHANGED <<choices, unsaved, saved, state>>, at = "stage" \/ state = "pending"
      PROVE  UploadsOK'
  BY <1>k, <1>g DEF MaySend, MayResend, Early
<1>y. ASSUME Held, UNCHANGED <<choices, unsaved>>, Early(saved) PROVE UploadsOK'
  BY <1>k, <1>y DEF MaySend
\* The user chose again.
<1>r. ASSUME Held, unsaved' = unsaved, choices' = choices + 1 PROVE UploadsOK'
  BY <1>a, <1>b, <1>r DEF UploadsOK
<1> USE DEF Goto, End, Abort, NextStage, RollBackFrom, PauseFor, ReadFailure, ReadFailed,
            SaveFails, AtStage
<1>1. CASE Run
  <2>1. Held /\ UNCHANGED <<choices, unsaved, saved>> /\ state = "pending"
    BY <1>1 DEF Run, graph, Past
  <2> QED
    BY <1>k, <2>1 DEF MaySend, MayResend, Early
<1>2. CASE Prepare \/ CreateIntent \/ CreateRecord
  <2>1. Held /\ UNCHANGED <<choices, unsaved>> /\ Early(saved)
    BY <1>2 DEF Prepare, CreateIntent, CreateRecord, graph, Past, ShapeOK, PlaceOK, Agree, Early
  <2> QED
    BY <1>y, <2>1
<1>3. CASE CreatePost
  <2>1. UNCHANGED <<choices, unsaved>> /\ Early(saved)
    BY <1>3 DEF CreatePost, Past, ShapeOK, PlaceOK, Agree, Early
  <2>2. CASE UNCHANGED <<copies, made>>
    BY <1>y, <2>1, <2>2
  <2>3. CASE Made
    <3>1. copies \in [Copies -> [there : BOOLEAN, holds : 0..Other, files : [Files -> Nat]]] /\ made + 1 \in Copies
      BY <1>a, <2>3 DEF TypeOK, GraphTypes, Made, Copies
    <3>2. ASSUME NEW c \in Copies, NEW f \in Files
          PROVE  copies'[c].files[f] = 0 \/ copies'[c].files[f] = copies[c].files[f]
      BY <2>3, <3>1 DEF Made, NoCopy
    <3>3. ASSUME NEW c \in Copies, NEW f \in Files
          PROVE  copies'[c].files[f] <= choices + unsaved
      BY <1>a, <1>b, <2>1, <3>2, <3>3 DEF UploadsOK, MaySend
    <3>4. ASSUME NEW c \in Copies, NEW f \in Files PROVE copies'[c].files[f] \in Nat
      BY <1>b, <3>2, <3>4
    <3> QED
      BY <1>a, <2>1, <3>3, <3>4 DEF UploadsOK
  <2> QED
    BY <1>3, <2>2, <2>3 DEF CreatePost
<1>4. CASE AttachIntent
  <2>1. /\ Held /\ UNCHANGED <<choices, unsaved, state>> /\ at = "stage" /\ p.stage = "attachments"
        /\ saved.stage = "attachments" /\ p.copy = saved.copy /\ p.files = saved.files
    BY <1>4 DEF AttachIntent, graph, Past, RowKept, ShapeOK, PlaceOK, Agree, FilesOK
  <2>2. ASSUME NEW f \in Files, p.files[f] # "done",
               Save([p EXCEPT !.files[f] = "sent", !.in_doubt = TRUE, !.needs_user = TRUE])
        PROVE  UploadsOK'
    <3> DEFINE q == [p EXCEPT !.files[f] = "sent", !.in_doubt = TRUE, !.needs_user = TRUE]
    <3>1. q.stage = "attachments" /\ q.copy = saved.copy /\ q.files = [saved.files EXCEPT ![f] = "sent"]
      BY <1>a, <2>1 DEF Steps
    <3>2. saved.files[f] \in {"pending", "sent"} /\ saved.files \in [Files -> {"pending", "sent", "done"}]
      BY <1>a, <2>1, <2>2 DEF Steps
    <3> HIDE DEF q
    <3>3. saved' = q
      BY <2>2 DEF Save, q
    <3>4. ASSUME NEW c \in Copies, NEW g \in Files, MaySend(c, g)' PROVE MaySend(c, g)
      BY <2>1, <3>1, <3>2, <3>3, <3>4 DEF MaySend, MayResend, Early
    <3> QED
      BY <1>k, <2>1, <3>4
  <2>3. CASE NextStage([p EXCEPT !.stage = "verify"]) \/ RollBackFrom(p)
    <3>1. saved'.stage \in {"verify", "rollback"}
      BY <1>a, <2>3 DEF Save, Steps
    <3> QED
      BY <1>o, <2>1, <3>1
  <2>4. CASE UNCHANGED saved
    BY <1>g, <2>1, <2>4
  <2> QED
    BY <1>4, <2>2, <2>3, <2>4 DEF AttachIntent
<1>5. CASE AttachPost
  <2> DEFINE Answered(x) == [p EXCEPT !.files[Sending] = x, !.in_doubt = FALSE, !.needs_user = FALSE]
  <2>1. /\ at = "put" /\ p.stage = "attachments" /\ saved.stage = "attachments"
        /\ p.files = saved.files /\ p.copy = saved.copy /\ UNCHANGED <<choices, unsaved, state>>
        /\ state = "inflight"
    BY <1>5 DEF AttachPost, Past, RowKept, ShapeOK, PlaceOK, Agree, FilesOK
  <2>2. Sending \in Files /\ saved.files[Sending] = "sent" /\ p.copy \in Copies
    BY <2>1 DEF Sending, ShapeOK, PlaceOK, CopyOK
  <2>3. \A f \in Files : saved.files[f] = "sent" => f = Sending
    BY <2>2 DEF FilesOK
  <2>4. MaySend(p.copy, Sending)
    BY <2>1, <2>2 DEF MaySend, MayResend
  <2>5. CASE Put /\ UNCHANGED saved /\ (at' = "putted" \/ (at' = "settle" /\ ended' = "paused"))
    <3>1. copies \in [Copies -> [there : BOOLEAN, holds : 0..Other, files : [Files -> Nat]]]
      BY DEF TypeOK, GraphTypes
    <3>2. ASSUME NEW c \in Copies, NEW f \in Files, c # p.copy \/ f # Sending
          PROVE  copies'[c].files[f] = copies[c].files[f]
      BY <2>2, <2>5, <3>1, <3>2 DEF Put
    <3>3. copies'[p.copy].files[Sending] = copies[p.copy].files[Sending] + 1
      BY <2>2, <2>5, <3>1 DEF Put
    <3>4. copies[p.copy].files[Sending] <= choices + unsaved
      BY <2>2, <2>4 DEF UploadsOK
    <3>5. ASSUME NEW c \in Copies, NEW f \in Files
          PROVE  copies'[c].files[f] <= 1 + choices + unsaved
      <4>1. CASE c = p.copy /\ f = Sending
        BY <1>a, <1>b, <2>2, <3>3, <3>4, <4>1
      <4>2. CASE c # p.copy \/ f # Sending
        BY <3>2, <4>2 DEF UploadsOK
      <4> QED
        BY <4>1, <4>2
    <3>6. ASSUME NEW c \in Copies, NEW f \in Files, MaySend(c, f)'
          PROVE  copies'[c].files[f] <= choices + unsaved
      <4>1. c = saved.copy /\ saved.files[f] = "pending"
        BY <2>1, <2>5, <3>6 DEF MaySend, MayResend, Early
      <4>2. MaySend(c, f) /\ f # Sending
        BY <2>1, <2>2, <4>1 DEF MaySend
      <4> QED
        BY <3>2, <4>2 DEF UploadsOK
    <3> QED
      BY <2>1, <3>5, <3>6 DEF UploadsOK
  <2>6. CASE UNCHANGED copies /\ RollBackFrom(Answered("pending"))
    <3>1. saved'.stage = "rollback"
      BY <1>a, <2>6 DEF Save, Steps
    <3> QED
      BY <1>o, <2>1, <2>6, <3>1
  <2>7. CASE UNCHANGED copies /\ Save(Answered("pending")) /\ End("temporary")
    <3>1. /\ Answered("pending").stage = "attachments" /\ Answered("pending").copy = saved.copy
          /\ Answered("pending").files = [saved.files EXCEPT ![Sending] = "pending"]
          /\ saved.files \in [Files -> {"pending", "sent", "done"}]
      BY <1>a, <2>1 DEF Steps
    <3> HIDE DEF Answered
    <3>2. saved' = Answered("pending")
      BY <2>7 DEF Save
    <3>3. ASSUME NEW c \in Copies, NEW f \in Files, MaySend(c, f)' PROVE MaySend(c, f)
      <4>1. c = saved.copy /\ saved'.files[f] = "pending"
        BY <2>2, <2>3, <3>1, <3>2, <3>3 DEF MaySend, MayResend, Early
      <4>2. saved.files[f] = "pending" \/ f = Sending
        BY <2>2, <3>1, <3>2, <4>1
      <4> QED
        BY <2>1, <2>4, <4>1, <4>2 DEF MaySend
    <3> QED
      BY <1>k, <2>1, <2>7, <3>3
  <2>8. CASE UNCHANGED copies /\ Abort("paused")
    <3>1. \A c \in Copies, f \in Files : MaySend(c, f)' => MaySend(c, f)
      BY <2>1, <2>8 DEF MaySend, MayResend, Early
    <3> QED
      BY <1>k, <2>1, <2>8, <3>1
  <2> QED
    BY <1>5, <2>5, <2>6, <2>7, <2>8 DEF AttachPost
<1>6. CASE AttachRecord
  <2>1. /\ at = "putted" /\ saved.stage = "attachments" /\ p.stage = "attachments" /\ p.copy = saved.copy
        /\ UNCHANGED <<choices, state>> /\ Held
    BY <1>6 DEF AttachRecord, graph, RowKept, ShapeOK, PlaceOK, Agree
  <2>2. CASE Save(p) /\ Goto("stage") /\ UNCHANGED unsaved
    <3>1. ASSUME NEW c \in Copies, NEW f \in Files, MaySend(c, f)' PROVE MaySend(c, f)
      <4>1. saved'.files[f] # "done" /\ c = saved.copy
        BY <2>1, <2>2, <3>1 DEF Save, MaySend, MayResend, Early
      <4>2. saved.files[f] = "pending"
        BY <2>1, <2>2, <4>1 DEF Save, FilesOK
      <4> QED
        BY <2>1, <4>1, <4>2 DEF MaySend
    <3> QED
      BY <1>k, <2>1, <2>2, <3>1
  <2>3. CASE unsaved' = unsaved + 1
    BY <1>a, <1>b, <2>1, <2>3 DEF UploadsOK
  <2> QED
    BY <1>6, <2>2, <2>3 DEF AttachRecord
<1>7. CASE VerifyCopy \/ VerifySource
  <2>1. Held /\ UNCHANGED <<choices, unsaved>> /\ p.stage = "verify" /\ saved.stage = "verify"
    BY <1>7 DEF VerifyCopy, VerifySource, graph, Past, ShapeOK, PlaceOK, Agree
  <2>2. saved'.stage \in {"verify", "delete", "rollback"}
    BY <1>7, <1>a, <2>1 DEF VerifyCopy, VerifySource, Save, Steps
  <2> QED
    BY <1>o, <2>1, <2>2
<1>8. CASE DeleteIntent \/ DeleteRead \/ DeleteSend \/ DeleteAnswer
  <2>1. Held /\ UNCHANGED <<choices, unsaved>> /\ p.stage = "delete" /\ saved.stage = "delete"
    BY <1>8 DEF DeleteIntent, DeleteRead, DeleteSend, DeleteAnswer, graph, Past, ShapeOK, PlaceOK, Agree
  <2>2. saved'.stage \in {"verify", "delete", "rollback"}
    BY <1>8, <1>a, <2>1 DEF DeleteIntent, DeleteRead, DeleteSend, DeleteAnswer, Save, Steps, store
  <2> QED
    BY <1>o, <2>1, <2>2
<1>9. CASE RecoverSource \/ RecoverCopy \/ Recheck
  <2>1. Held /\ UNCHANGED <<choices, unsaved>> /\ p.stage = "delete" /\ saved.stage = "delete"
    BY <1>9 DEF RecoverSource, RecoverCopy, Recheck, graph, Past, ShapeOK, PlaceOK, Agree
  <2>2. saved'.stage \in {"verify", "delete", "rollback"}
    BY <1>9, <1>a, <2>1 DEF RecoverSource, RecoverCopy, Recheck, Differ, Save, Steps
  <2> QED
    BY <1>o, <2>1, <2>2
<1>10. CASE Finish
  <2>1. /\ Held /\ UNCHANGED <<choices, unsaved>> /\ at = "finish" /\ state = "inflight"
        /\ p.stage = saved.stage /\ p.copy = saved.copy /\ p.files = saved.files
    BY <1>10 DEF Finish, graph, Past, ShapeOK, PlaceOK, Agree, FilesOK
  <2>2. saved.stage \in {"verify", "delete"}
    BY <2>1 DEF FinishOK
  <2>3. saved'.stage = saved.stage
    BY <1>10, <1>a, <2>1 DEF Finish, Save, Steps
  <2> QED
    BY <1>o, <2>1, <2>2, <2>3
<1>11. CASE RollBack
  <2>1. UNCHANGED <<choices, unsaved>> /\ p.stage = "rollback" /\ saved.stage = "rollback"
    BY <1>11 DEF RollBack, Past, ShapeOK, PlaceOK, Agree
  <2>2. saved'.stage = "rollback"
    BY <1>11, <1>a, <2>1 DEF RollBack, Save, Steps
  <2>3. Held
    <3>1. copies \in [Copies -> [there : BOOLEAN, holds : 0..Other, files : [Files -> Nat]]]
      BY DEF TypeOK, GraphTypes
    <3>2. CASE copies' = [copies EXCEPT ![p.copy].there = FALSE]
      BY <3>1, <3>2
    <3> QED
      BY <1>11, <3>2 DEF RollBack
  <2> QED
    BY <1>o, <2>1, <2>2, <2>3
<1>12. CASE Settle
  <2>1. Held /\ UNCHANGED <<choices, unsaved, saved>> /\ at = "settle" /\ at' = "idle"
    BY <1>12 DEF Settle, graph, past
  <2>2. state' = "pending" => ended = "temporary"
    BY <1>12 DEF Settle
  <2> QED
    BY <1>k, <2>1, <2>2 DEF MaySend, MayResend, Early
<1>13. CASE Restart
  <2>1. Held /\ UNCHANGED <<choices, unsaved, saved>> /\ at' = "idle"
    BY <1>13 DEF Restart, graph, Past
  <2>2. state' = "pending" => \A f \in Files : saved.files[f] # "sent"
    BY <1>13 DEF Restart, Recovered, FilesOK
  <2> QED
    BY <1>k, <2>1, <2>2 DEF MaySend, MayResend, Early
<1>14. CASE Retry
  BY <1>14, <1>r DEF Retry, graph
<1>15. CASE Discard
  <2>1. Held /\ UNCHANGED <<choices, unsaved, saved, at, ended>> /\ state' = "dropped"
    BY <1>15 DEF Discard, graph, memory, past
  <2> QED
    BY <1>k, <2>1 DEF MaySend, MayResend, Early
<1>16. ASSUME NEW l \in {"from", "to"}, ListGone(l) PROVE UploadsOK'
  <2>1. Held /\ UNCHANGED <<choices, unsaved, saved, at, ended>> /\ (state' = "pending" => state = "pending")
    BY <1>16 DEF ListGone, graph, memory, past
  <2> QED
    BY <1>k, <2>1 DEF MaySend, MayResend, Early
<1>17. ASSUME NEW c \in Copies, Attribute(c) PROVE UploadsOK'
  <2>1. Held /\ UNCHANGED <<choices, unsaved>> /\ Early(saved)
    BY <1>17 DEF Attribute, graph, past, Early
  <2> QED
    BY <1>y, <2>1
<1>18. CASE GraphDeletes \/ PhoneEdits \/ SpoolLost
  BY <1>e, <1>18 DEF GraphDeletes, PhoneEdits, SpoolLost, Past, store, memory, past, graph
<1>19. CASE PhoneDeletes
  <2>1. Held
    <3>1. copies \in [Copies -> [there : BOOLEAN, holds : 0..Other, files : [Files -> Nat]]]
      BY DEF TypeOK, GraphTypes
    <3> QED
      BY <1>19, <3>1 DEF PhoneDeletes
  <2> QED
    BY <1>e, <1>19, <2>1 DEF PhoneDeletes, store, memory
<1>20. ASSUME NEW l \in {"from", "to"}, PhoneDeletesList(l) PROVE UploadsOK'
  <2>1. Held
    <3>1. copies \in [Copies -> [there : BOOLEAN, holds : 0..Other, files : [Files -> Nat]]]
      BY DEF TypeOK, GraphTypes
    <3> QED
      BY <1>20, <3>1 DEF PhoneDeletesList
  <2> QED
    BY <1>e, <1>20, <2>1 DEF PhoneDeletesList, store, memory
<1>21. ASSUME NEW c \in Copies, PhoneEditsCopy(c) PROVE UploadsOK'
  <2>1. Held
    <3>1. copies \in [Copies -> [there : BOOLEAN, holds : 0..Other, files : [Files -> Nat]]]
      BY DEF TypeOK, GraphTypes
    <3> QED
      BY <1>21, <3>1 DEF PhoneEditsCopy
  <2> QED
    BY <1>e, <1>21, <2>1 DEF PhoneEditsCopy, store, memory
<1>22. ASSUME NEW v \in 1..(MaxEdits + 1), GraphCompares(v) PROVE UploadsOK'
  BY <1>e, <1>22 DEF GraphCompares, store, memory, past
<1>23. ASSUME NEW l \in {"from", "to"}, ReadWhole(l) PROVE UploadsOK'
  BY <1>e, <1>23 DEF ReadWhole, store, memory, past, graph
<1>24. ASSUME NEW c \in Copies, Meet(c) PROVE UploadsOK'
  BY <1>e, <1>24 DEF Meet, memory, past, graph
<1>25. CASE UNCHANGED vars
  BY <1>e, <1>25 DEF vars, store, memory, graph, past
<1> QED
  BY <1>1, <1>2, <1>3, <1>4, <1>5, <1>6, <1>7, <1>8, <1>9, <1>10, <1>11, <1>12, <1>13, <1>14,
     <1>15, <1>16, <1>17, <1>18, <1>19, <1>20, <1>21, <1>22, <1>23, <1>24, <1>25
     DEF Next, Attempt, Others

\* One copy is made and each attachment sent once per choice of the user: neither a lost answer
\* nor a restart sends a POST again by itself.  Only an upload whose answer could not be saved
\* goes out once more.
THEOREM MoveMadeOnce == Spec => []MadeOncePerChoice
<1> DEFINE OnceInv == CreateOK /\ FilesOK /\ FinishOK /\ UploadsOK
<1>1. Init => OnceInv
  <2> SUFFICES ASSUME Init PROVE OnceInv
    OBVIOUS
  <2>1. choices = 0 /\ unsaved = 0 /\ made = 0 /\ at = "idle" /\ saved = NoSteps
    BY DEF Init
  <2>2. CreateOK /\ FilesOK /\ FinishOK
    BY <2>1 DEF CreateOK, FilesOK, FinishOK, NoSteps
  <2>3. \A c \in Copies, f \in Files : copies[c].files[f] = 0
    BY DEF Init, NoCopy
  <2> QED
    BY <2>1, <2>2, <2>3 DEF UploadsOK
<1>2. MoveInv /\ OnceInv /\ [Next]_vars => OnceInv'
  BY CreateKept, FilesKept, FinishKept, UploadsKept DEF MoveInv
<1>3. OnceInv => MadeOncePerChoice
  BY DEF CreateOK, UploadsOK, MadeOncePerChoice
<1> QED
  BY MoveInvariant, <1>1, <1>2, <1>3, PTL DEF Spec
=============================================================================
