------------------------------- MODULE Upload -------------------------------
(***************************************************************************)
(* One attachment's add, from the file's copy to the attachment in Graph.  *)
(* A small file is one POST; a larger one is put chunk by chunk into an    *)
(* upload session, whose final PUT commits it.  Where the session stands   *)
(* is saved in the operation's progress before each PUT, so a daemon that  *)
(* stopped goes on in it; a final PUT that may have gone is never repeated *)
(* but by the user's choice.                                               *)
(***************************************************************************)
EXTENDS Integers

CONSTANTS
  ChunkCounts,  \* sizes of file: chunks, 0 for one sent in a single POST
  MaxResends,   \* MAX_RESENDS
  MaxSessions,  \* bound: upload sessions made
  MaxChoices,   \* bound: times the user asks for the add
  MaxMishaps    \* bound: lost answers, refusals, failed saves, expiries, crashes

ASSUME UploadAssumption ==
  /\ ChunkCounts \subseteq Nat
  /\ {MaxResends, MaxSessions, MaxChoices, MaxMishaps} \subseteq Nat

NoUpload == [total |-> FALSE, url |-> 0, next |-> 0, committing |-> FALSE]

VARIABLES
  chunks,    \* the file's size
  opState,   \* the operation: "queueing" until it is in the outbox
  progress,  \* progress.upload in the store
  uploadStage,        \* where the attempt under way is, "none" without one
  url, start, inDoubt, resumed, resends,  \* put_chunks's locals
  taken,     \* Graph: the chunks each session took, -1 once it is gone
  made,      \* Graph: the sessions made
  attached,  \* Graph: how often the file was attached
  choices,   \* how often the user asked
  denied,   \* history: Graph or the file's check refused this choice's attempt
  copy,      \* the daemon's staged copy: "none" (the user's own file), "young", "old", "gone"
  mishaps

locals == <<url, start, inDoubt, resumed, resends>>
graphs == <<taken, made, attached>>
uploadVars == <<chunks, opState, progress, uploadStage, locals, graphs, choices, denied, copy, mishaps>>

UploadInit ==
  /\ chunks \in ChunkCounts /\ copy \in {"none", "young"}
  /\ opState = "queueing" /\ progress = NoUpload /\ uploadStage = "none"
  /\ url = 0 /\ start = 0 /\ inDoubt = FALSE /\ resumed = FALSE /\ resends = 0
  /\ taken = [s \in 1..MaxSessions |-> 0] /\ made = 0 /\ attached = 0
  /\ choices = 1 /\ denied = FALSE /\ mishaps = 0

Mishap == mishaps < MaxMishaps /\ mishaps' = mishaps + 1
Fine   == UNCHANGED mishaps

LastChunk == start + 1 >= chunks
Session == chunks > 0

\* How an attempt ends, and what it leaves in the store.  A failure other than an unknown
\* outcome forgets the session; the store may refuse that write too.
End(state, left) ==
  /\ opState' = state /\ progress' = left /\ uploadStage' = "none"
  /\ UNCHANGED <<locals, chunks, choices>>

Unknown == End("unknown", progress) /\ UNCHANGED denied

Forgotten == {NoUpload, progress}
Temporary == \E left \in Forgotten : End("pending", left) /\ UNCHANGED denied
Refused   == \E left \in Forgotten : End("failed", left) /\ denied' = TRUE

-----------------------------------------------------------------------------
(* Queueing, claiming and reading the file.                                *)

Queue ==
  /\ opState = "queueing" /\ opState' = "pending"
  /\ UNCHANGED <<chunks, progress, uploadStage, locals, graphs, choices, denied, copy, mishaps>>

Claim ==
  /\ opState = "pending" /\ uploadStage = "none"
  /\ opState' = "inflight" /\ uploadStage' = "read"
  /\ UNCHANGED <<chunks, progress, locals, graphs, choices, denied, copy, mishaps>>

\* The user's file changed or went since it was queued, or the staged copy is gone.
ReadRefused ==
  /\ uploadStage = "read"
  /\ \/ copy = "none" /\ Mishap
     \/ copy = "gone" /\ Fine
  /\ Refused /\ UNCHANGED <<graphs, copy>>

Resumable == Session /\ progress.url # 0 /\ ~progress.committing

ReadFile ==
  /\ uploadStage = "read" /\ copy # "gone" /\ Fine
  /\ \/ ~Session /\ uploadStage' = "post" /\ UNCHANGED <<opState, progress, denied, locals>>
     \/ /\ Resumable
        /\ url' = progress.url /\ start' = progress.next
        /\ inDoubt' = TRUE /\ resumed' = TRUE /\ resends' = 0
        /\ uploadStage' = "save" /\ UNCHANGED <<opState, progress, denied>>
     \/ /\ Session /\ progress.committing /\ ~Resumable
        /\ opState' = "unknown" /\ uploadStage' = "none" /\ UNCHANGED <<progress, denied, locals>>
     \/ /\ Session /\ ~progress.committing /\ ~Resumable
        /\ uploadStage' = "open" /\ UNCHANGED <<opState, progress, denied, locals>>
  /\ UNCHANGED <<chunks, graphs, choices, copy>>

-----------------------------------------------------------------------------
(* Sending.                                                                *)

Attach == attached' = attached + 1 /\ UNCHANGED <<taken, made>>

\* Graph has it: the daemon's copy is removed, and the task read again, before the outcome
\* is recorded.
Answered == uploadStage' = "record" /\ copy' = (IF copy = "none" THEN copy ELSE "gone")
  /\ UNCHANGED <<opState, progress, denied, locals, chunks, choices>>

Record ==
  /\ uploadStage = "record" /\ Fine
  /\ End("done", progress) /\ UNCHANGED <<graphs, copy, denied>>

Post ==
  /\ uploadStage = "post"
  /\ \/ Attach /\ Answered /\ Fine
     \/ Mishap /\ UNCHANGED <<graphs, copy>> /\ (Temporary \/ Refused \/ Unknown)
     \/ Mishap /\ Attach /\ Unknown /\ UNCHANGED copy

\* upload: saves that a session is being made, makes it, or fails.
Open ==
  /\ uploadStage = "open"
  /\ \/ /\ made < MaxSessions /\ made' = made + 1 /\ Fine
        /\ progress' = [NoUpload EXCEPT !.total = TRUE]
        /\ url' = made + 1 /\ start' = 0 /\ inDoubt' = FALSE /\ resumed' = FALSE /\ resends' = 0
        /\ uploadStage' = "save"
        /\ UNCHANGED <<opState, denied, chunks, choices, taken, attached>>
     \/ Mishap /\ UNCHANGED graphs /\ (Temporary \/ Refused)
  /\ UNCHANGED copy

\* The state saved before each PUT says whether it is the final one.
SavedStateLate == [total |-> TRUE, url |-> url, next |-> start, committing |-> FALSE] \* mutant
SavedState == [total |-> TRUE, url |-> url, next |-> start, committing |-> LastChunk]

SaveState ==
  /\ uploadStage = "save"
  /\ \/ /\ progress' = SavedState /\ uploadStage' = "put" /\ Fine
        /\ UNCHANGED <<opState, denied, locals, chunks, choices>>
     \/ Mishap /\ Temporary
  /\ UNCHANGED <<graphs, copy>>

Next_(s, doubt) ==
  /\ start' = s /\ inDoubt' = doubt /\ uploadStage' = "save"
  /\ UNCHANGED <<opState, progress, denied, url, chunks, choices>>

\* Graph takes the chunk it expects; the last one commits the attachment.
Takes ==
  /\ taken[url] = start
  /\ taken' = [taken EXCEPT ![url] = start + 1]
  /\ attached' = attached + (IF LastChunk THEN 1 ELSE 0)
  /\ UNCHANGED made

PutTaken ==
  /\ Takes /\ Fine
  /\ \/ LastChunk /\ Answered
     \/ ~LastChunk /\ Next_(start + 1, FALSE) /\ resumed' = FALSE /\ UNCHANGED <<resends, copy>>

Stale == "open"

MayPutAgain == resends < MaxResends

PutLost ==
  /\ Mishap /\ (Takes \/ UNCHANGED graphs) /\ UNCHANGED copy
  /\ \/ LastChunk /\ Unknown
     \/ ~LastChunk /\ resumed /\ uploadStage' = Stale /\ UNCHANGED <<opState, progress, denied, locals, chunks, choices>>
     \/ ~LastChunk /\ ~resumed /\ MayPutAgain /\ Next_(start, TRUE)
        /\ resends' = resends + 1 /\ UNCHANGED resumed
     \/ ~LastChunk /\ ~resumed /\ ~MayPutAgain /\ Temporary

Landed == inDoubt /\ ~LastChunk

PutRepeated ==
  /\ taken[url] > start /\ Fine
  /\ \/ Landed /\ Next_(start + 1, FALSE) /\ resumed' = FALSE /\ UNCHANGED resends
     \/ ~Landed /\ resumed /\ uploadStage' = Stale
        /\ UNCHANGED <<opState, progress, denied, locals, chunks, choices>>
     \/ ~Landed /\ ~resumed /\ \E left \in Forgotten : End("failed", left) /\ UNCHANGED denied
  /\ UNCHANGED <<graphs, copy>>

\* A refusal: a session taken up again starts over in a new one, another is given up.
PutRefused ==
  /\ (taken[url] = -1 /\ Fine) \/ Mishap
  /\ \/ resumed /\ uploadStage' = Stale /\ UNCHANGED <<opState, progress, denied, locals, chunks, choices>>
     \/ ~resumed /\ (Refused \/ Temporary)
  /\ UNCHANGED <<graphs, copy>>

Put == uploadStage = "put" /\ (PutTaken \/ PutLost \/ PutRepeated \/ PutRefused)

-----------------------------------------------------------------------------
(* The session's two hours, the daemon's crash and the user.               *)

Expire(s) ==
  /\ s <= made /\ taken[s] # -1 /\ Mishap
  /\ taken' = [taken EXCEPT ![s] = -1]
  /\ UNCHANGED <<chunks, opState, progress, uploadStage, locals, made, attached, choices, denied, copy>>

Recovered == IF progress.total /\ ~progress.committing THEN "pending" ELSE "unknown"

Unread == {"done", "discarded"}
Sweep == IF copy = "old" /\ opState \in Unread THEN "gone" ELSE copy

Restart ==
  /\ opState # "queueing" /\ Mishap
  /\ opState' = IF opState = "inflight" THEN Recovered ELSE opState
  /\ uploadStage' = "none" /\ copy' = Sweep
  /\ UNCHANGED <<chunks, progress, locals, graphs, choices, denied>>

TenMinutes ==
  /\ copy = "young" /\ copy' = "old"
  /\ UNCHANGED <<chunks, opState, progress, uploadStage, locals, graphs, choices, denied, mishaps>>

ProgressReset == NoUpload

Retry ==
  /\ opState \in {"unknown", "failed"} /\ choices < MaxChoices
  /\ choices' = choices + 1 /\ denied' = FALSE
  /\ opState' = "pending" /\ progress' = ProgressReset
  /\ UNCHANGED <<chunks, uploadStage, locals, graphs, copy, mishaps>>

\* `outbox discard`.
Discard ==
  /\ opState \in {"pending", "unknown", "failed"} /\ opState' = "discarded"
  /\ UNCHANGED <<chunks, progress, uploadStage, locals, graphs, choices, denied, copy, mishaps>>

Attempt == Claim \/ ReadRefused \/ ReadFile \/ Post \/ Open \/ SaveState \/ Put \/ Record

UploadNext ==
  \/ Queue \/ Attempt \/ Restart \/ TenMinutes \/ Retry \/ Discard
  \/ \E s \in 1..MaxSessions : Expire(s)

\* The outbox's worker takes every pending operation sooner or later.
UploadFairness == WF_uploadVars(Attempt)
UploadSpec == UploadInit /\ [][UploadNext]_uploadVars /\ UploadFairness

-----------------------------------------------------------------------------
(* Properties.                                                             *)

\* Every variable has its type.
UploadTypeOK ==
  /\ opState \in {"queueing", "pending", "inflight", "unknown", "failed", "done", "discarded"}
  /\ progress \in [total : BOOLEAN, url : 0..MaxSessions, next : Nat, committing : BOOLEAN]
  /\ uploadStage \in {"none", "read", "post", "open", "save", "put", "record"}
  /\ (uploadStage # "none") <=> (opState = "inflight")
  /\ taken \in [1..MaxSessions -> -1..chunks] /\ made \in 0..MaxSessions
  /\ resends \in 0..MaxResends /\ attached \in Nat /\ choices \in Nat
  /\ url \in 0..MaxSessions /\ start \in Nat /\ chunks \in ChunkCounts

\* The file is attached at most once for each time the user asked, however often the daemon
\* stops, a session expires or an answer is lost (UploadState.committing, D-028, D-067).
AttachedOncePerChoice == attached <= choices

=============================================================================
