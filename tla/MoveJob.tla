------------------------------- MODULE MoveJob -------------------------------
(***************************************************************************)
(* Moving a task to another list.  Graph has no move, so the outbox worker *)
(* copies the task, checks the copy and deletes the original, as one       *)
(* operation whose steps are saved: `p` is the Progress of the attempt     *)
(* that runs, `saved` the one in the database.  Between any two requests   *)
(* the daemon may stop, an answer may be lost and a phone may edit or      *)
(* delete the original, the copy, or either list.                          *)
(*                                                                         *)
(* The original's content and its etag are the number of its last edit, a  *)
(* copy's content is the edit it was made from.  The original is task 0,   *)
(* the copies made by the move's POSTs are 1, 2, ...                       *)
(***************************************************************************)
EXTENDS Integers, FiniteSets

CONSTANTS
  Files,       \* the original's attachments
  Events,      \* what may go wrong or be done: see EventNames
  MaxCopies,   \* bound: copies the move may make
  MaxEdits,    \* bound: edits made on the phone
  MaxTouches,  \* bound: deletes, and edits of a copy, made on the phone
  MaxFaults,   \* bound: requests that fail, lost answers, store errors, daemon stops
  MaxChoices   \* bound: retries the user asks for

EventNames == {"lost", "rejected", "temporary", "store", "stop", "spool",
               "edit_copy", "delete", "delete_list", "discard"}

ASSUME MoveAssumption ==
  /\ IsFiniteSet(Files)
  /\ Events \subseteq EventNames
  /\ MaxCopies \in Nat /\ MaxEdits \in Nat /\ MaxTouches \in Nat /\ MaxFaults \in Nat /\ MaxChoices \in Nat

Copies == 1..MaxCopies
None   == -1                 \* no Graph ID
Other  == MaxEdits + 2       \* what a copy edited on the phone holds
Stages == {"prepare", "create", "attachments", "verify", "delete", "rollback"}

VARIABLES
  version,   \* Graph: the number of the original's last edit
  removed,   \* who removed the original: nobody, the phone, or the move
  copies,    \* each copy: whether it exists, the edit it holds, its files
  made,      \* how many were made
  live,      \* the lists that exist
  asked,     \* the etags a conditional delete on its way carries
  aimed,     \* whether Graph compared the etag and is about to delete
  reply      \* what the last conditional delete answered

VARIABLES
  state,     \* the operation's state, or "dropped"
  saved,     \* its steps, as the database has them
  row,       \* the task's row: the list it shows in, its Graph ID, whether it's live
  known,     \* the lists the cache has
  found,     \* the copies that sync made rows of their own for
  reread,    \* the lists to be read whole on the next pass
  spool      \* whether the attachments' bytes are on disk

VARIABLES
  p,         \* the steps of the running attempt
  at,        \* where it is
  ended,     \* how it ended
  read       \* the version of the original it last read

VARIABLES
  checked,   \* history: the versions a copy was found to hold
  late,      \* history: an edit landed between Graph's compare and delete
  touches,   \* history: times the phone deleted something or edited a copy
  unsaved,   \* history: uploads answered whose steps couldn't be saved
  faults, choices

graph  == <<version, removed, copies, made, live, asked, aimed, reply>>
store  == <<state, saved, row, known, found, reread, spool>>
memory == <<p, at, ended, read>>
past   == <<checked, late, touches, unsaved, faults, choices>>
vars   == <<graph, store, memory, past>>

\* Progress::default()
NoSteps ==
  [stage |-> "prepare", source |-> "none", etag |-> 0, files |-> [f \in Files |-> "pending"],
   copy |-> None, in_doubt |-> FALSE, needs_user |-> FALSE, delete_started |-> FALSE,
   both_missing |-> FALSE, checked |-> 0]

Original == removed = "no"
NoCopy   == [there |-> FALSE, holds |-> 0, files |-> [f \in Files |-> 0]]

\* The copy holds version v with every attachment once, as check_copy compares it.
Matches(c, v) == copies[c].holds = v /\ \A f \in Files : copies[c].files[f] = 1

Init ==
  /\ version = 1 /\ removed = "no" /\ copies = [c \in Copies |-> NoCopy] /\ made = 0
  /\ live = {"from", "to"} /\ asked = {} /\ aimed = FALSE /\ reply = "none"
  /\ state = "pending" /\ saved = NoSteps
  /\ row = [list |-> "to", id |-> 0, live |-> TRUE]
  /\ known = {"from", "to"} /\ found = {} /\ reread = {} /\ spool = FALSE
  /\ p = NoSteps /\ at = "idle" /\ ended = "none" /\ read = 0
  /\ checked = {} /\ late = FALSE /\ touches = 0 /\ unsaved = 0
  /\ faults = 0 /\ choices = 0

-----------------------------------------------------------------------------
(* How a step of the attempt goes on.                                      *)

May(e) == e \in Events
Fault(e) == May(e) /\ faults < MaxFaults /\ faults' = faults + 1
NoFault  == UNCHANGED faults
Past     == UNCHANGED <<checked, late, touches, unsaved, choices>>

Save(q)  == p' = q /\ saved' = q
Goto(a)  == at' = a /\ UNCHANGED <<ended, read>>
End(how) == at' = "settle" /\ ended' = how /\ UNCHANGED read
Abort(how) == End(how) /\ UNCHANGED <<p, saved>>
NextStage(q)  == Save(q) /\ Goto("stage")
RollBackFrom(q) == NextStage([q EXCEPT !.stage = "rollback"])
PauseFor(q)   == Save([q EXCEPT !.needs_user = TRUE]) /\ End("paused")

RowKept  == UNCHANGED <<state, row, known, found, reread, spool>>
AtStage(s) == at = "stage" /\ p.stage = s

\* A read that fails: a refusal fails the move, anything else is tried again.
ReadFailure ==
  \/ Fault("rejected") /\ Abort("failed")
  \/ Fault("temporary") /\ Abort("temporary")

\* During the check, a refusal rolls the move back instead.
ReadFailed ==
  \/ Fault("rejected") /\ RollBackFrom(p)
  \/ Fault("temporary") /\ Abort("temporary")

\* The database can't take the steps: the attempt ends with what it has.
SaveFails == Fault("store") /\ UNCHANGED saved /\ End("temporary")

-----------------------------------------------------------------------------
(* The attempt.                                                            *)

\* The worker claims the move and finds the target list.
Run ==
  /\ state = "pending" /\ at = "idle"
  /\ state' = "inflight"
  /\ p' = saved
  /\ \/ "to" \in known /\ Goto("stage") /\ NoFault
     \/ /\ "to" \notin known /\ NoFault
        /\ End(IF saved.delete_started THEN "paused" ELSE "failed")
     \/ Fault("store") /\ End("temporary")
  /\ Past
  /\ UNCHANGED <<graph, saved, row, known, found, reread, spool>>

\* Read the original whole, and keep its attachments' bytes.
Prepare ==
  /\ AtStage("prepare")
  /\ \/ /\ "from" \notin known \/ row.id = None \/ row.id # 0 \/ ~Original
        /\ Abort("failed") /\ NoFault /\ UNCHANGED spool
     \/ /\ "from" \in known /\ row.id = 0 /\ Original
        /\ NextStage([p EXCEPT !.stage = "create", !.source = "graph", !.etag = version,
                               !.files = [f \in Files |-> "pending"]])
        /\ spool' = TRUE /\ NoFault
     \/ "from" \in known /\ ReadFailure /\ UNCHANGED spool
     \/ SaveFails /\ UNCHANGED <<p, spool>>
  /\ Past
  /\ UNCHANGED <<graph, state, row, known, found, reread>>

\* Before the copy's POST, the move is saved as in doubt.
CreateIntent ==
  /\ AtStage("create")
  /\ \/ p.copy # None /\ NextStage([p EXCEPT !.stage = "attachments"]) /\ NoFault
     \/ p.copy = None /\ Save([p EXCEPT !.in_doubt = TRUE]) /\ Goto("post") /\ NoFault
     \/ SaveFails /\ UNCHANGED p
  /\ Past /\ RowKept
  /\ UNCHANGED graph

\* Graph makes the copy: a POST into a list deleted meanwhile makes nothing.
Made == /\ made < MaxCopies
        /\ made' = made + 1
        /\ copies' = [copies EXCEPT ![made + 1] =
                        [NoCopy EXCEPT !.there = "to" \in live, !.holds = p.etag]]

CreatePost ==
  /\ at = "post"
  /\ \/ Made /\ NoFault /\ Goto("posted") /\ UNCHANGED <<p, saved>>
     \/ Made /\ Fault("lost") /\ Abort("paused")
     \/ /\ UNCHANGED <<copies, made>>
        /\ LET q == [p EXCEPT !.in_doubt = FALSE]
           IN  \/ Fault("lost") /\ Abort("paused")
               \/ Fault("rejected") /\ RollBackFrom(q)
               \/ Fault("temporary") /\ Save(q) /\ End("temporary")
  /\ Past /\ RowKept
  /\ UNCHANGED <<version, removed, live, asked, aimed, reply>>

Created == [p EXCEPT !.copy = made, !.in_doubt = FALSE, !.stage = "attachments"]

\* The task becomes the copy; if the cache can't take it, the move stays in doubt.
CreateRecord ==
  /\ at = "posted"
  /\ \/ /\ NextStage(Created)
        /\ row' = [row EXCEPT !.id = made]
        /\ found' = found \ {made}
        /\ NoFault
     \/ Fault("store") /\ Abort("paused") /\ UNCHANGED <<row, found>>
  /\ Past
  /\ UNCHANGED <<graph, state, known, reread, spool>>

\* Before an attachment's POST, the move is saved as in doubt and the user's.
AttachIntent ==
  /\ AtStage("attachments")
  /\ \/ /\ \A f \in Files : p.files[f] = "done"
        /\ NextStage([p EXCEPT !.stage = "verify"]) /\ NoFault
     \/ \E f \in Files :
          /\ p.files[f] # "done" /\ spool
          /\ \A g \in Files : p.files[g] = "sent" => g = f
          /\ Save([p EXCEPT !.files[f] = "sent", !.in_doubt = TRUE, !.needs_user = TRUE])
          /\ Goto("put") /\ NoFault
     \/ ~spool /\ (\E f \in Files : p.files[f] # "done") /\ RollBackFrom(p) /\ NoFault
     \/ SaveFails /\ UNCHANGED p
  /\ Past /\ RowKept
  /\ UNCHANGED graph

Sending == CHOOSE f \in Files : p.files[f] = "sent"
Put == copies[p.copy].there /\ copies' = [copies EXCEPT ![p.copy].files[Sending] = @ + 1]

AttachPost ==
  /\ at = "put"
  /\ LET Answered(s) == [p EXCEPT !.files[Sending] = s, !.in_doubt = FALSE, !.needs_user = FALSE]
     IN  \/ /\ Put /\ NoFault
            /\ p' = Answered("done") /\ Goto("putted") /\ UNCHANGED saved
         \/ Put /\ Fault("lost") /\ Abort("paused")
         \/ /\ UNCHANGED copies
            /\ \/ Fault("lost") /\ Abort("paused")
               \/ Fault("rejected") /\ RollBackFrom(Answered("pending"))
               \/ Fault("temporary") /\ Save(Answered("pending")) /\ End("temporary")
               \* the copy or its list is gone
               \/ ~copies[p.copy].there /\ RollBackFrom(Answered("pending")) /\ NoFault
  /\ Past /\ RowKept
  /\ UNCHANGED <<version, removed, made, live, asked, aimed, reply>>

AttachRecord ==
  /\ at = "putted"
  /\ \/ Save(p) /\ Goto("stage") /\ NoFault /\ UNCHANGED unsaved
     \/ SaveFails /\ unsaved' = unsaved + 1 /\ UNCHANGED p
  /\ RowKept
  /\ UNCHANGED <<graph, checked, late, touches, choices>>

\* The target list answers, and the copy holds what was read of the original.
VerifyCopy ==
  /\ AtStage("verify")
  /\ \/ /\ "to" \in live /\ copies[p.copy].there /\ Matches(p.copy, p.etag)
        /\ checked' = checked \cup {p.etag}
        /\ p' = [p EXCEPT !.checked = p.etag]
        /\ Goto("source") /\ NoFault /\ UNCHANGED saved
     \/ /\ "to" \notin live \/ ~copies[p.copy].there \/ ~Matches(p.copy, p.etag)
        /\ RollBackFrom(p) /\ NoFault /\ UNCHANGED checked
     \/ ReadFailed /\ UNCHANGED checked
  /\ RowKept
  /\ UNCHANGED <<graph, late, touches, unsaved, choices>>

\* The original hasn't changed meanwhile.
VerifySource ==
  /\ at = "source"
  /\ \/ /\ p.source = "local" \/ ~Original
        /\ Goto("finish") /\ NoFault /\ UNCHANGED <<p, saved>>
     \/ /\ p.source = "graph" /\ Original
        /\ IF version = p.etag THEN NextStage([p EXCEPT !.stage = "delete"]) ELSE RollBackFrom(p)
        /\ NoFault
     \/ p.source = "graph" /\ ReadFailed
     \/ p.source = "graph" /\ Original /\ SaveFails /\ UNCHANGED p
  /\ Past /\ RowKept
  /\ UNCHANGED graph

\* From the moment the delete may be sent, the copy is never deleted.
DeleteIntent ==
  /\ AtStage("delete")
  /\ \/ p.source = "local" /\ Goto("finish") /\ NoFault /\ UNCHANGED <<p, saved>>
     \/ p.source = "graph" /\ p.delete_started /\ Goto("recover") /\ NoFault /\ UNCHANGED <<p, saved>>
     \/ /\ p.source = "graph" /\ ~p.delete_started
        /\ Save([p EXCEPT !.delete_started = TRUE])
        /\ at' = "read" /\ read' = p.etag /\ UNCHANGED ended /\ NoFault
     \/ ~p.delete_started /\ SaveFails /\ UNCHANGED p
  /\ Past /\ RowKept
  /\ UNCHANGED graph

\* The original is read once more: it must be as it was when the copy was checked.
DeleteRead ==
  /\ at = "read"
  /\ \/ ~Original /\ Goto("finish") /\ NoFault /\ UNCHANGED <<p, saved>>
     \/ Original /\ version # read /\ PauseFor(p) /\ NoFault
     \/ Original /\ version = read /\ Goto("batch") /\ NoFault /\ UNCHANGED <<p, saved>>
     \/ ReadFailure
  /\ Past /\ RowKept
  /\ UNCHANGED graph

\* The batch of a comparison and a delete goes out.  Every task here has an etag,
\* as Graph's have: the unconditional delete of one without is left out.
DeleteSend ==
  /\ at = "batch"
  /\ asked' = asked \cup {read}
  /\ reply' = "none"
  /\ Goto("batched")
  /\ Past /\ NoFault
  /\ UNCHANGED <<version, removed, copies, made, live, aimed, store, p>>

\* Graph's side of it, which goes on whatever becomes of the daemon.
GraphCompares(v) ==
  /\ v \in asked
  /\ asked' = asked \ {v}
  /\ IF Original /\ version = v
       THEN aimed' = TRUE /\ UNCHANGED reply
       ELSE reply' = (IF Original THEN "changed" ELSE "gone") /\ UNCHANGED aimed
  /\ UNCHANGED <<version, removed, copies, made, live, store, memory, past>>

GraphDeletes ==
  /\ aimed
  /\ aimed' = FALSE
  /\ removed' = IF Original THEN "move" ELSE removed
  /\ reply' = "deleted"
  /\ UNCHANGED <<version, copies, made, live, asked, store, memory, past>>

Deleted == {"deleted", "gone"}

DeleteAnswer ==
  /\ at = "batched"
  /\ \/ /\ reply \in Deleted /\ Goto("finish") /\ NoFault
        /\ UNCHANGED <<p, saved, asked>>
     \/ reply = "changed" /\ PauseFor(p) /\ NoFault /\ UNCHANGED asked
     \/ Fault("lost") /\ Abort("temporary") /\ UNCHANGED asked
     \/ read \in asked /\ Fault("temporary") /\ Abort("temporary") /\ asked' = asked \ {read}
     \/ read \in asked /\ Fault("rejected") /\ PauseFor(p) /\ asked' = asked \ {read}
  /\ Past /\ RowKept
  /\ UNCHANGED <<version, removed, copies, made, live, aimed, reply>>

\* The delete may have been sent before: read the original, then the copy.
RecoverSource ==
  /\ at = "recover"
  /\ \/ /\ read' = (IF Original THEN version ELSE 0)
        /\ at' = "recover_copy" /\ UNCHANGED <<ended, p, saved>> /\ NoFault
     \/ ReadFailure
  /\ Past /\ RowKept
  /\ UNCHANGED graph

BothTrusted == Goto("read") \* mutant
BothThere == Goto("recheck")

RecoverCopy ==
  /\ at = "recover_copy"
  /\ LET copied == copies[p.copy].there
     IN  \/ /\ read = 0 /\ copied
            /\ p' = [p EXCEPT !.checked = copies[p.copy].holds]
            /\ Goto("finish") /\ NoFault /\ UNCHANGED saved
         \/ read # 0 /\ copied /\ BothThere /\ NoFault /\ UNCHANGED <<p, saved>>
         \/ read # 0 /\ ~copied /\ RollBackFrom([p EXCEPT !.copy = None]) /\ NoFault
         \/ read = 0 /\ ~copied /\ PauseFor([p EXCEPT !.both_missing = TRUE]) /\ NoFault
         \/ ReadFailure
  /\ Past /\ RowKept
  /\ UNCHANGED graph

\* Both are there: the whole check again, against the original as it was just read.  On a
\* mismatch both are kept and the user decides.
SameUnchecked == TRUE \* mutant
Same == Matches(p.copy, read)

Differ == PauseFor(p)

Recheck ==
  /\ at = "recheck"
  /\ LET there == "to" \in live /\ copies[p.copy].there
     IN  \/ /\ there /\ Same
            /\ checked' = checked \cup {read}
            /\ Save([p EXCEPT !.checked = read])
            /\ Goto("read") /\ NoFault
         \/ there /\ ~Same /\ Differ /\ NoFault /\ UNCHANGED checked
         \/ /\ ~there /\ RollBackFrom([p EXCEPT !.copy = None]) /\ NoFault /\ UNCHANGED checked
         \/ ReadFailure /\ UNCHANGED checked
  /\ RowKept
  /\ UNCHANGED <<graph, late, touches, unsaved, choices>>

\* The task is the checked copy, and the move is done.
Finish ==
  /\ at = "finish"
  /\ LET q == [p EXCEPT !.needs_user = FALSE, !.both_missing = FALSE]
     IN  \/ /\ Save(q) /\ NoFault
            /\ state' = "done"
            /\ row' = [row EXCEPT !.id = p.copy]
            /\ found' = found \ {p.copy}
            /\ spool' = FALSE
            /\ at' = "idle" /\ ended' = "none" /\ read' = 0
         \/ SaveFails /\ UNCHANGED <<p, state, row, found, spool>>
  /\ Past
  /\ UNCHANGED <<graph, known, reread>>

\* Undo the move: the partial copy goes, never once the delete may have started.
RollBack ==
  /\ AtStage("rollback")
  /\ LET gone == copies' = [copies EXCEPT ![p.copy].there = FALSE]
     IN  IF p.copy = None \/ p.delete_started
         THEN Abort("failed") /\ NoFault /\ UNCHANGED copies
         ELSE \/ gone /\ Save([p EXCEPT !.copy = None]) /\ Goto("stage") /\ NoFault
              \/ gone /\ Fault("lost") /\ Abort("temporary")
              \/ UNCHANGED copies /\ Fault("temporary") /\ Abort("temporary")
              \/ UNCHANGED copies /\ Fault("rejected") /\ PauseFor(p)
  /\ Past /\ RowKept
  /\ UNCHANGED <<version, removed, made, live, asked, aimed, reply>>

-----------------------------------------------------------------------------
(* What the queue makes of it.                                             *)

\* Where the task goes back to.
MoveBack(s) ==
  CASE s.source = "local" -> [row EXCEPT !.live = FALSE]
    [] s.source = "graph" -> [list |-> "from", id |-> 0, live |-> TRUE]
    [] s.source = "none"  -> [row EXCEPT !.list = "from", !.live = TRUE]

Merged == found' = found \ {row'.id}

Deferred == "pending"

Settle ==
  /\ at = "settle"
  /\ at' = "idle" /\ ended' = "none" /\ read' = 0
  /\ \/ /\ ended = "paused" /\ state' = "unknown" /\ UNCHANGED <<row, found, reread, spool>>
     \/ /\ ended = "temporary" /\ state' = Deferred /\ UNCHANGED <<row, found, reread, spool>>
     \/ /\ ended = "failed" /\ state' = "failed"
        /\ row' = MoveBack(saved) /\ Merged
        /\ reread' = {"from", "to"} \cap known
        /\ spool' = FALSE
  /\ UNCHANGED <<graph, saved, known, p, past>>

Recovered == IF saved.in_doubt THEN "unknown" ELSE "pending"

Restart ==
  /\ state = "inflight" /\ Fault("stop")
  /\ state' = Recovered
  /\ p' = NoSteps /\ at' = "idle" /\ ended' = "none" /\ read' = 0
  /\ Past
  /\ UNCHANGED <<graph, saved, row, known, found, reread, spool>>

-----------------------------------------------------------------------------
(* The user.                                                               *)

RetrySteps ==
  IF state = "failed" THEN NoSteps
  ELSE IF saved.both_missing
  THEN [NoSteps EXCEPT !.stage = "create", !.source = "local", !.etag = saved.etag]
  ELSE [saved EXCEPT !.in_doubt = FALSE, !.needs_user = FALSE,
                     !.files = [f \in Files |-> IF @[f] = "sent" THEN "pending" ELSE @[f]]]

Retry ==
  /\ state \in {"unknown", "failed"} /\ choices < MaxChoices
  /\ asked = {} /\ ~aimed   \* no request outlives the user's patience
  /\ choices' = choices + 1
  /\ state' = "pending"
  /\ saved' = RetrySteps
  /\ row' = IF state = "failed" THEN [row EXCEPT !.list = "to", !.live = TRUE] ELSE row
  /\ UNCHANGED <<graph, known, found, reread, spool, memory, checked, late, touches, unsaved, faults>>

WroteAnything(s) == s.copy # None \/ s.in_doubt

Discard ==
  /\ May("discard")
  /\ \/ state = "failed" /\ UNCHANGED <<row, found, reread>>
     \/ /\ state = "unknown" \/ (state = "pending" /\ ~WroteAnything(saved))
        /\ row' = IF saved.both_missing THEN [row EXCEPT !.live = FALSE] ELSE MoveBack(saved)
        /\ Merged
        /\ reread' = {"from", "to"} \cap known
  /\ state' = "dropped" /\ spool' = FALSE
  /\ UNCHANGED <<graph, saved, known, memory, past>>

-----------------------------------------------------------------------------
(* Sync.                                                                   *)

\* A pass meets a copy that no row has, and makes one.
Meet(c) ==
  /\ state = "unknown" /\ c \notin found /\ c # row.id
  /\ copies[c].there /\ "to" \in known
  /\ found' = found \cup {c}
  /\ UNCHANGED <<graph, state, saved, row, known, reread, spool, memory, past>>

\* A list read whole: the task's row shows what Graph has, unless a write holds it.
ReadWhole(l) ==
  /\ l \in reread /\ l \in known
  /\ reread' = reread \ {l}
  /\ row' = IF row.list = l /\ state \in {"done", "failed", "dropped"}
            THEN [row EXCEPT !.live = IF row.id = 0 THEN Original
                                      ELSE row.id # None /\ copies[row.id].there]
            ELSE row
  /\ UNCHANGED <<graph, state, saved, known, found, spool, memory, past>>

\* A list is found deleted: its waiting operations fail and their tasks go with it.
ListGone(l) ==
  /\ l \in known /\ l \notin live
  /\ known' = known \ {l}
  /\ reread' = reread \ {l}
  /\ found' = IF l = "to" THEN {} ELSE found
  /\ LET fails == l = "to" /\ state \in {"pending", "unknown"}
     IN  /\ state' = IF fails THEN "failed" ELSE state
         /\ row' = IF fails \/ (row.list = l /\ state \in {"done", "failed", "dropped"})
                   THEN [row EXCEPT !.live = FALSE] ELSE row
  /\ UNCHANGED <<graph, saved, spool, memory, past>>

Found(c) == [saved EXCEPT !.in_doubt = FALSE, !.copy = c, !.stage = "attachments"]

Attribute(c) ==
  /\ state = "unknown" /\ saved.stage = "create" /\ saved.in_doubt
  /\ found = {c}
  /\ state' = "pending"
  /\ saved' = Found(c)
  /\ row' = [row EXCEPT !.id = c]
  /\ found' = found \ {c}
  /\ UNCHANGED <<graph, known, reread, spool, memory, past>>

-----------------------------------------------------------------------------
(* The phone, and the disk.                                                *)

Active == state \notin {"done", "dropped"}
Touch  == Active /\ touches < MaxTouches /\ touches' = touches + 1

PhoneEdits ==
  /\ Active /\ version < MaxEdits + 1 /\ Original
  /\ version' = version + 1
  /\ late' = (late \/ aimed)
  /\ UNCHANGED <<removed, copies, made, live, asked, aimed, reply, store, memory,
                 checked, touches, unsaved, faults, choices>>

PhoneEditsCopy(c) ==
  /\ May("edit_copy") /\ copies[c].there /\ copies[c].holds # Other
  /\ copies' = [copies EXCEPT ![c].holds = Other]
  /\ Touch
  /\ UNCHANGED <<version, removed, made, live, asked, aimed, reply, store, memory,
                 checked, late, unsaved, faults, choices>>

PhoneDeletes ==
  /\ May("delete")
  /\ \/ Original /\ removed' = "phone" /\ UNCHANGED copies
     \/ \E c \in Copies : /\ copies[c].there
                          /\ copies' = [copies EXCEPT ![c].there = FALSE]
                          /\ UNCHANGED removed
  /\ Touch
  /\ UNCHANGED <<version, made, live, asked, aimed, reply, store, memory,
                 checked, late, unsaved, faults, choices>>

PhoneDeletesList(l) ==
  /\ May("delete_list") /\ l \in live
  /\ live' = live \ {l}
  /\ removed' = IF l = "from" /\ Original THEN "phone" ELSE removed
  /\ copies' = IF l = "to" THEN [c \in Copies |-> [copies[c] EXCEPT !.there = FALSE]] ELSE copies
  /\ Touch
  /\ UNCHANGED <<version, made, asked, aimed, reply, store, memory,
                 checked, late, unsaved, faults, choices>>

SpoolLost ==
  /\ Fault("spool") /\ spool
  /\ spool' = FALSE
  /\ Past
  /\ UNCHANGED <<graph, state, saved, row, known, found, reread, memory>>

-----------------------------------------------------------------------------

Attempt ==
  \/ Run \/ Prepare \/ CreateIntent \/ CreatePost \/ CreateRecord
  \/ AttachIntent \/ AttachPost \/ AttachRecord \/ VerifyCopy \/ VerifySource
  \/ DeleteIntent \/ DeleteRead \/ DeleteSend \/ DeleteAnswer
  \/ RecoverSource \/ RecoverCopy \/ Recheck \/ Finish \/ RollBack \/ Settle

Others ==
  \/ GraphDeletes \/ Restart \/ Retry \/ Discard
  \/ PhoneEdits \/ PhoneDeletes \/ SpoolLost
  \/ \E v \in 1..(MaxEdits + 1) : GraphCompares(v)
  \/ \E l \in {"from", "to"} : ReadWhole(l) \/ ListGone(l) \/ PhoneDeletesList(l)
  \/ \E c \in Copies : Meet(c) \/ Attribute(c) \/ PhoneEditsCopy(c)

Next == Attempt \/ Others

Spec == Init /\ [][Next]_vars

\* The worker takes every step it can, and Graph answers what it was sent.
FairSpec ==
  /\ Spec
  /\ WF_vars(Attempt)
  /\ WF_vars(GraphDeletes)
  /\ WF_vars(\E v \in 1..(MaxEdits + 1) : GraphCompares(v))

-----------------------------------------------------------------------------
(* Properties.                                                             *)

Steps ==
  [stage : Stages, source : {"none", "graph", "local"}, etag : 0..(MaxEdits + 1),
   files : [Files -> {"pending", "sent", "done"}], copy : {None} \cup Copies,
   in_doubt : BOOLEAN, needs_user : BOOLEAN, delete_started : BOOLEAN,
   both_missing : BOOLEAN, checked : 0..Other]

GraphTypes ==
  /\ version \in 1..(MaxEdits + 1) /\ removed \in {"no", "phone", "move"}
  /\ copies \in [Copies -> [there : BOOLEAN, holds : 0..Other, files : [Files -> Nat]]]
  /\ made \in 0..MaxCopies /\ live \subseteq {"from", "to"}
  /\ asked \subseteq 1..(MaxEdits + 1) /\ aimed \in BOOLEAN
  /\ reply \in {"none", "deleted", "changed", "gone"}

RowTypes ==
  /\ state \in {"pending", "inflight", "unknown", "done", "failed", "dropped"}
  /\ row \in [list : {"from", "to"}, id : {None, 0} \cup Copies, live : BOOLEAN]
  /\ known \subseteq {"from", "to"} /\ found \subseteq Copies
  /\ reread \subseteq {"from", "to"} /\ spool \in BOOLEAN

AttemptTypes ==
  /\ saved \in Steps /\ p \in Steps
  /\ at \in {"idle", "stage", "post", "posted", "put", "putted", "source", "read", "batch",
            "batched", "recover", "recover_copy", "recheck", "finish", "settle"}
  /\ ended \in {"none", "paused", "failed", "temporary"} /\ read \in 0..(MaxEdits + 1)

PastTypes ==
  /\ checked \subseteq 1..(MaxEdits + 1) /\ late \in BOOLEAN /\ touches \in 0..MaxTouches
  /\ unsaved \in Nat /\ faults \in 0..MaxFaults /\ choices \in 0..MaxChoices

\* Every variable has its type.
TypeOK == GraphTypes /\ RowTypes /\ AttemptTypes /\ PastTypes

\* Whatever fails, stops or is retried, the task's last version is in Graph, in the original
\* or in a copy with every attachment, as long as the phone deletes nothing of it and leaves
\* the copy alone, and no edit lands inside Graph's batch (delete_source, recover_delete).
NeverLost ==
  touches = 0 /\ ~late => Original \/ \E c \in Copies : copies[c].there /\ Matches(c, version)

\* One copy is made and one of each attachment is uploaded per choice of the user: lost
\* answers and restarts never send a POST again by themselves.  An upload whose answer
\* couldn't be saved is the exception the code has (attachments, save).
MadeOncePerChoice ==
  /\ made <= 1 + choices
  /\ \A c \in Copies, f \in Files : copies[c].files[f] <= 1 + choices + unsaved

\* What the queue says of the move.
Said == CASE state \in {"pending", "inflight"} -> "moving"
          [] state = "unknown" -> "asks"
          [] OTHER -> state
Promise == INSTANCE MoveTask WITH said <- Said

\* The saga with its saved steps implements MoveTask: it deletes the original only at a version
\* a copy was found to hold, and is done only then (delete_source, verify, finish).
Refines == Promise!Spec

=============================================================================
