------------------------------- MODULE Series -------------------------------
(***************************************************************************)
(* A recurring task and the two writes that need care with it              *)
(* (daemon/src/outbox/series.rs, recurring_completion.rs and send.rs's     *)
(* patch_with): moving its due date, which takes two PATCHes or Graph      *)
(* splits the series, and completing one occurrence, which must never      *)
(* complete the next.                                                      *)
(*                                                                         *)
(* One task, one operation at a time.  Every request is a step of its own: *)
(* a phone writes, an answer is lost, the daemon stops or the user retries *)
(* between any two.  Days are numbers; a recurrence is a pattern and the   *)
(* day its range starts.                                                   *)
(***************************************************************************)
EXTENDS Integers

CONSTANTS
    Patterns,       \* how often a task may recur, each a set of days
    SDays,          \* the days of due dates a device writes
    MaxSEvents      \* bound: phone writes, faults, retries and operations

ASSUME SeriesAssumption == {} \notin Patterns

NoRec == [pattern |-> {}, start |-> 0]
Recurs(rec) == rec.pattern # {}

VARIABLES
    sg,     \* Graph's task: due, rec, open, etag; and split, the tasks a split made
    sc,     \* the cached task: due, rec, open, etag
    so,     \* the operation: kind, state, asked (a date's day, a completion's
            \* due_before), series and landed (in its payload)
    sw,     \* the worker's attempt: pc, cur (the task last read), rec (to set
            \* again), body (what the next PATCH sends)
    sleft,  \* what the bound still allows
    shist   \* history: what others did to the task, and what we completed

seriesVars == <<sg, sc, so, sw, sleft, shist>>

NoOp == [kind |-> "none", state |-> "none", asked |-> 0, series |-> NoRec, landed |-> 0]
AtRest == [pc |-> "rest", cur |-> [due |-> 0, rec |-> NoRec, open |-> TRUE, etag |-> 0],
           rec |-> NoRec, body |-> "none"]

\* The first day of the pattern on or after `day`.
Occurrence(pattern, day) ==
    CHOOSE d \in pattern : d >= day /\ \A e \in pattern : e >= day => d <= e

Task(g) == [due |-> g.due, rec |-> g.rec, open |-> g.open, etag |-> g.etag]

SeriesInit ==
    /\ \E p \in Patterns : \E d \in {e \in SDays : e \in p} :
         sg = [due |-> d, rec |-> [pattern |-> p, start |-> d], open |-> TRUE,
               etag |-> 0, split |-> FALSE]
    /\ sc = Task(sg)
    /\ so = NoOp
    /\ sw = AtRest
    /\ sleft = MaxSEvents
    /\ shist = [phone |-> {}, completed |-> {}, ours |-> TRUE]

-----------------------------------------------------------------------------
(* Graph: what a PATCH does to a task. *)

\* patch_task: the fields sent are merged.  A date alone on a recurring task
\* splits it; a recurrence moves the task to its first occurrence; completing
\* a recurring task moves it to the next.
Patched(g, body, op, rec) ==
    LET h == [g EXCEPT !.etag = @ + 1]
    IN  CASE body = "date" /\ Recurs(g.rec) -> [h EXCEPT !.split = TRUE]
          [] body = "date"  -> [h EXCEPT !.due = op.asked]
          [] body = "first" -> [h EXCEPT !.due = op.asked, !.rec = NoRec]
          [] body = "rec"   -> [h EXCEPT !.rec = rec, !.due = Occurrence(rec.pattern, rec.start)]
          [] body = "complete" /\ Recurs(g.rec) -> [h EXCEPT !.due = Occurrence(g.rec.pattern, g.due + 1)]
          [] body = "complete" -> [h EXCEPT !.open = FALSE]

-----------------------------------------------------------------------------
(* The user's commands. *)

\* update_op: a date, or a completion with the occurrence the user saw.
QueueDate(kind, day) ==
    /\ so.kind = "none" /\ sleft > 0 /\ sc.open
    /\ kind = "complete" => Recurs(sc.rec) /\ day = sc.due
    /\ kind = "date" => day \in SDays /\ day # sc.due
    /\ so' = [NoOp EXCEPT !.kind = kind, !.state = "pending", !.asked = day]
    /\ sleft' = sleft - 1
    /\ shist' = [shist EXCEPT !.completed = {}]
    /\ UNCHANGED <<sg, sc, sw>>

\* `outbox retry` of an operation that failed or whose outcome is unknown.
Retry ==
    /\ so.state \in {"failed", "unknown"} /\ sleft > 0
    /\ so' = [so EXCEPT !.state = "pending"]
    /\ sleft' = sleft - 1
    /\ UNCHANGED <<sg, sc, sw, shist>>

\* `outbox discard`.
DiscardDate ==
    /\ so.state \in {"failed", "unknown"} /\ sleft > 0
    /\ so' = NoOp
    /\ sleft' = sleft - 1
    /\ shist' = [shist EXCEPT !.phone = @ \cup {"discarded"}]
    /\ UNCHANGED <<sg, sc, sw>>

-----------------------------------------------------------------------------
(* The worker. *)

\* series::applies, where the operation sets a date.
Applies == so.kind = "date" /\ (Recurs(sc.rec) \/ Recurs(so.series))

\* attempt and patch: what is read or sent first.
Send ==
    /\ so.state = "pending" /\ sw.pc = "rest"
    /\ so' = [so EXCEPT !.state = "inflight"]
    /\ sw' = CASE so.kind = "complete" -> [AtRest EXCEPT !.pc = "occurrence"]
               [] Applies -> [AtRest EXCEPT !.pc = "read"]
               [] OTHER -> [AtRest EXCEPT !.pc = "patch", !.cur = sc, !.body = "date"]
    /\ UNCHANGED <<sg, sc, sleft, shist>>

\* recurring_completion::ensure_occurrence.
SameOccurrence(task) == so.asked = task.due /\ task.open

\* attempt: a completion reads the task, and goes on with that one's etag.
ReadOccurrence ==
    /\ sw.pc = "occurrence"
    /\ IF SameOccurrence(sg)
         THEN /\ sw' = [sw EXCEPT !.pc = "patch", !.cur = Task(sg), !.body = "complete"]
              /\ UNCHANGED so
         ELSE sw' = AtRest /\ so' = [so EXCEPT !.state = "failed"]
    /\ UNCHANGED <<sg, sc, sleft, shist>>

NotKept(op, rec) == op \* mutant
\* set_payload: the recurrence to set again is in the operation first.
KeepSeries(op, rec) == [op EXCEPT !.series = rec]

\* series::patch: the recurrence is Graph's, from the new date on; a first
\* PATCH that landed already is finished from the operation.
ReadSeries ==
    /\ sw.pc = "read"
    /\ LET again == [pattern |-> sg.rec.pattern, start |-> so.asked]
       IN  CASE Recurs(sg.rec) ->
                  /\ so' = KeepSeries(so, again)
                  /\ sw' = [sw EXCEPT !.pc = "patch", !.cur = sc, !.rec = again, !.body = "first"]
             [] ~Recurs(sg.rec) /\ Recurs(so.series) /\ sg.due = so.asked ->
                  /\ sw' = [sw EXCEPT !.pc = "restore", !.cur = Task(sg), !.rec = so.series, !.body = "rec"]
                  /\ UNCHANGED so
             [] OTHER ->
                  /\ sw' = [sw EXCEPT !.pc = "patch", !.cur = sc, !.body = "date"]
                  /\ UNCHANGED so
    /\ UNCHANGED <<sg, sc, sleft, shist>>

\* update_task's If-Match: Graph refuses a stale etag.
IfMatch == sw.cur.etag = sg.etag

\* series::note_landed.
SeriesLanded(due) == IF so.kind = "date" /\ due # so.asked THEN due ELSE 0

\* What the worker does with an answer to the PATCH at hand (patch_with,
\* rolled_on, restore): done, on to the recurrence, or unknown.
SeriesAnswered(g) ==
    CASE sw.body = "first" ->
           /\ sw' = [sw EXCEPT !.pc = "restore", !.cur = Task(g), !.body = "rec"]
           /\ UNCHANGED <<so, sc>>
      [] sw.body = "rec" ->
           /\ sw' = AtRest
           /\ so' = [so EXCEPT !.state = "done", !.landed = SeriesLanded(g.due)]
           /\ sc' = Task(g)
      [] sw.body \in {"date", "complete"} ->
           /\ sw' = AtRest
           /\ so' = [so EXCEPT !.state = IF so.kind = "complete" /\ g.open /\ g.due <= sw.cur.due
                                           THEN "unknown" ELSE "done"]
           /\ sc' = Task(g)

\* What Graph does with it, and what history remembers.
GraphTakes ==
    /\ sg' = Patched(sg, sw.body, so, sw.rec)
    /\ shist' = [shist EXCEPT
         !.completed = IF sw.body = "complete" THEN @ \cup {sg.due} ELSE @,
         !.ours = TRUE]

\* A PATCH, its answer received.
Patch ==
    /\ sw.pc \in {"patch", "again", "restore", "restoreAgain"} /\ IfMatch
    /\ GraphTakes
    /\ SeriesAnswered(sg')
    /\ UNCHANGED sleft

\* Call.idempotent: a completion that may have reached Graph isn't resent.
AmbiguousCompletion == "unknown"

\* A PATCH whose answer is lost: the client sends it again, unless it completes.
PatchLost ==
    /\ sw.pc \in {"patch", "again", "restore", "restoreAgain"} /\ IfMatch /\ sleft > 0
    /\ sleft' = sleft - 1
    /\ GraphTakes
    /\ IF so.kind = "complete"
         THEN so' = [so EXCEPT !.state = AmbiguousCompletion] /\ sw' = AtRest
         ELSE UNCHANGED <<so, sw>>
    /\ UNCHANGED sc

Holds(task) == so.kind = "date" /\ task.due = so.asked

\* patch_with and restore on a 412: the task is read again.  Held already is
\* done (or goes on to the recurrence); otherwise it is sent with the new etag.
Stale ==
    /\ sw.pc \in {"patch", "restore"} /\ sw.cur.etag # sg.etag
    /\ CASE so.kind = "complete" /\ ~SameOccurrence(sg) ->
              sw' = AtRest /\ so' = [so EXCEPT !.state = "failed"] /\ UNCHANGED sc
         [] sw.body \in {"date", "first"} /\ Holds(sg) -> SeriesAnswered(sg)
         [] sw.body = "rec" /\ sg.rec = sw.rec -> SeriesAnswered(sg)
         [] OTHER ->
              /\ sw' = [sw EXCEPT !.cur = Task(sg),
                                  !.pc = IF sw.pc = "patch" THEN "again" ELSE "restoreAgain"]
              /\ UNCHANGED <<so, sc>>
    /\ UNCHANGED <<sg, sleft, shist>>

\* A second 412, and any other refusal, rejects the operation (classify).
SeriesRefused ==
    /\ \/ sw.pc \in {"again", "restoreAgain"} /\ sw.cur.etag # sg.etag
       \/ sw.pc \in {"patch", "again", "restore", "restoreAgain"} /\ sleft > 0
    /\ sleft' = IF sw.cur.etag # sg.etag /\ sw.pc \in {"again", "restoreAgain"} THEN sleft ELSE sleft - 1
    /\ sw' = AtRest
    /\ so' = [so EXCEPT !.state = "failed"]
    /\ UNCHANGED <<sg, sc, shist>>

\* The client gives up for now, or the daemon stops and starts again
\* (recover_inflight): a completion may have been sent, anything else is sent
\* again.
Interrupted ==
    /\ sw.pc # "rest" /\ sleft > 0
    /\ sleft' = sleft - 1
    /\ sw' = AtRest
    /\ so' = [so EXCEPT !.state = IF so.kind = "complete" THEN AmbiguousCompletion ELSE "pending"]
    /\ UNCHANGED <<sg, sc, shist>>

\* A sync reads the task, unless it has an unresolved operation.
SyncTask ==
    /\ so.state \notin {"pending", "inflight", "unknown"}
    /\ sc # Task(sg)
    /\ sc' = Task(sg)
    /\ shist' = [shist EXCEPT !.phone = IF Recurs(sg.rec) THEN {} ELSE @ \ {"repeats"}]
    /\ UNCHANGED <<sg, so, sw, sleft>>

\* The operation is done and pruned.
Prune ==
    /\ so.state = "done"
    /\ so' = NoOp
    /\ UNCHANGED <<sg, sc, sw, sleft, shist>>

-----------------------------------------------------------------------------
(* A phone writes the same task. *)

Phone(did, g) ==
    /\ sleft > 0 /\ sg.open
    /\ sg' = [g EXCEPT !.etag = sg.etag + 1]
    /\ sleft' = sleft - 1
    /\ shist' = [shist EXCEPT !.phone = @ \cup {did}, !.ours = FALSE]
    /\ UNCHANGED <<sc, so, sw>>

PhoneWrites ==
    \/ Phone("edited", sg)
    \/ \E d \in SDays : d # sg.due /\ ~Recurs(sg.rec) /\ Phone("moved", [sg EXCEPT !.due = d])
    \/ Recurs(sg.rec) /\ Phone("cleared", [sg EXCEPT !.rec = NoRec])
    \/ Recurs(sg.rec) /\ Phone("completed", [sg EXCEPT !.due = Occurrence(sg.rec.pattern, sg.due + 1)])
    \/ \E p \in Patterns : p # sg.rec.pattern /\
          Phone("repeats", [sg EXCEPT !.rec = [pattern |-> p, start |-> sg.due],
                                      !.due = Occurrence(p, sg.due)])

SeriesNext ==
    \/ \E kind \in {"date", "complete"}, day \in SDays : QueueDate(kind, day)
    \/ Retry \/ DiscardDate
    \/ Send \/ ReadOccurrence \/ ReadSeries
    \/ Patch \/ PatchLost \/ Stale \/ SeriesRefused \/ Interrupted
    \/ SyncTask \/ Prune
    \/ PhoneWrites

SeriesSpec == SeriesInit /\ [][SeriesNext]_seriesVars

-----------------------------------------------------------------------------
(* What the two writes promise. *)

\* The recurrence the first PATCH clears is never only in memory: until it is
\* set again the operation holds it, through a rejection, a stop of the daemon
\* and a retry.  Others may take it away: by clearing it, by moving the date
\* in between, by discarding the operation (series::patch, set_payload).
SeriesRecoverable ==
    \/ Recurs(sg.rec)
    \/ Recurs(so.series) /\ so.state # "done"
    \/ shist.phone \cap {"cleared", "moved", "discarded"} # {}

=============================================================================
