----------------------------- MODULE StepProofs -----------------------------
(***************************************************************************)
(* Proofs about what is done in several steps that others come between.    *)
(* Idempotency keys, for any number of keys, requests, crashes and         *)
(* expiries: a key is in use by one handler, an answer under it is true,   *)
(* and it lets one change through at a time.  A series' two PATCHes:       *)
(* whatever fails between them, it can be set again.  The daemons: the one *)
(* that serves can be found.  A task's files: what is attached and kept is *)
(* what was meant.                                                         *)
(***************************************************************************)
EXTENDS Idempotency, Series, Session, Attached, Downloads, TLAPS

\* Every step of the keys and their requests keeps the types.
LEMMA TypeStep == TypeOK /\ [Next]_vars => TypeOK'
<1> SUFFICES ASSUME TypeOK, [Next]_vars PROVE TypeOK'
  OBVIOUS
<1> USE KeysAssumption DEF TypeOK, Results, Answers, keyVars, sendings, effects
<1>1. ASSUME NEW r \in Requests, NEW k \in Keys, NEW f \in Prints, Claim(r, k, f) PROVE TypeOK'
  BY <1>1 DEF Claim, Answered
<1>2. ASSUME NEW r \in Requests, Queue(r) PROVE TypeOK'
  BY <1>2 DEF Queue
<1>3. ASSUME NEW r \in Requests, Change(r) PROVE TypeOK'
  BY <1>3 DEF Change
<1>4. ASSUME NEW r \in Requests, Fail(r) PROVE TypeOK'
  BY <1>4 DEF Fail
<1>5. ASSUME NEW r \in Requests, FinishKey(r) PROVE TypeOK'
  BY <1>5 DEF FinishKey, Answered
<1>6. ASSUME NEW r \in Requests, ReleaseKey(r) PROVE TypeOK'
  BY <1>6 DEF ReleaseKey, Freed, Answered
<1>7. ASSUME NEW r \in Requests, Drop(r) \/ Resolve(r) \/ Discard(r) PROVE TypeOK'
  BY <1>7 DEF Drop, Resolve, Discard
<1>8. CASE WindowPasses
  BY <1>8 DEF WindowPasses
<1>9. CASE Crash
  <2>1. crashes' \in 0 .. MaxCrashes
    BY <1>9 DEF Crash
  <2>2. at' \in [Requests -> {"unsent", "claimed", "changed", "failed", "over"}]
    BY <1>9 DEF Crash
  <2>3. up' \in BOOLEAN /\ days' = days
    BY <1>9, Zenon DEF Crash
  <2> QED
    BY <1>9, <2>1, <2>2, <2>3 DEF Crash
<1>10. CASE Start
  BY <1>10 DEF Start
<1>11. CASE UNCHANGED vars
  BY <1>11 DEF vars
<1> QED
  BY <1>1, <1>2, <1>3, <1>4, <1>5, <1>6, <1>7, <1>8, <1>9, <1>10, <1>11 DEF Next, Handler

\* The types of the keys and their requests hold throughout (TypeOK).
THEOREM KeyTypes == Spec => []TypeOK
<1>1. Init => TypeOK
  BY KeysAssumption DEF Init, TypeOK
<1> QED
  BY <1>1, TypeStep, PTL DEF Spec

-----------------------------------------------------------------------------

\* Claiming a key, of the requests that wait for it and the expired ones.
LEMMA ClaimKeeps ==
  ASSUME TypeOK, KeysOK, NEW r \in Requests, NEW k \in Keys, NEW f \in Prints, Claim(r, k, f)
  PROVE  KeysOK'
<1> USE KeysAssumption DEF TypeOK, Results, effects
<1>1. /\ \A x \in Keys : KeyOK(x)
      /\ \A q \in Requests : HandlerOK(q) /\ OpenOK(q) /\ AnswerOK(q)
  BY DEF KeysOK
<1>2. ASSUME NEW x \in Keys PROVE KeyOK(x)'
  <2>1. KeyOK(x) /\ KeyOK(k)
    BY <1>1
  <2>2. CASE x # k
    BY <2>1, <2>2 DEF Claim, Answered, KeyOK, None
  <2>3. CASE x = k /\ held[k] # None /\ ~Expired(k)
    BY <2>1, <2>3 DEF Claim, Answered, KeyOK
  <2>4. CASE x = k /\ ~(held[k] # None /\ ~Expired(k))
    BY <2>4 DEF Claim, KeyOK, None
  <2> QED
    BY <2>2, <2>3, <2>4
<1>3. ASSUME NEW q \in Requests PROVE HandlerOK(q)'
  BY <1>1, <1>3 DEF Claim, Answered, KeyOK, HandlerOK, OpenOK, Expired
<1>4. ASSUME NEW q \in Requests PROVE OpenOK(q)'
  BY <1>1, <1>4 DEF Claim, Answered, KeyOK, OpenOK, Expired
<1>5. ASSUME NEW q \in Requests PROVE AnswerOK(q)'
  BY <1>1, <1>5 DEF Claim, Answered, KeyOK, AnswerOK, Expired
<1> QED
  BY <1>2, <1>3, <1>4, <1>5 DEF KeysOK

\* A handler's steps under its key, and its end.
LEMMA HandlerKeeps ==
  ASSUME TypeOK, KeysOK, NEW r \in Requests, Handler(r) \/ Drop(r) \/ Resolve(r) \/ Discard(r)
  PROVE  KeysOK'
<1> USE KeysAssumption DEF TypeOK, Results, keyVars, sendings, effects
<1>1. /\ \A x \in Keys : KeyOK(x)
      /\ \A q \in Requests : HandlerOK(q) /\ OpenOK(q) /\ AnswerOK(q)
  BY DEF KeysOK
<1>2. ASSUME Queue(r) \/ Change(r) \/ Fail(r) PROVE KeysOK'
  <2>1. ASSUME NEW x \in Keys PROVE KeyOK(x)'
    BY <1>1, <1>2, <2>1 DEF Queue, Change, Fail, KeyOK
  <2>2. ASSUME NEW q \in Requests PROVE HandlerOK(q)'
    BY <1>1, <1>2, <2>2 DEF Queue, Change, Fail, HandlerOK
  <2>3. ASSUME NEW q \in Requests PROVE OpenOK(q)'
    BY <1>1, <1>2, <2>3 DEF Queue, Change, Fail, HandlerOK, OpenOK
  <2>4. ASSUME NEW q \in Requests PROVE AnswerOK(q)'
    BY <1>1, <1>2, <2>4 DEF Queue, Change, Fail, AnswerOK
  <2> QED
    BY <2>1, <2>2, <2>3, <2>4 DEF KeysOK
<1>3. ASSUME FinishKey(r) PROVE KeysOK'
  <2>1. ASSUME NEW x \in Keys PROVE KeyOK(x)'
    BY <1>1, <1>3, <2>1 DEF FinishKey, Answered, KeyOK, HandlerOK
  <2>2. ASSUME NEW q \in Requests PROVE HandlerOK(q)'
    BY <1>1, <1>3, <2>2 DEF FinishKey, Answered, HandlerOK
  <2>3. ASSUME NEW q \in Requests PROVE OpenOK(q)' /\ AnswerOK(q)'
    BY <1>1, <1>3, <2>3 DEF FinishKey, Answered, OpenOK, AnswerOK, HandlerOK
  <2> QED
    BY <2>1, <2>2, <2>3 DEF KeysOK
<1>4. ASSUME ReleaseKey(r) PROVE KeysOK'
  <2>1. ASSUME NEW x \in Keys PROVE KeyOK(x)'
    <3>1. KeyOK(x) /\ at'[r] = "over" /\ \A q \in Requests : q # r => at'[q] = at[q]
      BY <1>1, <1>4 DEF ReleaseKey, Answered
    <3>2. UNCHANGED <<under, asks, made>>
      BY <1>4 DEF ReleaseKey
    <3>3. CASE Freed(under[r])
      BY <3>1, <3>2, <3>3 DEF Freed, KeyOK, None
    <3>4. CASE UNCHANGED keyVars
      BY <3>1, <3>2, <3>4 DEF KeyOK
    <3> QED
      BY <1>4, <3>3, <3>4 DEF ReleaseKey
  <2>2. ASSUME NEW q \in Requests PROVE HandlerOK(q)'
    BY <1>1, <1>4, <2>2 DEF ReleaseKey, Freed, Answered, HandlerOK
  <2>3. ASSUME NEW q \in Requests PROVE OpenOK(q)' /\ AnswerOK(q)'
    BY <1>1, <1>4, <2>3 DEF ReleaseKey, Freed, Answered, OpenOK, AnswerOK, HandlerOK
  <2> QED
    BY <2>1, <2>2, <2>3 DEF KeysOK
<1>5. ASSUME Drop(r) \/ Resolve(r) \/ Discard(r) PROVE KeysOK'
  <2>1. ASSUME NEW x \in Keys PROVE KeyOK(x)'
    BY <1>1, <1>5, <2>1 DEF Drop, Resolve, Discard, KeyOK
  <2>2. ASSUME NEW q \in Requests PROVE HandlerOK(q)' /\ OpenOK(q)' /\ AnswerOK(q)'
    BY <1>1, <1>5, <2>2 DEF Drop, Resolve, Discard, HandlerOK, OpenOK, AnswerOK
  <2> QED
    BY <2>1, <2>2 DEF KeysOK
<1> QED
  BY <1>2, <1>3, <1>4, <1>5 DEF Handler

\* Time, the daemon's end and its start.
LEMMA DaemonKeeps == TypeOK /\ KeysOK /\ (WindowPasses \/ Crash \/ Start \/ UNCHANGED vars) => KeysOK'
<1> SUFFICES ASSUME TypeOK, KeysOK, WindowPasses \/ Crash \/ Start \/ UNCHANGED vars PROVE KeysOK'
  OBVIOUS
<1> USE KeysAssumption DEF TypeOK, Results, keyVars, sendings, effects, vars
<1>1. /\ \A x \in Keys : KeyOK(x)
      /\ \A q \in Requests : HandlerOK(q) /\ OpenOK(q) /\ AnswerOK(q)
  BY DEF KeysOK
<1>2. ASSUME NEW x \in Keys PROVE KeyOK(x)'
  BY <1>1, <1>2 DEF WindowPasses, Crash, Start, KeyOK
<1>3. ASSUME NEW q \in Requests PROVE HandlerOK(q)'
  BY <1>1, <1>3 DEF WindowPasses, Crash, Start, HandlerOK
<1>4. ASSUME NEW q \in Requests PROVE OpenOK(q)' /\ AnswerOK(q)'
  BY <1>1, <1>4 DEF WindowPasses, Crash, Start, OpenOK, AnswerOK
<1> QED
  BY <1>2, <1>3, <1>4 DEF KeysOK

\* Every step keeps what ties a key to its request.
LEMMA KeysStep == TypeOK /\ KeysOK /\ [Next]_vars => KeysOK'
BY ClaimKeeps, HandlerKeeps, DaemonKeeps DEF Next

LEMMA KeysInit == Init => KeysOK
<1> SUFFICES ASSUME Init PROVE KeysOK
  OBVIOUS
<1>1. ASSUME NEW k \in Keys PROVE KeyOK(k)
  BY <1>1 DEF Init, KeyOK, None
<1>2. ASSUME NEW r \in Requests PROVE HandlerOK(r) /\ OpenOK(r) /\ AnswerOK(r)
  BY <1>2 DEF Init, HandlerOK, OpenOK, AnswerOK, None
<1> QED
  BY <1>1, <1>2 DEF KeysOK

\* A key is in use by one handler at most (KeyHeldByOne: claim_key and the
\* deletion of expired keys in it).
THEOREM OneHandler == Spec => []KeyHeldByOne
<1>1. KeysOK => KeyHeldByOne
  BY DEF KeysOK, HandlerOK, KeyHeldByOne
<1> QED
  BY <1>1, KeysInit, KeyTypes, KeysStep, PTL DEF Spec

\* An answer under a key is about the same request, and ok means its change
\* was made (AnswersTrue: run_once and finish_key).
THEOREM TrueAnswers == Spec => []AnswersTrue
<1>1. KeysOK => AnswersTrue
  BY DEF KeysOK, AnswerOK, AnswersTrue
<1> QED
  BY <1>1, KeysInit, KeyTypes, KeysStep, PTL DEF Spec

\* No second request under a key makes its change while the first one's
\* operations are open or in the window (OneChangePerKey: run_once).
THEOREM OneChange == Spec => OneChangePerKey
<1>1. ASSUME TypeOK, KeysOK, [Next]_vars, NEW r \in made' \ made, NEW s \in made, under[r] = under[s]
      PROVE  outbox[s] \notin {"unresolved", "done"}
  <2>1. r \in Requests /\ at[r] = "claimed"
    BY <1>1 DEF Next, Claim, Handler, Queue, Change, Fail, FinishKey, ReleaseKey, Drop, Resolve, Discard,
                WindowPasses, Crash, Start, vars, effects
  <2>2. held[under[r]] = r
    BY <1>1, <2>1 DEF KeysOK, HandlerOK
  <2>3. s \in Requests /\ OpenOK(s)
    BY <1>1 DEF TypeOK, KeysOK
  <2> QED
    BY <1>1, <2>2, <2>3 DEF OpenOK
<1>2. TypeOK /\ KeysOK /\ [Next]_vars =>
        [\A r \in made' \ made, s \in made :
           under[r] = under[s] => outbox[s] \notin {"unresolved", "done"}]_vars
  BY <1>1
<1> QED
  BY <1>2, KeysInit, KeyTypes, KeysStep, PTL DEF Spec, OneChangePerKey

-----------------------------------------------------------------------------
(* A recurring task.                                                       *)

USE SeriesAssumption

\* The fields of the records.
FieldsOK ==
  /\ DOMAIN sg = {"due", "rec", "open", "etag", "split"}
  /\ DOMAIN so = {"kind", "state", "asked", "series", "landed"}
  /\ DOMAIN sw = {"pc", "cur", "rec", "body"}
  /\ DOMAIN shist = {"phone", "completed", "ours"}

\* Others cleared the recurrence or moved the date in between, or the user let it go.
LetGo == shist.phone \cap {"cleared", "moved", "discarded"} # {}

\* What the operation knows of the series.
OpOK ==
  /\ so.kind = "none" => so.state = "none"
  /\ so.kind # "date" => ~Recurs(so.series)
  /\ ~Recurs(sg.rec) /\ Recurs(so.series) => sg.due = so.asked \/ LetGo

Writing == {"first", "rec", "date", "complete"}

\* What the attempt sends fits what the operation holds.
AttemptOK ==
  sw.pc # "rest" =>
    /\ so.state = "inflight"
    /\ sw.pc = "read" => so.kind = "date"
    /\ sw.body \in {"first", "rec"} => so.kind = "date" /\ Recurs(so.series) /\ Recurs(sw.rec)
    /\ sw.body = "date" /\ Recurs(so.series) => LetGo
    /\ sw.pc = "occurrence" \/ sw.body = "complete" => so.kind = "complete"
    /\ sw.pc \notin {"read", "occurrence"} => sw.body \in Writing

SeriesInv == FieldsOK /\ OpOK /\ AttemptOK /\ SeriesRecoverable

LEMMA SeriesStarts == SeriesInit => SeriesInv
<1> SUFFICES ASSUME SeriesInit PROVE SeriesInv
  OBVIOUS
<1>1. FieldsOK
  BY DEF SeriesInit, FieldsOK, NoOp, AtRest
<1>2. Recurs(sg.rec)
  BY DEF SeriesInit, Recurs
<1>3. so = NoOp /\ sw = AtRest
  BY DEF SeriesInit
<1> QED
  BY <1>1, <1>2, <1>3 DEF SeriesInv, OpOK, AttemptOK, SeriesRecoverable, NoOp, AtRest, NoRec, Recurs

\* What an answer changes: the first PATCH is followed by the second, which has the series to set;
\* any other ends the attempt, the operation as it was but for its state.
LEMMA AnswerChanges ==
  ASSUME NEW g, SeriesAnswered(g), FieldsOK, sw.body \in Writing
  PROVE  /\ FieldsOK' \/ DOMAIN sg' # DOMAIN sg \/ DOMAIN shist' # DOMAIN shist
         /\ so'.kind = so.kind /\ so'.series = so.series /\ so'.asked = so.asked
         /\ sw.body = "first" => /\ so' = so /\ sw'.pc = "restore" /\ sw'.body = "rec"
                                 /\ sw'.rec = sw.rec
         /\ sw.body # "first" => sw'.pc = "rest"
<1> USE DEF FieldsOK
<1>1. CASE sw.body = "first"
  BY <1>1 DEF SeriesAnswered
<1>2. CASE sw.body = "rec"
  <2>1. sw' = AtRest /\ so' = [so EXCEPT !.state = "done", !.landed = SeriesLanded(g.due)]
    BY <1>2 DEF SeriesAnswered
  <2> QED
    BY <1>2, <2>1 DEF AtRest
<1>3. CASE sw.body \in {"date", "complete"}
  <2> DEFINE x == IF so.kind = "complete" /\ g.open /\ g.due <= sw.cur.due THEN "unknown" ELSE "done"
  <2>1. sw' = AtRest /\ so' = [so EXCEPT !.state = x]
    BY <1>3 DEF SeriesAnswered
  <2> HIDE DEF x
  <2> QED
    BY <1>3, <2>1 DEF AtRest
<1> QED
  BY <1>1, <1>2, <1>3 DEF Writing

\* What a PATCH does to the series in Graph: only the first of the two takes it away.
LEMMA TakenRec ==
  ASSUME GraphTakes, FieldsOK, sw.body \in Writing
  PROVE  /\ DOMAIN sg' = DOMAIN sg /\ DOMAIN shist' = DOMAIN shist /\ shist'.phone = shist.phone
         /\ sw.body \in {"date", "complete"} => sg'.rec = sg.rec
         /\ sw.body = "date" => Recurs(sg.rec) \/ sg'.due = so.asked
         /\ sw.body = "first" => sg'.due = so.asked
         /\ sw.body = "rec" => sg'.rec = sw.rec
<1> USE DEF FieldsOK, GraphTakes, Patched
<1>1. DOMAIN shist' = DOMAIN shist /\ shist'.phone = shist.phone
  OBVIOUS
<1>2. CASE sw.body = "date"
  BY <1>1, <1>2
<1>3. CASE sw.body = "first"
  BY <1>1, <1>3
<1>4. CASE sw.body = "rec"
  BY <1>1, <1>4
<1>5. CASE sw.body = "complete"
  BY <1>1, <1>5
<1> QED
  BY <1>2, <1>3, <1>4, <1>5 DEF Writing

LEMMA SeriesKept == SeriesInv /\ [SeriesNext]_seriesVars => SeriesInv'
<1> SUFFICES ASSUME SeriesInv, [SeriesNext]_seriesVars PROVE SeriesInv'
  OBVIOUS
<1>a. FieldsOK
  BY DEF SeriesInv
<1>b. sw.pc \in {"patch", "again", "restore", "restoreAgain"} => sw.body \in Writing /\ so.state = "inflight"
  BY DEF SeriesInv, AttemptOK
<1>r. AtRest.pc = "rest" /\ NoOp.kind = "none" /\ NoOp.state = "none" /\ ~Recurs(NoOp.series)
  BY DEF AtRest, NoOp, NoRec, Recurs
<1>s. so.state # "inflight" => sw.pc = "rest"
  BY DEF SeriesInv, AttemptOK
<1>k. so.state # "none" => so.kind # "none"
  BY DEF SeriesInv, OpOK
<1> USE DEF SeriesInv, OpOK, SeriesRecoverable, LetGo
\* The attempt ends without being done, and nothing else changes.
<1>e. ASSUME NEW x, x # "done", so.kind # "none", so' = [so EXCEPT !.state = x], sw' = AtRest, UNCHANGED <<sg, shist>>
      PROVE  SeriesInv'
  <2>1. so'.kind = so.kind /\ so'.series = so.series /\ so'.asked = so.asked /\ so'.state = x
    BY <1>a, <1>e DEF FieldsOK
  <2>2. FieldsOK'
    BY <1>a, <1>e DEF FieldsOK, AtRest
  <2> QED
    BY <1>e, <1>r, <2>1, <2>2 DEF AttemptOK
\* An answer, after Graph took the PATCH or when it is as asked already.
<1>n. ASSUME NEW g, SeriesAnswered(g), sw.body \in Writing, sw.pc # "rest", shist'.phone = shist.phone,
             DOMAIN sg' = DOMAIN sg, DOMAIN shist' = DOMAIN shist,
             sw.body \in {"date", "complete"} => sg'.rec = sg.rec,
             sw.body = "date" => Recurs(sg.rec) \/ sg'.due = so.asked,
             sw.body = "complete" => ~Recurs(so.series),
             sw.body = "first" => sg'.due = so.asked,
             sw.body = "rec" => Recurs(sg'.rec)
      PROVE  SeriesInv'
  <2>1. /\ FieldsOK'
        /\ so'.kind = so.kind /\ so'.series = so.series /\ so'.asked = so.asked
        /\ sw.body = "first" => so' = so /\ sw'.pc = "restore" /\ sw'.body = "rec" /\ sw'.rec = sw.rec
        /\ sw.body # "first" => sw'.pc = "rest"
    BY <1>a, <1>n, AnswerChanges
  <2>2. AttemptOK'
    BY <1>n, <2>1 DEF AttemptOK, Writing
  <2>0. so.kind # "none"
    BY <1>k, <1>n DEF AttemptOK
  <2>3. OpOK'
    BY <1>n, <2>0, <2>1 DEF Writing
  <2>4. SeriesRecoverable'
    BY <1>n, <2>1 DEF AttemptOK, Writing
  <2> QED
    BY <2>1, <2>2, <2>3, <2>4
<1>1. ASSUME NEW k \in {"date", "complete"}, NEW day \in SDays, QueueDate(k, day) PROVE SeriesInv'
  <2>1. /\ so'.series = NoOp.series /\ so.kind = "none" /\ so'.kind = k /\ so'.state = "pending"
        /\ shist'.phone = shist.phone /\ UNCHANGED <<sg, sw>> /\ FieldsOK'
    BY <1>1, <1>a DEF QueueDate, FieldsOK, NoOp
  <2>3. ~Recurs(so.series) /\ ~Recurs(so'.series)
    BY <1>r, <2>1
  <2>4. AttemptOK'
    BY <1>s, <2>1 DEF AttemptOK
  <2> QED
    BY <2>1, <2>3, <2>4
<1>2. CASE Retry
  <2>1. /\ so' = [so EXCEPT !.state = "pending"] /\ UNCHANGED <<sg, sw, shist>>
        /\ so.state \in {"failed", "unknown"}
    BY <1>2 DEF Retry
  <2>2. so'.kind = so.kind /\ so'.series = so.series /\ so'.asked = so.asked /\ so'.state = "pending" /\ FieldsOK'
    BY <1>a, <2>1 DEF FieldsOK
  <2> QED
    BY <1>k, <1>s, <2>1, <2>2 DEF AttemptOK
<1>3. CASE DiscardDate
  <2>1. /\ so' = NoOp /\ UNCHANGED <<sg, sw>> /\ "discarded" \in shist'.phone /\ sw.pc = "rest" /\ FieldsOK'
    BY <1>3, <1>a, <1>s DEF DiscardDate, FieldsOK, NoOp
  <2> QED
    BY <1>r, <2>1 DEF AttemptOK
<1>4. CASE Send
  <2>1. /\ so' = [so EXCEPT !.state = "inflight"] /\ UNCHANGED <<sg, shist>> /\ so.state = "pending"
    BY <1>4 DEF Send
  <2>2. so'.kind = so.kind /\ so'.series = so.series /\ so'.asked = so.asked /\ so'.state = "inflight"
    BY <1>a, <2>1 DEF FieldsOK
  <2>3. CASE so.kind = "complete" /\ sw' = [AtRest EXCEPT !.pc = "occurrence"]
    BY <1>a, <1>k, <2>1, <2>2, <2>3 DEF FieldsOK, AttemptOK, AtRest
  <2>4. CASE Applies /\ sw' = [AtRest EXCEPT !.pc = "read"]
    BY <1>a, <1>k, <2>1, <2>2, <2>4 DEF FieldsOK, AttemptOK, AtRest, Applies
  <2>5. CASE so.kind # "complete" /\ ~Applies /\ sw' = [AtRest EXCEPT !.pc = "patch", !.cur = sc, !.body = "date"]
    <3>1. ~Recurs(so.series)
      BY <2>5 DEF Applies
    <3>2. sw'.pc = "patch" /\ sw'.body = "date" /\ DOMAIN sw' = DOMAIN AtRest /\ DOMAIN AtRest = {"pc", "cur", "rec", "body"}
      BY <2>5 DEF AtRest
    <3>3. FieldsOK' /\ AttemptOK'
      BY <1>a, <2>1, <2>2, <3>1, <3>2 DEF FieldsOK, AttemptOK, Writing
    <3> QED
      BY <1>k, <2>1, <2>2, <3>1, <3>3
  <2> QED
    BY <1>4, <2>3, <2>4, <2>5 DEF Send
<1>5. CASE ReadOccurrence
  <2>1. sw.pc = "occurrence" /\ UNCHANGED <<sg, shist>> /\ so.state = "inflight" /\ so.kind = "complete"
    BY <1>5 DEF ReadOccurrence, AttemptOK
  <2>2. CASE sw' = [sw EXCEPT !.pc = "patch", !.cur = Task(sg), !.body = "complete"] /\ UNCHANGED so
    <3>1. sw'.pc = "patch" /\ sw'.body = "complete" /\ FieldsOK'
      BY <1>a, <2>1, <2>2 DEF FieldsOK
    <3> QED
      BY <2>1, <2>2, <3>1 DEF AttemptOK, Writing
  <2>3. CASE sw' = AtRest /\ so' = [so EXCEPT !.state = "failed"]
    BY <1>e, <2>1, <2>3
  <2> QED
    BY <1>5, <2>2, <2>3 DEF ReadOccurrence
<1>6. CASE ReadSeries
  <2>1. sw.pc = "read" /\ UNCHANGED <<sg, shist>> /\ so.state = "inflight" /\ so.kind = "date"
    BY <1>6 DEF ReadSeries, AttemptOK
  <2> DEFINE again == [pattern |-> sg.rec.pattern, start |-> so.asked]
  <2>2. CASE /\ Recurs(sg.rec) /\ so' = KeepSeries(so, again)
             /\ sw' = [sw EXCEPT !.pc = "patch", !.cur = sc, !.rec = again, !.body = "first"]
    <3>1. Recurs(again)
      BY <2>2 DEF Recurs
    <3> HIDE DEF again
    <3>2. /\ sw'.pc = "patch" /\ sw'.body = "first" /\ sw'.rec = again /\ so'.series = again
          /\ so'.kind = so.kind /\ so'.asked = so.asked /\ so'.state = so.state /\ FieldsOK'
      BY <1>a, <2>1, <2>2 DEF FieldsOK, KeepSeries
    <3> QED
      BY <2>1, <2>2, <3>1, <3>2 DEF AttemptOK, Writing
  <2>3. CASE /\ ~Recurs(sg.rec) /\ Recurs(so.series) /\ UNCHANGED so
             /\ sw' = [sw EXCEPT !.pc = "restore", !.cur = Task(sg), !.rec = so.series, !.body = "rec"]
    <3>1. sw'.pc = "restore" /\ sw'.body = "rec" /\ sw'.rec = so.series /\ FieldsOK'
      BY <1>a, <2>1, <2>3 DEF FieldsOK
    <3> QED
      BY <2>1, <2>3, <3>1 DEF AttemptOK, Writing
  <2>4. CASE /\ ~Recurs(sg.rec) /\ ~(Recurs(so.series) /\ sg.due = so.asked) /\ UNCHANGED so
             /\ sw' = [sw EXCEPT !.pc = "patch", !.cur = sc, !.body = "date"]
    <3>1. sw'.pc = "patch" /\ sw'.body = "date" /\ FieldsOK'
      BY <1>a, <2>1, <2>4 DEF FieldsOK
    <3> QED
      BY <2>1, <2>4, <3>1 DEF AttemptOK, Writing
  <2> QED
    BY <1>6, <2>2, <2>3, <2>4 DEF ReadSeries
<1>7. CASE Patch
  <2>1. GraphTakes /\ SeriesAnswered(sg') /\ sw.pc # "rest" /\ sw.body \in Writing
    BY <1>7, <1>b DEF Patch
  <2> QED
    BY <1>a, <1>n, <2>1, TakenRec DEF AttemptOK
<1>8. CASE PatchLost
  <2>1. GraphTakes /\ sw.pc # "rest" /\ sw.body \in Writing /\ so.state = "inflight"
    BY <1>8, <1>b DEF PatchLost
  <2>2. /\ DOMAIN sg' = DOMAIN sg /\ DOMAIN shist' = DOMAIN shist /\ shist'.phone = shist.phone
        /\ sw.body \in {"date", "complete"} => sg'.rec = sg.rec
        /\ sw.body = "date" => Recurs(sg.rec) \/ sg'.due = so.asked
        /\ sw.body = "first" => sg'.due = so.asked
        /\ sw.body = "rec" => sg'.rec = sw.rec
    BY <1>a, <2>1, TakenRec
  <2>3. CASE UNCHANGED <<so, sw>>
    BY <1>a, <2>1, <2>2, <2>3 DEF AttemptOK, Writing, FieldsOK
  <2>4. CASE so.kind = "complete" /\ so' = [so EXCEPT !.state = AmbiguousCompletion] /\ sw' = AtRest
    <3>1. so'.kind = so.kind /\ so'.series = so.series /\ so'.asked = so.asked /\ so'.state = "unknown" /\ FieldsOK'
      BY <1>a, <2>2, <2>4 DEF FieldsOK, AtRest, AmbiguousCompletion
    <3> QED
      BY <1>r, <2>1, <2>2, <2>4, <3>1 DEF AttemptOK, Writing
  <2> QED
    BY <1>8, <2>3, <2>4 DEF PatchLost
<1>9. CASE Stale
  <2>1. UNCHANGED <<sg, shist>> /\ sw.body \in Writing /\ so.state = "inflight" /\ sw.pc \in {"patch", "restore"}
    BY <1>9, <1>b DEF Stale
  <2>2. CASE so.kind = "complete" /\ sw' = AtRest /\ so' = [so EXCEPT !.state = "failed"]
    BY <1>e, <2>1, <2>2
  <2>3. CASE sw.body \in {"date", "first"} /\ Holds(sg) /\ SeriesAnswered(sg)
    BY <1>n, <2>1, <2>3 DEF Holds
  <2>4. CASE sw.body = "rec" /\ sg.rec = sw.rec /\ SeriesAnswered(sg)
    <3>1. Recurs(sg.rec)
      BY <2>1, <2>4 DEF AttemptOK
    <3> QED
      BY <1>n, <2>1, <2>4, <3>1
  <2>5. ASSUME NEW x \in {"again", "restoreAgain"}, UNCHANGED so, sw' = [sw EXCEPT !.cur = Task(sg), !.pc = x]
        PROVE  SeriesInv'
    <3>1. sw'.pc = x /\ sw'.body = sw.body /\ sw'.rec = sw.rec /\ FieldsOK'
      BY <1>a, <2>1, <2>5 DEF FieldsOK
    <3> QED
      BY <2>1, <2>5, <3>1 DEF AttemptOK
  <2> QED
    BY <1>9, <2>2, <2>3, <2>4, <2>5 DEF Stale
<1>10. CASE SeriesRefused
  BY <1>10, <1>b, <1>e, <1>k DEF SeriesRefused
<1>11. CASE Interrupted
  <2>1. so.state = "inflight"
    BY <1>11 DEF Interrupted, AttemptOK
  <2> QED
    BY <1>11, <1>e, <1>k, <2>1 DEF Interrupted, AmbiguousCompletion
<1>12. CASE SyncTask
  <2>1. UNCHANGED <<sg, so, sw>> /\ sw.pc = "rest" /\ FieldsOK'
    BY <1>12, <1>a, <1>s DEF SyncTask, FieldsOK
  <2>2. Recurs(sg.rec) \/ shist'.phone = shist.phone \ {"repeats"}
    BY <1>12, <1>a DEF SyncTask, FieldsOK
  <2> QED
    BY <2>1, <2>2 DEF AttemptOK
<1>13. CASE Prune
  <2>1. so' = NoOp /\ UNCHANGED <<sg, sw, shist>> /\ sw.pc = "rest" /\ FieldsOK'
    BY <1>13, <1>a, <1>s DEF Prune, FieldsOK, NoOp
  <2> QED
    BY <1>13, <1>r, <2>1 DEF AttemptOK, Prune
<1>14. CASE PhoneWrites
  <2>1. ASSUME NEW did, NEW g, Phone(did, g), DOMAIN g = DOMAIN sg,
               Recurs(g.rec) \/ (g.rec = sg.rec /\ g.due = sg.due) \/ did \in {"cleared", "moved"}
        PROVE  SeriesInv'
    <3>1. sg'.rec = g.rec /\ sg'.due = g.due /\ shist'.phone = shist.phone \cup {did} /\ UNCHANGED <<so, sw>> /\ FieldsOK'
      BY <1>a, <2>1 DEF Phone, FieldsOK
    <3> QED
      BY <2>1, <3>1 DEF AttemptOK
  <2>2. \A d : LET g == [sg EXCEPT !.due = d] IN DOMAIN g = DOMAIN sg /\ g.rec = sg.rec
    BY <1>a DEF FieldsOK
  <2>3. DOMAIN [sg EXCEPT !.rec = NoRec] = DOMAIN sg
    OBVIOUS
  <2>4. \A q \in Patterns : \A d :
          LET g == [sg EXCEPT !.rec = [pattern |-> q, start |-> sg.due], !.due = d]
          IN  DOMAIN g = DOMAIN sg /\ Recurs(g.rec)
    BY <1>a DEF FieldsOK, Recurs
  <2> QED
    BY <1>14, <2>1, <2>2, <2>3, <2>4 DEF PhoneWrites
<1>15. CASE UNCHANGED seriesVars
  BY <1>15 DEF seriesVars, FieldsOK, AttemptOK
<1> QED
  BY <1>1, <1>2, <1>3, <1>4, <1>5, <1>6, <1>7, <1>8, <1>9, <1>10, <1>11, <1>12, <1>13, <1>14, <1>15
     DEF SeriesNext

\* The recurrence that moving a series' date clears in Graph is never only in memory: as long as
\* it isn't set again the operation holds it, unless others took it away (series::patch).
THEOREM SeriesHeld == SeriesSpec => []SeriesRecoverable
<1>1. SeriesInv => SeriesRecoverable
  BY DEF SeriesInv
<1> QED
  BY SeriesStarts, SeriesKept, <1>1, PTL DEF SeriesSpec

-----------------------------------------------------------------------------
(* The daemon that serves.                                                 *)

\* The fields of a process.
ProcessesOK ==
  /\ DOMAIN daemons = Pids
  /\ \A p \in Pids : DOMAIN daemons[p] = {"at", "build", "code"}

\* From the lock to the exit; while the PID file is its own; while the socket is.
HasLock(p) == At(p) \notin {"unused", "begun", "dead"}
HasPidFile(p) == At(p) \notin {"unused", "begun", "dead", "locked", "cleared"}
HasSocket(p) == At(p) \in {"bound", "serving", "hung", "closing"}

\* What a daemon has is in its name, so the one that holds the lock is the only one with files.
HoldingsOK ==
  \A p \in Pids :
    /\ HasLock(p) => lock = p
    /\ HasPidFile(p) => pidFile = p
    /\ HasSocket(p) => socket = p

SessionInv == ProcessesOK /\ HoldingsOK

LEMMA SessionStarts == SessionInit => SessionInv
  BY DEF SessionInit, Unused, SessionInv, ProcessesOK, HoldingsOK, HasLock, HasPidFile, HasSocket, At

\* A step takes process p, and no other, to `to`.
Becomes(p, to) ==
  /\ DOMAIN daemons' = Pids
  /\ \A q \in Pids \ {p} : daemons'[q] = daemons[q]
  /\ p \in Pids => DOMAIN daemons'[p] = {"at", "build", "code"} /\ daemons'[p].at = to

LEMMA MoveBecomes ==
  ASSUME ProcessesOK, NEW p, NEW to, Move(p, to) PROVE Becomes(p, to)
  BY DEF ProcessesOK, Move, Becomes

LEMMA DeadBecomes ==
  ASSUME ProcessesOK, NEW p, NEW code, daemons' = Dead(p, code) PROVE Becomes(p, "dead")
  BY DEF ProcessesOK, Dead, Becomes

\* Such a step keeps the invariant if p has what its new place takes, and the others keep theirs.
LEMMA StepHolds ==
  ASSUME SessionInv, NEW p, NEW to, Becomes(p, to),
         p \in Pids => /\ to \notin {"unused", "begun", "dead"} => lock' = p
                       /\ to \notin {"unused", "begun", "dead", "locked", "cleared"} => pidFile' = p
                       /\ to \in {"bound", "serving", "hung", "closing"} => socket' = p,
         \A q \in Pids \ {p} : /\ HasLock(q) => lock' = q
                               /\ HasPidFile(q) => pidFile' = q
                               /\ HasSocket(q) => socket' = q
  PROVE  SessionInv'
<1>1. ProcessesOK'
  BY DEF SessionInv, ProcessesOK, Becomes
<1>2. ASSUME NEW q \in Pids \ {p}
      PROVE  (HasLock(q) => lock = q)' /\ (HasPidFile(q) => pidFile = q)' /\ (HasSocket(q) => socket = q)'
  BY <1>2 DEF Becomes, HasLock, HasPidFile, HasSocket, At
<1>3. ASSUME p \in Pids
      PROVE  (HasLock(p) => lock = p)' /\ (HasPidFile(p) => pidFile = p)' /\ (HasSocket(p) => socket = p)'
  BY <1>3 DEF Becomes, HasLock, HasPidFile, HasSocket, At
<1> QED
  BY <1>1, <1>2, <1>3 DEF SessionInv, HoldingsOK

\* A process that ends leaves the others theirs.
LEMMA EndHolds ==
  ASSUME SessionInv, NEW p, NEW code, daemons' = Dead(p, code), lock' = Released(p),
         \/ UNCHANGED pidFile
         \/ p \in Pids /\ HasPidFile(p)
         , UNCHANGED socket
  PROVE  SessionInv'
<1>1. Becomes(p, "dead")
  BY DeadBecomes DEF SessionInv
<1>2. ASSUME NEW q \in Pids \ {p}
      PROVE  /\ HasLock(q) => lock' = q
             /\ HasPidFile(q) => pidFile' = q
             /\ HasSocket(q) => socket' = q
  BY <1>2 DEF SessionInv, HoldingsOK, HasPidFile, HasSocket, Released
<1> QED
  BY <1>1, <1>2, StepHolds

\* One that goes on without taking anything.
LEMMA MoveHolds ==
  ASSUME SessionInv, NEW p, NEW to, Move(p, to), UNCHANGED <<lock, socket, pidFile>>,
         p \in Pids => \/ to \in {"ready"} /\ HasPidFile(p)
                       \/ to \in {"serving", "hung", "closing"} /\ HasSocket(p)
  PROVE  SessionInv'
<1>1. Becomes(p, to)
  BY MoveBecomes DEF SessionInv
<1>2. \A q \in Pids \ {p} : /\ HasLock(q) => lock' = q
                            /\ HasPidFile(q) => pidFile' = q
                            /\ HasSocket(q) => socket' = q
  BY DEF SessionInv, HoldingsOK
<1>3. p \in Pids => /\ lock' = p /\ pidFile' = p
                    /\ to # "ready" => socket' = p
  BY DEF SessionInv, HoldingsOK, HasLock, HasPidFile, HasSocket
<1> QED
  BY <1>1, <1>2, <1>3, StepHolds

LEMMA LaunchHolds ==
  ASSUME SessionInv, NEW build, Launch(build), UNCHANGED <<lock, socket, pidFile>> PROVE SessionInv'
<1> DEFINE p == FreshPid
<1>1. p \in Pids /\ At(p) = "unused"
  BY DEF Launch, FreshPid
<1>2. daemons' = [daemons EXCEPT ![p] = [Unused EXCEPT !.at = "begun", !.build = build]]
  BY DEF Launch
<1> HIDE DEF p
<1>3. Becomes(p, "begun")
  BY <1>1, <1>2 DEF SessionInv, ProcessesOK, Becomes, Unused
<1>4. \A q \in Pids \ {p} : /\ HasLock(q) => lock' = q
                            /\ HasPidFile(q) => pidFile' = q
                            /\ HasSocket(q) => socket' = q
  BY DEF SessionInv, HoldingsOK
<1> QED
  BY <1>3, <1>4, StepHolds

LEMMA IdleHolds ==
  ASSUME SessionInv, UNCHANGED <<daemons, lock, socket, pidFile>> PROVE SessionInv'
  BY DEF SessionInv, ProcessesOK, HoldingsOK, HasLock, HasPidFile, HasSocket, At

\* SIGTERM, whoever has the PID now.
LEMMA SignalHolds ==
  ASSUME SessionInv, NEW p, terminate(p), UNCHANGED <<socket, pidFile>> PROVE SessionInv'
<1>1. CASE UNCHANGED <<daemons, lock>>
  BY <1>1, IdleHolds
<1>2. CASE At(p) = "serving" /\ Move(p, "closing") /\ UNCHANGED lock
  BY <1>2, MoveHolds DEF HasSocket
<1>3. CASE daemons' = Dead(p, 9) /\ lock' = Released(p)
  BY <1>3, EndHolds
<1> QED
  BY <1>1, <1>2, <1>3 DEF terminate

LEMMA DaemonHolds ==
  ASSUME SessionInv, NEW p \in Pids, DaemonStep(p) \/ Kill(p) \/ Hang(p) \/ UsedAgain(p) PROVE SessionInv'
<1>a. HasLock(p) => lock = p
  BY DEF SessionInv, HoldingsOK
<1>b. \A q \in Pids \ {p} : HasLock(p) => ~HasLock(q) /\ ~HasPidFile(q) /\ ~HasSocket(q)
  BY DEF SessionInv, HoldingsOK, HasLock, HasPidFile, HasSocket
<1>1. CASE TakeLock(p)
  <2>1. CASE lock = Nobody /\ ~Looked
    <3>1. Becomes(p, "locked") /\ lock' = p /\ UNCHANGED <<pidFile, socket>>
      BY <1>1, <2>1, MoveBecomes DEF TakeLock, take_singleton_lock, SessionInv
    <3>2. \A q \in Pids \ {p} : ~HasLock(q) /\ ~HasPidFile(q) /\ ~HasSocket(q)
      BY <2>1, SessionAssumption DEF SessionInv, HoldingsOK, HasLock, HasPidFile, HasSocket
    <3> QED
      BY <3>1, <3>2, StepHolds
  <2>2. CASE lock # Nobody \/ Looked
    <3>1. daemons' = Dead(p, 0) /\ UNCHANGED <<lock, pidFile, socket>> /\ At(p) = "begun"
      BY <1>1, <2>2 DEF TakeLock, take_singleton_lock, Second
    <3>2. Becomes(p, "dead")
      BY <3>1, DeadBecomes DEF SessionInv
    <3> QED
      BY <3>1, <3>2, StepHolds DEF SessionInv, HoldingsOK
  <2> QED
    BY <2>1, <2>2
<1>2. CASE ClaimFiles(p)
  <2>1. Becomes(p, "building") /\ HasLock(p) /\ pidFile' = p /\ UNCHANGED lock
    BY <1>2, MoveBecomes DEF ClaimFiles, SessionInv, HasLock
  <2> QED
    BY <1>a, <1>b, <2>1, StepHolds
<1>3. CASE build_state(p)
  <2>1. HasPidFile(p) /\ UNCHANGED socket
    BY <1>3 DEF build_state, HasPidFile
  <2>2. ASSUME NEW code, daemons' = Dead(p, code), lock' = Released(p), pidFile' = Nobody PROVE SessionInv'
    BY <2>1, <2>2, EndHolds
  <2>3. CASE Move(p, "ready") /\ UNCHANGED <<lock, pidFile>>
    BY <2>1, <2>3, MoveHolds
  <2> QED
    BY <1>3, <2>2, <2>3 DEF build_state
<1>4. CASE Bind(p)
  <2>1. Becomes(p, "bound") /\ HasLock(p) /\ HasPidFile(p) /\ socket' = p /\ UNCHANGED <<lock, pidFile>>
    BY <1>4, MoveBecomes DEF Bind, SessionInv, HasLock, HasPidFile
  <2>2. pidFile = p
    BY <2>1 DEF SessionInv, HoldingsOK
  <2> QED
    BY <1>a, <1>b, <2>1, <2>2, StepHolds
<1>5. CASE Listen(p)
  BY <1>5, MoveHolds DEF Listen, HasSocket
<1>6. CASE GoDown(p)
  <2>1. CASE At(p) = "closing" /\ Move(p, "cleared") /\ UNCHANGED lock
    <3>1. Becomes(p, "cleared") /\ HasLock(p)
      BY <2>1, MoveBecomes DEF SessionInv, HasLock
    <3> QED
      BY <1>a, <1>b, <2>1, <3>1, StepHolds
  <2>2. CASE daemons' = Dead(p, 0) /\ lock' = Released(p) /\ UNCHANGED <<socket, pidFile>>
    BY <2>2, EndHolds
  <2> QED
    BY <1>6, <2>1, <2>2 DEF GoDown, Teardown
<1>7. CASE Kill(p)
  BY <1>7, EndHolds DEF Kill
<1>8. CASE Hang(p)
  BY <1>8, MoveHolds DEF Hang, HasSocket
<1>9. CASE UsedAgain(p)
  BY <1>9, IdleHolds DEF UsedAgain
<1> QED
  BY <1>1, <1>2, <1>3, <1>4, <1>5, <1>6, <1>7, <1>8, <1>9 DEF DaemonStep

LEMMA ClientHolds ==
  ASSUME SessionInv, NEW c \in Clients, Ask(c) \/ ClientStep(c) PROVE SessionInv'
<1>1. CASE Ask(c)
  BY <1>1, IdleHolds DEF Ask
<1>2. ASSUME UNCHANGED daemons \/ spawn(c), UNCHANGED <<lock, socket, pidFile>> PROVE SessionInv'
  BY <1>2, IdleHolds, LaunchHolds DEF spawn
<1>3. CASE probe(c)
  BY <1>2, <1>3 DEF probe
<1>4. CASE connect(c)
  BY <1>4, IdleHolds DEF connect
<1>5. CASE Shutdown(c)
  <2>1. CASE Ready(c) /\ Move(clients[c].pid, "closing")
    BY <1>5, <2>1, MoveHolds DEF Shutdown, Ready, HasSocket
  <2>2. CASE UNCHANGED daemons
    BY <1>5, <2>2, IdleHolds DEF Shutdown
  <2> QED
    BY <1>5, <2>1, <2>2 DEF Shutdown
<1>6. ASSUME NEW words, Onward(c, words) PROVE UNCHANGED daemons \/ spawn(c)
  BY <1>6 DEF Onward
<1>7. CASE daemon_lock_held(c)
  BY <1>2, <1>6, <1>7 DEF daemon_lock_held
<1>8. CASE stop(c)
  <2>1. CASE UNCHANGED <<daemons, lock>>
    BY <1>8, <2>1, IdleHolds DEF stop
  <2>2. CASE terminate(pidFile)
    BY <1>8, <2>2, SignalHolds DEF stop
  <2> QED
    BY <1>8, <2>1, <2>2 DEF stop
<1>9. CASE wait_until_gone(c)
  BY <1>2, <1>6, <1>9 DEF wait_until_gone
<1>10. CASE Overdue(c)
  <2>1. CASE UNCHANGED <<daemons, lock>>
    BY <1>10, <2>1, IdleHolds DEF Overdue
  <2>2. CASE terminate(clients[c].pid)
    BY <1>10, <2>2, SignalHolds DEF Overdue
  <2> QED
    BY <1>10, <2>1, <2>2 DEF Overdue
<1>11. CASE wait_until_ready(c)
  BY <1>11, IdleHolds DEF wait_until_ready
<1> QED
  BY <1>1, <1>3, <1>4, <1>5, <1>7, <1>8, <1>9, <1>10, <1>11 DEF ClientStep

LEMMA SessionKept == SessionInv /\ [SessionNext]_sessionVars => SessionInv'
<1> SUFFICES ASSUME SessionInv, [SessionNext]_sessionVars PROVE SessionInv'
  OBVIOUS
<1>1. CASE KeepAlive
  BY <1>1, LaunchHolds DEF KeepAlive
<1>2. CASE UNCHANGED sessionVars
  BY <1>2, IdleHolds DEF sessionVars
<1> QED
  BY <1>1, <1>2, DaemonHolds, ClientHolds DEF SessionNext

\* The socket, the PID file and the lock are those of the daemon that serves (server.rs serve:
\* whoever holds the lock owns both files), however daemons start, race, are killed or hang.
THEOREM ServingFound == SessionSpec => []Findable
<1>1. SessionInv => Findable
  BY DEF SessionInv, HoldingsOK, Findable, Serves, HasLock, HasPidFile, HasSocket
<1> QED
  BY SessionStarts, SessionKept, <1>1, PTL DEF SessionSpec

-----------------------------------------------------------------------------
(* A task's files: Attached.                                                *)

\* What each operation asks for: fixed once it is queued, and about what was there by then.
AskedOK(o) ==
  /\ stage[o] = "none" => /\ wants[o].verb = "none" /\ onGraph[o] = NoBytes
                          /\ keeps[o] = 0 /\ o \notin ran
  /\ stage[o] # "none" => wants[o].verb \in {"add", "delete"}
  /\ wants[o].verb = "add" =>
        /\ wants[o].att = o
        /\ IF wants[o].undoes = 0
             THEN /\ wants[o].file \in Files /\ wants[o].bytes \in Nat
                  /\ disk[wants[o].file] = 0 \/ disk[wants[o].file] >= wants[o].bytes
             ELSE /\ wants[o].undoes \in Writes
                  /\ wants[wants[o].undoes].verb = "delete"
                  /\ stage[wants[o].undoes] = "done"
                  /\ wants[o].bytes = BytesOf(wants[wants[o].undoes].att)
  /\ wants[o].verb = "delete" =>
        /\ wants[o].att \in Atts
        /\ wants[o].att \in Writes => stage[wants[o].att] # "none"

\* What an attempt holds: a read that the file's second look lets pass is of
\* the version queued, for versions only grow.
HeldOK(o) ==
  /\ stage[o] \in {"check", "read", "reread", "post"} => wants[o].verb = "add"
  /\ stage[o] \in {"look", "keep", "remove"} => wants[o].verb = "delete"
  /\ stage[o] = "reread" =>
       IF wants[o].undoes = 0
         THEN /\ read[o] \in Nat /\ read[o] >= wants[o].bytes
              /\ disk[wants[o].file] = 0 \/ disk[wants[o].file] >= read[o]
         ELSE read[o] = wants[o].bytes
  /\ stage[o] = "post" => read[o] = wants[o].bytes
  /\ stage[o] = "keep" => read[o] = BytesOf(wants[o].att)
  /\ stage[o] = "remove" => wants[o].noUndo \/ o \in swept \/ keeps[o] # 0

CopyOK(o) == keeps[o] # 0 => wants[o].verb = "delete" /\ copyOf[o] = BytesOf(wants[o].att)
RanOK(o) == o \in ran => wants[o].noUndo \/ o \in swept \/ keeps[o] # 0

GraphOK == \A a \in Atts : onGraph[a] # NoBytes => onGraph[a] = BytesOf(a)
ShownOK == \A a \in Writes : a \in shown => stage[a] # "none"

WriteOK(o) == AskedOK(o) /\ HeldOK(o) /\ CopyOK(o) /\ RanOK(o)
FilesInv == AttachedTypeOK /\ GraphOK /\ ShownOK /\ \A o \in Writes : WriteOK(o)

LEMMA FilesStart == AttachedInit => FilesInv
<1> SUFFICES ASSUME AttachedInit PROVE FilesInv
  OBVIOUS
<1> USE AttachedAssumption DEF AttachedAssumption, AttachedInit, NoBytes, Bytes, Writes, Atts
<1>1. Nothing \in FileAsked
  BY DEF Nothing, FileAsked
<1>2. AttachedTypeOK
  BY <1>1 DEF AttachedTypeOK, Stages, InFlight
<1>3. GraphOK /\ ShownOK
  <2>1. ASSUME NEW a \in Atts, onGraph[a] # NoBytes PROVE onGraph[a] = BytesOf(a)
    BY <2>1 DEF BytesOf
  <2>2. ASSUME NEW a \in Writes PROVE a \notin shown
    <3>1. a \in Nat /\ shown = Given
      BY <2>2
    <3> QED
      BY <3>1
  <2> QED
    BY <2>1, <2>2 DEF GraphOK, ShownOK
<1>4. ASSUME NEW o \in Writes PROVE WriteOK(o)
  <2>1. o \notin Given /\ o \in Atts
    <3>1. o \in Nat
      BY <1>4
    <3> QED
      BY <1>4, <3>1
  <2>2. wants[o] = Nothing /\ stage[o] = "none" /\ onGraph[o] = NoBytes /\ keeps[o] = 0 /\ o \notin ran
    BY <1>4, <2>1
  <2>3. Nothing.verb = "none"
    BY DEF Nothing
  <2>4. AskedOK(o)
    BY <2>2, <2>3 DEF AskedOK
  <2>5. HeldOK(o) /\ CopyOK(o) /\ RanOK(o)
    BY <2>2 DEF HeldOK, CopyOK, RanOK
  <2> QED
    BY <2>4, <2>5 DEF WriteOK
<1> QED
  BY <1>2, <1>3, <1>4 DEF FilesInv


Quiet == {"pending", "unknown", "done", "failed", "dropped"}

\* No operation is forgotten or done again, and no copy goes but by a sweep.
FilesOnward ==
  /\ wants' = wants /\ stage' \in [Writes -> Stages]
  /\ \A p \in Writes : /\ stage'[p] = "none" <=> stage[p] = "none"
                       /\ stage[p] = "done" => stage'[p] = "done"
  /\ \A p \in Writes : p \in swept \/ keeps[p] # 0 => p \in swept' \/ keeps'[p] # 0
  /\ \A f \in Files : disk'[f] = 0 \/ (disk'[f] \in Nat /\ disk[f] # 0 /\ disk'[f] >= disk[f])

LEMMA AskedKept ==
  ASSUME FilesInv, FilesOnward, NEW o \in Writes,
         stage[o] = "none" => onGraph'[o] = NoBytes /\ keeps'[o] = 0 /\ o \notin ran'
  PROVE  AskedOK(o)'
<1> USE AttachedAssumption DEF AttachedAssumption
<1>1. WriteOK(o) /\ wants[o] \in FileAsked /\ disk \in [Files -> Nat]
  BY DEF FilesInv, AttachedTypeOK
<1>2. AskedOK(o)
  BY <1>1 DEF WriteOK
<1>3. wants' = wants /\ (stage'[o] = "none" <=> stage[o] = "none")
  BY DEF FilesOnward
<1>4. CASE wants[o].verb = "add" /\ wants[o].undoes = 0
  <2>1. wants[o].file \in Files /\ wants[o].bytes \in Nat
        /\ (disk[wants[o].file] = 0 \/ disk[wants[o].file] >= wants[o].bytes)
    BY <1>2, <1>4 DEF AskedOK
  <2>2. disk[wants[o].file] \in Nat
    BY <1>1, <2>1
  <2>3. disk'[wants[o].file] = 0 \/ disk'[wants[o].file] >= wants[o].bytes
    <3> DEFINE f == wants[o].file
    <3>1. disk'[f] = 0 \/ (disk'[f] \in Nat /\ disk[f] # 0 /\ disk'[f] >= disk[f])
      BY <2>1 DEF FilesOnward
    <3> HIDE DEF f
    <3> QED
      BY <2>1, <2>2, <3>1 DEF f
  <2> QED
    BY <1>2, <1>3, <1>4, <2>1, <2>3 DEF AskedOK
<1>5. CASE wants[o].verb = "add" /\ wants[o].undoes # 0
  <2>1. /\ wants[o].undoes \in Writes /\ wants[wants[o].undoes].verb = "delete"
        /\ stage[wants[o].undoes] = "done" /\ wants[o].att = o
        /\ wants[o].bytes = BytesOf(wants[wants[o].undoes].att)
    BY <1>2, <1>5 DEF AskedOK
  <2>2. stage'[wants[o].undoes] = "done"
    BY <2>1 DEF FilesOnward
  <2> QED
    BY <1>2, <1>3, <1>5, <2>1, <2>2 DEF AskedOK, BytesOf
<1>6. CASE wants[o].verb = "delete"
  <2>1. wants[o].att \in Atts /\ (wants[o].att \in Writes => stage[wants[o].att] # "none")
    BY <1>2, <1>6 DEF AskedOK
  <2>2. wants[o].att \in Writes => stage'[wants[o].att] # "none"
    BY <2>1 DEF FilesOnward
  <2> QED
    BY <1>2, <1>3, <1>6, <2>1, <2>2 DEF AskedOK
<1>7. CASE wants[o].verb = "none"
  BY <1>2, <1>3, <1>7 DEF AskedOK
<1> QED
  BY <1>1, <1>4, <1>5, <1>6, <1>7 DEF FileAsked

\* An operation that no step of its own moves.
LEMMA OthersKept ==
  ASSUME FilesInv, FilesOnward, NEW p \in Writes,
         stage'[p] = stage[p] \/ stage'[p] \in Quiet, read'[p] = read[p],
         keeps'[p] # 0 => keeps[p] # 0 /\ copyOf'[p] = copyOf[p],
         onGraph'[p] \in {onGraph[p], NoBytes}, p \in ran' => p \in ran
  PROVE  WriteOK(p)'
<1> USE AttachedAssumption DEF AttachedAssumption
<1>1. WriteOK(p) /\ wants' = wants /\ disk \in [Files -> Nat]
  BY DEF FilesInv, AttachedTypeOK, FilesOnward
<1>2. AskedOK(p)'
  <2>1. stage[p] = "none" => onGraph'[p] = NoBytes /\ keeps'[p] = 0 /\ p \notin ran'
    BY <1>1 DEF WriteOK, AskedOK
  <2> QED
    BY <2>1, AskedKept
<1>3. CopyOK(p)'
  BY <1>1 DEF WriteOK, CopyOK, BytesOf
<1>4. RanOK(p)'
  BY <1>1 DEF WriteOK, RanOK, FilesOnward
<1>5. HeldOK(p)'
  <2>1. CASE stage'[p] \in Quiet
    BY <2>1 DEF HeldOK, Quiet
  <2>2. CASE stage'[p] = stage[p]
    <3>1. /\ stage[p] \in {"check", "read", "reread", "post"} => wants[p].verb = "add"
          /\ stage[p] \in {"look", "keep", "remove"} => wants[p].verb = "delete"
          /\ stage[p] = "post" => read[p] = wants[p].bytes
          /\ stage[p] = "keep" => read[p] = BytesOf(wants[p].att)
      BY <1>1 DEF WriteOK, HeldOK
    <3>2. stage[p] = "remove" => wants[p].noUndo \/ p \in swept' \/ keeps'[p] # 0
      BY <1>1 DEF WriteOK, HeldOK, FilesOnward
    <3>3. ASSUME stage[p] = "reread"
          PROVE  IF wants[p].undoes = 0
                   THEN /\ read[p] \in Nat /\ read[p] >= wants[p].bytes
                        /\ disk'[wants[p].file] = 0 \/ disk'[wants[p].file] >= read[p]
                   ELSE read[p] = wants[p].bytes
      <4>1. CASE wants[p].undoes # 0
        BY <1>1, <3>3, <4>1 DEF WriteOK, HeldOK
      <4>2. CASE wants[p].undoes = 0
        <5> DEFINE f == wants[p].file
        <5>1. f \in Files
          BY <1>1, <3>1, <3>3, <4>2 DEF WriteOK, AskedOK
        <5>2. read[p] \in Nat /\ read[p] >= wants[p].bytes /\ (disk[f] = 0 \/ disk[f] >= read[p])
          BY <1>1, <3>3, <4>2 DEF WriteOK, HeldOK
        <5>3. disk[f] \in Nat
          BY <1>1, <5>1
        <5>4. disk'[f] = 0 \/ (disk'[f] \in Nat /\ disk[f] # 0 /\ disk'[f] >= disk[f])
          BY <5>1 DEF FilesOnward
        <5> HIDE DEF f
        <5>5. disk'[f] = 0 \/ disk'[f] >= read[p]
          BY <5>2, <5>3, <5>4
        <5> QED
          BY <4>2, <5>2, <5>5 DEF f
      <4> QED
        BY <4>1, <4>2
    <3> QED
      BY <1>1, <2>2, <3>1, <3>2, <3>3 DEF HeldOK, BytesOf
  <2> QED
    BY <2>1, <2>2
<1> QED
  BY <1>2, <1>3, <1>4, <1>5 DEF WriteOK

\* What the cached task may come to show.
LEMMA ShownKept ==
  ASSUME FilesInv, FilesOnward,
         \A a \in shown' : \/ a \in shown \/ (a \in Atts /\ onGraph[a] # NoBytes)
                           \/ \E p \in Writes : wants[p].verb # "none" /\ a = wants[p].att
  PROVE  ShownOK' /\ shown' \subseteq Atts
<1> USE AttachedAssumption DEF AttachedAssumption
<1>1. ASSUME NEW p \in Writes, wants[p].verb # "none"
      PROVE  wants[p].att \in Atts /\ (wants[p].att \in Writes => stage[wants[p].att] # "none")
  <2>1. AskedOK(p) /\ wants[p] \in FileAsked
    BY <1>1 DEF FilesInv, WriteOK, AttachedTypeOK
  <2>2. CASE wants[p].verb = "add"
    BY <2>1, <2>2 DEF AskedOK, Atts
  <2>3. CASE wants[p].verb = "delete"
    BY <2>1, <2>3 DEF AskedOK
  <2> QED
    BY <1>1, <2>1, <2>2, <2>3 DEF FileAsked
<1>2. \A a \in Writes : stage[a] = "none" => onGraph[a] = NoBytes
  BY DEF FilesInv, WriteOK, AskedOK
<1>3. \A a \in Writes : a \in shown => stage[a] # "none"
  BY DEF FilesInv, ShownOK
<1>4. shown \subseteq Atts
  BY DEF FilesInv, AttachedTypeOK
<1>5. ASSUME NEW a \in shown' PROVE a \in Atts /\ (a \in Writes => stage[a] # "none")
  BY <1>1, <1>2, <1>3, <1>4, <1>5
<1> QED
  BY <1>5 DEF ShownOK, FilesOnward

\* An operation of the queue goes on, or fails with those that wait on it.
Moved(o) == (\E x \in Stages \ {"none"} : Reaches(o, x)) \/ Fails(o)

LEMMA TakenBackShows ==
  ASSUME NEW ps \in SUBSET Writes
  PROVE  \A a \in TakenBack(ps) : a \in shown \/ \E p \in Writes : wants[p].verb # "none" /\ a = wants[p].att
BY DEF TakenBack

LEMMA MovedOn ==
  ASSUME FilesInv, NEW o \in Writes, stage[o] \notin {"none", "done"}, Moved(o)
  PROVE  /\ stage' \in [Writes -> Stages]
         /\ \A p \in Writes : /\ stage'[p] = "none" <=> stage[p] = "none"
                              /\ stage[p] = "done" => stage'[p] = "done"
         /\ \A p \in Writes \ {o} : stage'[p] = stage[p] \/ stage'[p] \in Quiet
         /\ \A a \in shown' : a \in shown \/ \E p \in Writes : wants[p].verb # "none" /\ a = wants[p].att
<1>1. stage \in [Writes -> Stages]
  BY DEF FilesInv, AttachedTypeOK
<1>2. CASE \E x \in Stages \ {"none"} : Reaches(o, x)
  BY <1>1, <1>2 DEF Reaches
<1>3. CASE Fails(o)
  <2>1. \A p \in Waiting(o) : p \in Writes /\ stage[p] = "pending"
    BY DEF Waiting
  <2>2. stage' = [p \in Writes |-> IF p = o \/ p \in Waiting(o) THEN "failed" ELSE stage[p]]
    BY <1>3 DEF Fails
  <2>3. \A a \in shown' : a \in shown \/ \E p \in Writes : wants[p].verb # "none" /\ a = wants[p].att
    <3>1. {o} \cup Waiting(o) \in SUBSET Writes
      BY <2>1
    <3> QED
      BY <1>3, <3>1, TakenBackShows DEF Fails
  <2> QED
    BY <1>1, <2>1, <2>2, <2>3 DEF Stages, InFlight, Quiet
<1> QED
  BY <1>2, <1>3 DEF Moved

LEMMA AddSent ==
  ASSUME FilesInv, NEW o \in Writes, ClaimFile(o) \/ CheckSource(o) \/ ReadSource(o) \/ PostFile(o)
  PROVE  FilesInv'
<1> USE AttachedAssumption DEF AttachedAssumption
<1>1. /\ AttachedTypeOK /\ GraphOK /\ WriteOK(o) /\ AskedOK(o) /\ HeldOK(o)
      /\ wants[o] \in FileAsked /\ o \in Atts /\ 0 \notin Given
  BY DEF FilesInv, WriteOK, AttachedTypeOK, Atts
<1>2. stage[o] \in {"pending", "check", "read", "reread", "post"} /\ Moved(o)
  BY DEF ClaimFile, CheckSource, ReadSource, PostFile, Moved, Stages, InFlight, Reaches, Again, Attaches
<1>3. /\ stage' \in [Writes -> Stages]
      /\ \A p \in Writes : /\ stage'[p] = "none" <=> stage[p] = "none"
                           /\ stage[p] = "done" => stage'[p] = "done"
      /\ \A p \in Writes \ {o} : stage'[p] = stage[p] \/ stage'[p] \in Quiet
      /\ \A a \in shown' : a \in shown \/ \E p \in Writes : wants[p].verb # "none" /\ a = wants[p].att
  BY <1>2, MovedOn
<1>4. UNCHANGED <<disk, wants, copies, ran, undone>>
  BY DEF ClaimFile, CheckSource, ReadSource, PostFile
<1>5. FilesOnward
  BY <1>1, <1>3, <1>4 DEF FilesOnward, AttachedTypeOK, copies
<1>6. ShownOK' /\ shown' \subseteq Atts
  BY <1>3, <1>5, ShownKept
<1>7. ASSUME stage[o] = "read", BytesThere(o) # NoBytes
      PROVE  /\ BytesThere(o) \in Bytes
             /\ IF wants[o].undoes = 0
                  THEN /\ BytesThere(o) \in Nat /\ BytesThere(o) >= wants[o].bytes
                       /\ disk[wants[o].file] = BytesThere(o)
                  ELSE BytesThere(o) = wants[o].bytes
  <2>1. wants[o].verb = "add"
    BY <1>1, <1>7 DEF HeldOK
  <2>2. CASE wants[o].undoes = 0
    <3>1. BytesThere(o) = disk[wants[o].file] /\ wants[o].file \in Files
      BY <1>1, <2>1, <2>2 DEF BytesThere, AskedOK
    <3>2. disk[wants[o].file] \in Nat
      BY <1>1, <3>1 DEF AttachedTypeOK
    <3> QED
      BY <1>1, <1>7, <2>1, <2>2, <3>1, <3>2 DEF AskedOK, NoBytes, Bytes
  <2>3. CASE wants[o].undoes # 0
    <3> DEFINE d == wants[o].undoes
    <3>1. d \in Writes /\ wants[o].bytes = BytesOf(wants[d].att)
      BY <1>1, <2>1, <2>3 DEF AskedOK
    <3>2. keeps[d] # 0 /\ BytesThere(o) = copyOf[d]
      BY <1>7, <2>3 DEF BytesThere
    <3>3. copyOf[d] = BytesOf(wants[d].att)
      BY <3>1, <3>2 DEF FilesInv, WriteOK, CopyOK
    <3>4. copyOf[d] \in Bytes
      BY <1>1, <3>1 DEF AttachedTypeOK
    <3> QED
      BY <2>3, <3>1, <3>2, <3>3, <3>4
  <2> QED
    BY <2>2, <2>3
<1>8. ASSUME stage[o] = "reread", Unchanged(o) PROVE read[o] = wants[o].bytes
  <2>1. wants[o].verb = "add"
    BY <1>1, <1>8 DEF HeldOK
  <2>2. CASE wants[o].undoes = 0
    <3>1. disk[wants[o].file] = wants[o].bytes /\ disk[wants[o].file] # 0
      BY <1>8, <2>2 DEF Unchanged, BytesThere, NoBytes
    <3>2. wants[o].bytes \in Nat
      BY <1>1, <2>1, <2>2 DEF AskedOK
    <3>3. read[o] \in Nat /\ read[o] >= wants[o].bytes /\ disk[wants[o].file] >= read[o]
      BY <1>1, <1>8, <2>2, <3>1 DEF HeldOK
    <3> QED
      BY <3>1, <3>2, <3>3
  <2>3. CASE wants[o].undoes # 0
    BY <1>1, <1>8, <2>3 DEF HeldOK
  <2> QED
    BY <2>2, <2>3
<1>9. read' \in [Writes -> Bytes] /\ \A p \in Writes \ {o} : read'[p] = read[p]
  <2>1. CASE UNCHANGED read
    BY <1>1, <2>1 DEF AttachedTypeOK
  <2>2. CASE ReadSource(o) /\ BytesThere(o) # NoBytes
    BY <1>1, <1>7, <2>2 DEF ReadSource, AttachedTypeOK
  <2> QED
    BY <2>1, <2>2 DEF ClaimFile, CheckSource, ReadSource, PostFile
<1>10. \/ UNCHANGED onGraph
       \/ stage[o] = "post" /\ onGraph' = [onGraph EXCEPT ![o] = wants[o].bytes]
  BY <1>1 DEF ClaimFile, CheckSource, ReadSource, PostFile, Attaches, HeldOK
<1>11. onGraph' \in [Atts -> Bytes] /\ \A a \in Atts \ {o} : onGraph'[a] = onGraph[a]
  BY <1>1, <1>10 DEF AttachedTypeOK, FileAsked
<1>12. GraphOK'
  <2>1. ASSUME NEW a \in Atts, onGraph'[a] # NoBytes PROVE onGraph'[a] = BytesOf(a)'
    <3>1. CASE onGraph'[a] = onGraph[a]
      BY <1>1, <1>4, <2>1, <3>1 DEF GraphOK, BytesOf
    <3>2. CASE a = o /\ onGraph'[a] = wants[o].bytes
      BY <1>4, <3>2, AttachedAssumption DEF BytesOf, Writes, AttachedAssumption
    <3> QED
      BY <1>1, <1>10, <1>11, <2>1, <3>1, <3>2 DEF AttachedTypeOK
  <2> QED
    BY <2>1 DEF GraphOK
<1>13. AskedOK(o)'
  <2>1. stage[o] # "none"
    BY <1>2
  <2> QED
    BY <1>5, <2>1, AskedKept
<1>14. HeldOK(o)'
  <2>1. CASE ClaimFile(o)
    <3>1. /\ wants[o].verb \in {"add", "delete"}
          /\ stage'[o] = IF wants[o].verb = "add" THEN "check" ELSE "look"
      BY <1>1, <1>2, <2>1 DEF ClaimFile, Reaches, AttachedTypeOK, AskedOK
    <3> QED
      BY <1>4, <3>1 DEF HeldOK
  <2>2. CASE CheckSource(o)
    <3>1. \/ stage[o] = "check" /\ stage'[o] = "read"
          \/ stage[o] = "reread" /\ Unchanged(o) /\ stage'[o] = "post"
          \/ stage'[o] = "failed"
      BY <1>1, <2>2 DEF CheckSource, Reaches, Fails, AttachedTypeOK
    <3>2. UNCHANGED read
      BY <2>2 DEF CheckSource
    <3> QED
      BY <1>1, <1>4, <1>8, <3>1, <3>2 DEF HeldOK
  <2>3. CASE ReadSource(o)
    <3>1. CASE stage'[o] = "failed"
      BY <3>1 DEF HeldOK
    <3>2. CASE stage'[o] = "reread" /\ read'[o] = BytesThere(o) /\ BytesThere(o) # NoBytes
      <4>1. wants[o].verb = "add" /\ stage[o] = "read"
        BY <1>1, <2>3 DEF HeldOK, ReadSource
      <4>2. IF wants[o].undoes = 0
              THEN /\ read'[o] \in Nat /\ read'[o] >= wants[o].bytes
                   /\ disk[wants[o].file] >= read'[o]
              ELSE read'[o] = wants[o].bytes
        BY <1>7, <3>2, <4>1
      <4> QED
        BY <1>4, <3>2, <4>1, <4>2 DEF HeldOK
    <3>3. stage'[o] = "failed" \/ (stage'[o] = "reread" /\ read'[o] = BytesThere(o) /\ BytesThere(o) # NoBytes)
      BY <1>1, <2>3 DEF ReadSource, Reaches, Fails, AttachedTypeOK
    <3> QED
      BY <3>1, <3>2, <3>3
  <2>4. CASE PostFile(o)
    <3>1. stage'[o] \in Quiet
      BY <1>1, <2>4 DEF PostFile, Reaches, Again, Fails, AttachedTypeOK, Quiet
    <3> QED
      BY <3>1 DEF HeldOK, Quiet
  <2> QED
    BY <2>1, <2>2, <2>3, <2>4
<1>15. CopyOK(o)' /\ RanOK(o)'
  BY <1>1, <1>4 DEF WriteOK, CopyOK, RanOK, BytesOf, copies
<1>16. ASSUME NEW p \in Writes PROVE WriteOK(p)'
  <2>1. CASE p = o
    BY <1>13, <1>14, <1>15, <2>1 DEF WriteOK
  <2>2. CASE p # o
    <3>1. /\ stage'[p] = stage[p] \/ stage'[p] \in Quiet
          /\ read'[p] = read[p] /\ onGraph'[p] \in {onGraph[p], NoBytes}
          /\ keeps'[p] # 0 => keeps[p] # 0 /\ copyOf'[p] = copyOf[p]
          /\ p \in ran' => p \in ran
      BY <1>3, <1>4, <1>9, <1>11, <2>2 DEF copies, Atts
    <3> QED
      BY <1>5, <3>1, OthersKept
  <2> QED
    BY <2>1, <2>2
<1>17. AttachedTypeOK'
  <2>1. troubles' \in 0 .. MaxTroubles
    BY <1>1 DEF ClaimFile, CheckSource, ReadSource, PostFile, Trouble, Smooth, AttachedTypeOK
  <2> QED
    BY <1>1, <1>3, <1>4, <1>6, <1>9, <1>11, <2>1 DEF AttachedTypeOK, copies
<1> QED
  BY <1>6, <1>12, <1>16, <1>17 DEF FilesInv

\* A sweep takes copies and notes which.
LEMMA Swept ==
  ASSUME NEW rank \in [Writes -> Nat], SweepCopies(rank)
  PROVE  /\ keeps' \in [Writes -> Nat] /\ swept' \subseteq Writes /\ old' = {}
         /\ \A p \in Writes : /\ p \in swept \/ rank[p] # 0 => p \in swept' \/ keeps'[p] # 0
                              /\ keeps'[p] # 0 => rank[p] # 0
<1>1. /\ keeps' = [p \in Writes |-> IF Survives(rank, p) THEN rank[p] ELSE 0]
      /\ swept' = {p \in Writes : (p \in swept \/ rank[p] # 0) /\ ~Survives(rank, p)}
      /\ old' = {}
  BY DEF SweepCopies
<1>2. \A p \in Writes : Survives(rank, p) => rank[p] # 0
  BY DEF Survives
<1> QED
  BY <1>1, <1>2

LEMMA CopyKept ==
  ASSUME FilesInv, NEW o \in Writes, KeepBytes(o)
  PROVE  /\ keeps' \in [Writes -> Nat] /\ swept' \subseteq Writes /\ old' = {}
         /\ copyOf' \in [Writes -> Bytes] /\ copyOf'[o] = read[o]
         /\ o \in swept' \/ keeps'[o] # 0
         /\ \A p \in Writes : p \in swept \/ keeps[p] # 0 => p \in swept' \/ keeps'[p] # 0
         /\ \A p \in Writes \ {o} : keeps'[p] # 0 => keeps[p] # 0 /\ copyOf'[p] = copyOf[p]
<1> DEFINE rank == [p \in Writes |-> IF p = o THEN 1 ELSE IF keeps[p] = 0 THEN 0 ELSE keeps[p] + 1]
<1>1. keeps \in [Writes -> Nat] /\ copyOf \in [Writes -> Bytes] /\ read \in [Writes -> Bytes]
  BY DEF FilesInv, AttachedTypeOK
<1>2. rank \in [Writes -> Nat] /\ rank[o] # 0 /\ SweepCopies(rank)
  BY <1>1 DEF KeepBytes
<1>3. \A p \in Writes : /\ keeps[p] # 0 => rank[p] # 0
                        /\ p # o /\ rank[p] # 0 => keeps[p] # 0
  BY <1>1
<1>4. copyOf' = [copyOf EXCEPT ![o] = read[o]]
  BY DEF KeepBytes
<1> HIDE DEF rank
<1>5. /\ keeps' \in [Writes -> Nat] /\ swept' \subseteq Writes /\ old' = {}
      /\ \A p \in Writes : /\ p \in swept \/ rank[p] # 0 => p \in swept' \/ keeps'[p] # 0
                           /\ keeps'[p] # 0 => rank[p] # 0
  BY <1>2, Swept
<1> QED
  BY <1>1, <1>2, <1>3, <1>4, <1>5

LEMMA DeleteSent ==
  ASSUME FilesInv, NEW o \in Writes, LookAtKept(o) \/ KeepCopy(o) \/ RemoveAttachment(o)
  PROVE  FilesInv'
<1> USE AttachedAssumption DEF AttachedAssumption
<1>1. /\ AttachedTypeOK /\ GraphOK /\ WriteOK(o) /\ AskedOK(o) /\ HeldOK(o)
      /\ wants[o] \in FileAsked /\ o \in Atts
  BY DEF FilesInv, WriteOK, AttachedTypeOK, Atts
<1>2. stage[o] \in {"look", "keep", "remove"} /\ Moved(o)
  BY DEF LookAtKept, KeepCopy, RemoveAttachment, Moved, Stages, InFlight, Reaches, Again
<1>3. /\ stage' \in [Writes -> Stages]
      /\ \A p \in Writes : /\ stage'[p] = "none" <=> stage[p] = "none"
                           /\ stage[p] = "done" => stage'[p] = "done"
      /\ \A p \in Writes \ {o} : stage'[p] = stage[p] \/ stage'[p] \in Quiet
      /\ \A a \in shown' : a \in shown \/ \E p \in Writes : wants[p].verb # "none" /\ a = wants[p].att
  BY <1>2, MovedOn
<1>4. UNCHANGED <<disk, wants, undone>>
  BY DEF LookAtKept, KeepCopy, RemoveAttachment
<1>5. wants[o].verb = "delete" /\ wants[o].att \in Atts
  BY <1>1, <1>2 DEF HeldOK, AskedOK
<1>6. UNCHANGED copies \/ (KeepCopy(o) /\ KeepBytes(o))
  BY DEF LookAtKept, KeepCopy, RemoveAttachment
<1>7. /\ keeps' \in [Writes -> Nat] /\ swept' \subseteq Writes /\ old' \subseteq Writes
      /\ copyOf' \in [Writes -> Bytes]
      /\ \A p \in Writes : p \in swept \/ keeps[p] # 0 => p \in swept' \/ keeps'[p] # 0
      /\ \A p \in Writes \ {o} : keeps'[p] # 0 => keeps[p] # 0 /\ copyOf'[p] = copyOf[p]
  <2>1. CASE UNCHANGED copies
    BY <1>1, <2>1 DEF AttachedTypeOK, copies
  <2>2. CASE KeepBytes(o)
    BY <2>2, CopyKept
  <2> QED
    BY <1>6, <2>1, <2>2
<1>8. FilesOnward
  BY <1>1, <1>3, <1>4, <1>7 DEF FilesOnward, AttachedTypeOK
<1>9. ShownOK' /\ shown' \subseteq Atts
  BY <1>3, <1>8, ShownKept
<1>10. read' = read \/ (LookAtKept(o) /\ onGraph[wants[o].att] # NoBytes
                        /\ read' = [read EXCEPT ![o] = onGraph[wants[o].att]])
  BY DEF LookAtKept, KeepCopy, RemoveAttachment
<1>11. read' \in [Writes -> Bytes] /\ \A p \in Writes \ {o} : read'[p] = read[p]
  BY <1>1, <1>5, <1>10 DEF AttachedTypeOK
<1>12. onGraph' = onGraph \/ onGraph' = [onGraph EXCEPT ![wants[o].att] = NoBytes]
  BY DEF LookAtKept, KeepCopy, RemoveAttachment, Removes
<1>13. onGraph' \in [Atts -> Bytes] /\ \A a \in Atts : onGraph'[a] \in {onGraph[a], NoBytes}
  BY <1>1, <1>12 DEF AttachedTypeOK, Bytes, NoBytes
<1>14. GraphOK'
  BY <1>1, <1>4, <1>13 DEF GraphOK, BytesOf
<1>15. ran' = ran \/ (RemoveAttachment(o) /\ ran' = ran \cup {o})
  BY DEF LookAtKept, KeepCopy, RemoveAttachment, Removes
<1>16. AskedOK(o)'
  <2>1. stage[o] # "none"
    BY <1>2
  <2> QED
    BY <1>8, <2>1, AskedKept
<1>17. HeldOK(o)'
  <2>1. CASE stage'[o] \in Quiet
    BY <2>1 DEF HeldOK, Quiet
  <2>2. CASE stage'[o] = "keep"
    <3>1. LookAtKept(o) /\ onGraph[wants[o].att] # NoBytes /\ read' = [read EXCEPT ![o] = onGraph[wants[o].att]]
      BY <1>1, <2>2 DEF LookAtKept, KeepCopy, RemoveAttachment, Reaches, Again, Fails, AttachedTypeOK
    <3>2. read'[o] = BytesOf(wants[o].att)
      BY <1>1, <1>5, <3>1 DEF AttachedTypeOK, GraphOK
    <3> QED
      BY <1>4, <1>5, <2>2, <3>2 DEF HeldOK, BytesOf
  <2>3. CASE stage'[o] = "remove"
    <3>1. \/ LookAtKept(o) /\ (wants[o].noUndo \/ keeps[o] # 0)
          \/ KeepCopy(o) /\ KeepBytes(o)
      <4>1. ~Fails(o) /\ ~Again(o) /\ ~Reaches(o, "done") /\ ~Reaches(o, "keep")
        BY <1>1, <2>3 DEF Reaches, Again, Fails, AttachedTypeOK
      <4>2. CASE LookAtKept(o)
        BY <4>1, <4>2 DEF LookAtKept
      <4>3. CASE KeepCopy(o)
        BY <4>1, <4>3 DEF KeepCopy
      <4>4. CASE RemoveAttachment(o)
        BY <4>1, <4>4 DEF RemoveAttachment
      <4> QED
        BY <4>2, <4>3, <4>4
    <3>2. wants[o].noUndo \/ o \in swept' \/ keeps'[o] # 0
      <4>1. CASE LookAtKept(o) /\ (wants[o].noUndo \/ keeps[o] # 0)
        BY <4>1 DEF LookAtKept, copies
      <4>2. CASE KeepBytes(o)
        BY <4>2, CopyKept
      <4> QED
        BY <3>1, <4>1, <4>2
    <3> QED
      BY <1>4, <1>5, <2>3, <3>2 DEF HeldOK
  <2>4. stage'[o] \in Quiet \cup {"keep", "remove"}
    BY <1>1 DEF LookAtKept, KeepCopy, RemoveAttachment, Reaches, Again, Fails, AttachedTypeOK, Quiet
  <2> QED
    BY <2>1, <2>2, <2>3, <2>4
<1>18. CopyOK(o)'
  <2>1. CASE UNCHANGED copies
    BY <1>1, <1>4, <2>1 DEF WriteOK, CopyOK, BytesOf, copies
  <2>2. CASE KeepCopy(o) /\ KeepBytes(o)
    <3>1. copyOf'[o] = read[o]
      BY <2>2, CopyKept
    <3>2. read[o] = BytesOf(wants[o].att)
      BY <1>1, <2>2 DEF HeldOK, KeepCopy
    <3> QED
      BY <1>4, <1>5, <3>1, <3>2 DEF CopyOK, BytesOf
  <2> QED
    BY <1>6, <2>1, <2>2
<1>19. RanOK(o)'
  <2>1. CASE o \in ran
    BY <1>1, <1>4, <1>7, <2>1 DEF WriteOK, RanOK
  <2>2. CASE RemoveAttachment(o)
    <3>1. wants[o].noUndo \/ o \in swept \/ keeps[o] # 0
      BY <1>1, <2>2 DEF HeldOK, RemoveAttachment
    <3> QED
      BY <1>4, <1>7, <3>1 DEF RanOK
  <2>3. CASE o \notin ran'
    BY <2>3 DEF RanOK
  <2> QED
    BY <1>15, <2>1, <2>2, <2>3
<1>20. ASSUME NEW p \in Writes PROVE WriteOK(p)'
  <2>1. CASE p = o
    BY <1>16, <1>17, <1>18, <1>19, <2>1 DEF WriteOK
  <2>2. CASE p # o
    <3>1. /\ stage'[p] = stage[p] \/ stage'[p] \in Quiet
          /\ read'[p] = read[p] /\ onGraph'[p] \in {onGraph[p], NoBytes}
          /\ keeps'[p] # 0 => keeps[p] # 0 /\ copyOf'[p] = copyOf[p]
          /\ p \in ran' => p \in ran
      BY <1>3, <1>7, <1>11, <1>13, <1>15, <2>2 DEF Atts
    <3> QED
      BY <1>8, <3>1, OthersKept
  <2> QED
    BY <2>1, <2>2
<1>21. AttachedTypeOK'
  <2>1. troubles' \in 0 .. MaxTroubles
    BY <1>1 DEF LookAtKept, KeepCopy, RemoveAttachment, Trouble, Smooth, AttachedTypeOK
  <2> QED
    BY <1>1, <1>3, <1>4, <1>7, <1>9, <1>11, <1>13, <1>15, <2>1 DEF AttachedTypeOK
<1> QED
  BY <1>9, <1>14, <1>20, <1>21 DEF FilesInv

\* What a new operation may ask for.
Fits(o, e) ==
  /\ e \in FileAsked
  /\ e.verb = "add" =>
       /\ e.att = o
       /\ IF e.undoes = 0
            THEN e.file \in Files /\ e.bytes \in Nat /\ (disk[e.file] = 0 \/ disk[e.file] >= e.bytes)
            ELSE /\ e.undoes \in Writes /\ wants[e.undoes].verb = "delete"
                 /\ stage[e.undoes] = "done" /\ e.bytes = BytesOf(wants[e.undoes].att)
  /\ e.verb = "delete" => e.att \in Atts /\ (e.att \in Writes => stage[e.att] # "none")
  /\ e.verb # "none"

LEMMA Enqueued ==
  ASSUME FilesInv, NEW o \in Writes, NEW e, Fits(o, e), stage[o] = "none",
         wants' = [wants EXCEPT ![o] = e], stage' = [stage EXCEPT ![o] = "pending"],
         shown' = IF e.verb = "add" THEN shown \cup {e.att} ELSE shown \ {e.att},
         UNCHANGED <<disk, read, onGraph, copies, ran, troubles>>, undone' \subseteq Writes
  PROVE  FilesInv'
<1> USE AttachedAssumption DEF AttachedAssumption
<1>1. AttachedTypeOK /\ GraphOK /\ ShownOK /\ \A p \in Writes : WriteOK(p)
  BY DEF FilesInv
<1>2. o \in Atts /\ o \notin Given
  BY DEF Atts, Writes
<1>3. wants'[o] = e /\ stage'[o] = "pending" /\ \A p \in Writes \ {o} : wants'[p] = wants[p] /\ stage'[p] = stage[p]
  BY <1>1 DEF AttachedTypeOK
<1>4. onGraph[o] = NoBytes /\ keeps[o] = 0 /\ o \notin ran
  BY <1>1 DEF WriteOK, AskedOK
<1>5. \A a \in Atts \ {o} : BytesOf(a)' = BytesOf(a)
  BY <1>3 DEF BytesOf, Atts
<1>11. ASSUME NEW d \in Writes, d # o, wants[d].verb = "delete"
       PROVE  /\ wants'[d] = wants[d] /\ wants[d].att \in Atts /\ wants[d].att # o
              /\ BytesOf(wants[d].att)' = BytesOf(wants[d].att)
              /\ wants[d].att \in Writes => stage'[wants[d].att] # "none"
  <2>1. wants[d].att \in Atts /\ wants[d].att # o /\ (wants[d].att \in Writes => stage[wants[d].att] # "none")
    BY <1>1, <1>11 DEF WriteOK, AskedOK
  <2>2. wants[d].att \notin Given => wants'[wants[d].att] = wants[wants[d].att]
    BY <1>3, <2>1 DEF Atts
  <2>3. BytesOf(wants[d].att)' = IF wants'[d].att \in Given THEN wants'[d].att ELSE wants'[wants'[d].att].bytes
    BY DEF BytesOf
  <2> QED
    BY <1>3, <1>11, <2>1, <2>2, <2>3 DEF BytesOf
<1>6. AttachedTypeOK'
  <2>1. stage' \in [Writes -> Stages] /\ wants' \in [Writes -> FileAsked]
    BY <1>1 DEF AttachedTypeOK, Stages, Fits
  <2>2. shown' \subseteq Atts
    BY <1>1, <1>2 DEF AttachedTypeOK, Fits
  <2> QED
    BY <1>1, <2>1, <2>2 DEF AttachedTypeOK, copies
<1>7. GraphOK'
  <2>1. ASSUME NEW a \in Atts, onGraph[a] # NoBytes PROVE onGraph[a] = BytesOf(a)'
    <3>1. a # o
      BY <1>4, <2>1
    <3>2. BytesOf(a)' = BytesOf(a)
      BY <1>5, <3>1
    <3> QED
      BY <1>1, <2>1, <3>2 DEF GraphOK
  <2> QED
    BY <2>1 DEF GraphOK
<1>8. ShownOK'
  BY <1>1, <1>3 DEF ShownOK, Fits
<1>9. WriteOK(o)'
  <2>1. AskedOK(o)'
    <3>1. CASE e.verb = "add" /\ e.undoes = 0
      BY <1>3, <3>1 DEF AskedOK, Fits
    <3>2. CASE e.verb = "add" /\ e.undoes # 0
      <4>1. /\ e.undoes \in Writes /\ wants[e.undoes].verb = "delete" /\ stage[e.undoes] = "done"
            /\ e.bytes = BytesOf(wants[e.undoes].att) /\ e.att = o
        BY <3>2 DEF Fits
      <4>2. e.undoes # o
        BY <4>1
      <4>3. wants'[e.undoes] = wants[e.undoes] /\ e.bytes = BytesOf(wants[e.undoes].att)'
        BY <1>11, <4>1, <4>2
      <4>4. stage'[e.undoes] = "done"
        BY <1>3, <4>1, <4>2
      <4> QED
        BY <1>3, <3>2, <4>1, <4>3, <4>4 DEF AskedOK
    <3>3. CASE e.verb = "delete"
      <4>1. e.att \in Atts /\ (e.att \in Writes => stage'[e.att] # "none")
        BY <1>3, <3>3 DEF Fits
      <4> QED
        BY <1>3, <3>3, <4>1 DEF AskedOK
    <3> QED
      BY <3>1, <3>2, <3>3 DEF Fits, FileAsked
  <2>2. HeldOK(o)' /\ CopyOK(o)' /\ RanOK(o)'
    BY <1>3, <1>4 DEF HeldOK, CopyOK, RanOK, copies
  <2> QED
    BY <2>1, <2>2 DEF WriteOK
<1>10. ASSUME NEW p \in Writes, p # o PROVE WriteOK(p)'
  <2>1. WriteOK(p) /\ wants'[p] = wants[p] /\ stage'[p] = stage[p]
    BY <1>1, <1>3, <1>10
  <2>2. ASSUME wants[p].verb = "delete"
        PROVE  /\ wants[p].att \in Atts /\ wants[p].att # o
               /\ BytesOf(wants[p].att)' = BytesOf(wants[p].att)
               /\ wants[p].att \in Writes => stage'[wants[p].att] # "none"
    BY <1>10, <1>11, <2>2
  <2>3. AskedOK(p)'
    <3>1. AskedOK(p)
      BY <2>1 DEF WriteOK
    <3>2. CASE wants[p].verb = "add" /\ wants[p].undoes = 0
      BY <2>1, <3>1, <3>2 DEF AskedOK
    <3>3. CASE wants[p].verb = "add" /\ wants[p].undoes # 0
      <4>1. PICK d \in Writes : /\ d = wants[p].undoes /\ wants[d].verb = "delete" /\ stage[d] = "done"
                                /\ wants[p].bytes = BytesOf(wants[d].att) /\ wants[p].att = p
        BY <3>1, <3>3 DEF AskedOK
      <4>2. d # o
        BY <4>1
      <4>3. wants'[d] = wants[d] /\ wants[p].bytes = BytesOf(wants[d].att)'
        BY <1>11, <4>1, <4>2
      <4>4. stage'[d] = "done"
        BY <1>3, <4>1, <4>2
      <4> QED
        BY <2>1, <3>1, <3>3, <4>1, <4>3, <4>4 DEF AskedOK
    <3>4. CASE wants[p].verb = "delete"
      BY <2>1, <2>2, <3>1, <3>4 DEF AskedOK
    <3>5. CASE wants[p].verb = "none"
      BY <2>1, <3>1, <3>5 DEF AskedOK, copies
    <3>6. wants[p] \in FileAsked
      BY <1>1 DEF AttachedTypeOK
    <3> QED
      BY <3>2, <3>3, <3>4, <3>5, <3>6 DEF FileAsked
  <2>4. HeldOK(p)'
    <3>1. BytesOf(wants[p].att)' = IF wants'[p].att \in Given THEN wants'[p].att ELSE wants'[wants'[p].att].bytes
      BY DEF BytesOf
    <3>2. ASSUME stage[p] = "keep" PROVE read[p] = BytesOf(wants[p].att)'
      <4>1. wants[p].verb = "delete" /\ read[p] = BytesOf(wants[p].att)
        BY <2>1, <3>2 DEF WriteOK, HeldOK
      <4> QED
        BY <2>2, <4>1
    <3>3. HeldOK(p)
      BY <2>1 DEF WriteOK
    <3> QED
      BY <2>1, <3>2, <3>3 DEF HeldOK, copies
  <2>5. CopyOK(p)'
    <3>1. CASE keeps[p] # 0
      <4>1. wants[p].verb = "delete" /\ copyOf[p] = BytesOf(wants[p].att)
        BY <2>1, <3>1 DEF WriteOK, CopyOK
      <4>2. copyOf[p] = BytesOf(wants[p].att)'
        BY <2>2, <4>1
      <4> QED
        BY <2>1, <4>1, <4>2 DEF CopyOK, copies
    <3>2. CASE keeps[p] = 0
      BY <3>2 DEF CopyOK, copies
    <3> QED
      BY <3>1, <3>2
  <2>6. RanOK(p)'
    BY <2>1 DEF WriteOK, RanOK, copies
  <2> QED
    BY <2>3, <2>4, <2>5, <2>6 DEF WriteOK
<1> QED
  BY <1>6, <1>7, <1>8, <1>9, <1>10 DEF FilesInv

LEMMA Queued == ASSUME FilesInv, NEW o \in Writes, QueueWrite(o) PROVE FilesInv'
<1> USE AttachedAssumption DEF AttachedAssumption
<1>1. AttachedTypeOK /\ ShownOK /\ \A p \in Writes : WriteOK(p)
  BY DEF FilesInv
<1>2. ASSUME NEW verb, NEW att, NEW file, NEW undoes, NEW bytes, NEW noUndo,
             Enqueue(o, verb, att, file, undoes, bytes, noUndo), undone' \subseteq Writes,
             \A waits \in SUBSET Writes :
               Fits(o, [verb |-> verb, att |-> att, file |-> file, undoes |-> undoes,
                        bytes |-> bytes, noUndo |-> noUndo, waits |-> waits])
      PROVE  FilesInv'
  <2> DEFINE e == [verb |-> verb, att |-> att, file |-> file, undoes |-> undoes, bytes |-> bytes,
                   noUndo |-> noUndo, waits |-> {p \in Writes : stage[p] \in Unsettled}]
  <2>1. /\ stage[o] = "none" /\ wants' = [wants EXCEPT ![o] = e]
        /\ stage' = [stage EXCEPT ![o] = "pending"]
        /\ shown' = IF e.verb = "add" THEN shown \cup {e.att} ELSE shown \ {e.att}
        /\ UNCHANGED <<disk, read, onGraph, copies, ran, troubles>>
    BY <1>2 DEF Enqueue
  <2>2. Fits(o, e)
    BY <1>2
  <2> HIDE DEF e
  <2> QED
    BY <1>2, <2>1, <2>2, Enqueued
<1>3. ASSUME NEW f \in Files, AddFile(o, f) PROVE FilesInv'
  <2>1. disk[f] \in Nat
    BY <1>1 DEF AttachedTypeOK
  <2>2. ASSUME NEW waits \in SUBSET Writes
        PROVE  Fits(o, [verb |-> "add", att |-> o, file |-> f, undoes |-> 0,
                        bytes |-> disk[f], noUndo |-> FALSE, waits |-> waits])
    <3>1. o \in Atts /\ disk[f] \in Bytes
      BY <2>1 DEF Atts, Bytes
    <3> DEFINE e == [verb |-> "add", att |-> o, file |-> f, undoes |-> 0,
                     bytes |-> disk[f], noUndo |-> FALSE, waits |-> waits]
    <3>2. e \in FileAsked
      BY <3>1 DEF FileAsked
    <3>3. e.verb = "add" /\ e.att = o /\ e.undoes = 0 /\ e.file = f /\ e.bytes = disk[f]
      OBVIOUS
    <3> HIDE DEF e
    <3>4. Fits(o, e)
      BY <2>1, <3>2, <3>3 DEF Fits
    <3> QED
      BY <3>4 DEF e
  <2>3. Enqueue(o, "add", o, f, 0, disk[f], FALSE) /\ undone' \subseteq Writes
    BY <1>1, <1>3 DEF AddFile, AttachedTypeOK
  <2> QED
    BY <1>2, <2>2, <2>3
<1>4. ASSUME NEW a \in Atts, NEW noUndo \in BOOLEAN, a \in shown, undone' \subseteq Writes,
             Enqueue(o, "delete", a, "", 0, NoBytes, noUndo)
      PROVE  FilesInv'
  <2>1. ASSUME NEW waits \in SUBSET Writes
        PROVE  Fits(o, [verb |-> "delete", att |-> a, file |-> "", undoes |-> 0,
                        bytes |-> NoBytes, noUndo |-> noUndo, waits |-> waits])
    BY <1>1, <1>4 DEF Fits, FileAsked, Bytes, NoBytes, ShownOK
  <2> QED
    BY <1>2, <1>4, <2>1
<1>5. ASSUME NEW a \in Atts, DeleteAttachment(o, a) PROVE FilesInv'
  BY <1>1, <1>4, <1>5 DEF DeleteAttachment, AttachedTypeOK
<1>6. ASSUME NEW p \in Writes, UndoAdd(o, p) PROVE FilesInv'
  <2>1. undone' \subseteq Writes /\ p \in Atts
    BY <1>1, <1>6 DEF UndoAdd, AttachedTypeOK, Atts
  <2> QED
    BY <1>4, <1>6, <2>1 DEF UndoAdd
<1>7. ASSUME NEW p \in Writes, UndoDelete(o, p) PROVE FilesInv'
  <2>1. wants[p].verb = "delete" /\ stage[p] = "done" /\ undone' \subseteq Writes
    BY <1>1, <1>7 DEF UndoDelete, AttachedTypeOK
  <2>2. wants[p].att \in Atts /\ WriteOK(p)
    BY <1>1, <2>1 DEF WriteOK, AskedOK
  <2>3. BytesOf(wants[p].att) \in Bytes
    BY <1>1, <2>2 DEF BytesOf, Atts, Bytes, AttachedTypeOK, FileAsked
  <2>4. ASSUME NEW waits \in SUBSET Writes
        PROVE  Fits(o, [verb |-> "add", att |-> o, file |-> "", undoes |-> p,
                        bytes |-> BytesOf(wants[p].att), noUndo |-> FALSE, waits |-> waits])
    <3>1. p # 0
      BY DEF Writes
    <3> QED
      BY <2>1, <2>3, <3>1 DEF Fits, FileAsked, Atts
  <2>5. Enqueue(o, "add", o, "", p, BytesOf(wants[p].att), FALSE)
    BY <1>7 DEF UndoDelete
  <2> QED
    BY <1>2, <2>1, <2>4, <2>5
<1> QED
  BY <1>3, <1>5, <1>6, <1>7 DEF QueueWrite

\* What moves no operation into an attempt: the user's choices, a restart, the world.
LEMMA Disturbed ==
  ASSUME FilesInv, FilesOnward, AttachedTypeOK', ShownOK', UNCHANGED <<read, ran>>,
         \A p \in Writes : /\ stage'[p] = stage[p] \/ stage'[p] \in Quiet
                           /\ keeps'[p] # 0 => keeps[p] # 0 /\ copyOf'[p] = copyOf[p],
         \A a \in Atts : onGraph'[a] \in {onGraph[a], NoBytes}
  PROVE  FilesInv'
<1>1. ASSUME NEW p \in Writes PROVE WriteOK(p)'
  BY OthersKept DEF Atts
<1>2. GraphOK'
  <2>1. GraphOK /\ wants' = wants
    BY DEF FilesInv, FilesOnward
  <2> QED
    BY <2>1 DEF GraphOK, BytesOf
<1> QED
  BY <1>1, <1>2 DEF FilesInv

LEMMA Chosen == ASSUME FilesInv, NEW o \in Writes, Choose(o) PROVE FilesInv'
<1>1. AttachedTypeOK /\ ShownOK /\ WriteOK(o)
  BY DEF FilesInv
<1>2. UNCHANGED <<disk, wants, read, onGraph, copies, ran, undone>> /\ troubles' \in 0 .. MaxTroubles
  BY <1>1, AttachedAssumption DEF Choose, RetryWrite, DiscardWrite, Trouble, AttachedTypeOK, AttachedAssumption
<1>3. /\ stage' \in [Writes -> Stages]
      /\ \A p \in Writes : /\ stage'[p] = "none" <=> stage[p] = "none"
                           /\ stage[p] = "done" => stage'[p] = "done"
                           /\ stage'[p] = stage[p] \/ stage'[p] \in Quiet
  <2>1. CASE RetryWrite(o)
    BY <1>1, <2>1 DEF RetryWrite, AttachedTypeOK, Stages, Quiet
  <2>2. CASE DiscardWrite(o)
    <3>1. \A p \in Waiting(o) : p \in Writes /\ stage[p] = "pending"
      BY DEF Waiting
    <3>2. /\ stage[o] \in {"pending", "failed", "unknown"}
          /\ stage' = [p \in Writes |-> IF p = o THEN "dropped"
                                        ELSE IF p \in Waiting(o) THEN "failed" ELSE stage[p]]
      BY <2>2 DEF DiscardWrite
    <3> QED
      BY <1>1, <3>1, <3>2 DEF AttachedTypeOK, Stages, Quiet
  <2> QED
    BY <2>1, <2>2 DEF Choose
<1>4. FilesOnward
  BY <1>1, <1>2, <1>3 DEF FilesOnward, AttachedTypeOK, copies
<1>5. \A a \in shown' : a \in shown \/ \E p \in Writes : wants[p].verb # "none" /\ a = wants[p].att
  <2>1. CASE RetryWrite(o)
    BY <2>1 DEF RetryWrite, Redone
  <2>2. CASE DiscardWrite(o)
    <3>1. Waiting(o) \in SUBSET Writes /\ {o} \cup Waiting(o) \in SUBSET Writes
      BY DEF Waiting
    <3>2. shown' = TakenBack(Waiting(o)) \/ shown' = TakenBack({o} \cup Waiting(o))
      BY <2>2 DEF DiscardWrite
    <3>3. \A a \in TakenBack(Waiting(o)) : a \in shown \/ \E p \in Writes : wants[p].verb # "none" /\ a = wants[p].att
      BY <3>1, TakenBackShows
    <3>4. \A a \in TakenBack({o} \cup Waiting(o)) : a \in shown \/ \E p \in Writes : wants[p].verb # "none" /\ a = wants[p].att
      BY <3>1, TakenBackShows
    <3> QED
      BY <3>2, <3>3, <3>4
  <2> QED
    BY <2>1, <2>2 DEF Choose
<1>6. ShownOK' /\ shown' \subseteq Atts
  BY <1>4, <1>5, ShownKept
<1>7. AttachedTypeOK'
  BY <1>1, <1>2, <1>3, <1>6 DEF AttachedTypeOK, copies
<1> QED
  BY <1>2, <1>3, <1>4, <1>6, <1>7, Disturbed DEF copies

LEMMA Elsewhere ==
  ASSUME FilesInv
  PROVE  /\ RestartAttached \/ SyncFiles => FilesInv'
         /\ \A o \in Writes : Ages(o) => FilesInv'
         /\ \A f \in Files : EditFile(f) => FilesInv'
         /\ \A a \in Atts : PhoneDeletes(a) => FilesInv'
<1> USE AttachedAssumption DEF AttachedAssumption
<1>1. AttachedTypeOK /\ ShownOK
  BY DEF FilesInv
<1>2. ASSUME RestartAttached PROVE FilesInv'
  <2>1. /\ keeps' \in [Writes -> Nat] /\ swept' \subseteq Writes /\ old' = {}
        /\ \A p \in Writes : /\ p \in swept \/ keeps[p] # 0 => p \in swept' \/ keeps'[p] # 0
                             /\ keeps'[p] # 0 => keeps[p] # 0
    BY <1>1, <1>2, Swept DEF RestartAttached, AttachedTypeOK
  <2>2. /\ stage' \in [Writes -> Stages]
        /\ \A p \in Writes : /\ stage'[p] = "none" <=> stage[p] = "none"
                             /\ stage[p] = "done" => stage'[p] = "done"
                             /\ stage'[p] = stage[p] \/ stage'[p] \in Quiet
    BY <1>1, <1>2 DEF RestartAttached, AttachedTypeOK, Stages, InFlight, Quiet
  <2>3. UNCHANGED <<disk, wants, read, onGraph, shown, copyOf, ran, undone>> /\ troubles' \in 0 .. MaxTroubles
    BY <1>1, <1>2 DEF RestartAttached, Trouble, AttachedTypeOK
  <2>4. FilesOnward
    BY <1>1, <2>1, <2>2, <2>3 DEF FilesOnward, AttachedTypeOK
  <2>5. AttachedTypeOK' /\ ShownOK'
    BY <1>1, <2>1, <2>2, <2>3 DEF AttachedTypeOK, ShownOK
  <2> QED
    BY <2>1, <2>2, <2>3, <2>4, <2>5, Disturbed
<1>3. ASSUME SyncFiles PROVE FilesInv'
  <2>1. UNCHANGED <<disk, wants, stage, read, onGraph, copies, ran, undone, troubles>>
    BY <1>3 DEF SyncFiles
  <2>2. FilesOnward
    BY <1>1, <2>1 DEF FilesOnward, AttachedTypeOK, copies
  <2>3. ShownOK' /\ shown' \subseteq Atts
    BY <1>3, <2>2, ShownKept DEF SyncFiles
  <2>4. AttachedTypeOK'
    BY <1>1, <2>1, <2>3 DEF AttachedTypeOK, copies
  <2> QED
    BY <2>1, <2>2, <2>3, <2>4, Disturbed DEF copies
<1>4. ASSUME NEW o \in Writes, Ages(o) PROVE FilesInv'
  <2>1. /\ UNCHANGED <<disk, wants, stage, read, onGraph, shown, keeps, copyOf, swept, ran, undone>>
        /\ old' = old \cup {o} /\ troubles' \in 0 .. MaxTroubles
    BY <1>1, <1>4 DEF Ages, Trouble, AttachedTypeOK
  <2>2. FilesOnward
    BY <1>1, <2>1 DEF FilesOnward, AttachedTypeOK
  <2>3. AttachedTypeOK' /\ ShownOK'
    BY <1>1, <2>1 DEF AttachedTypeOK, ShownOK
  <2> QED
    BY <2>1, <2>2, <2>3, Disturbed
<1>5. ASSUME NEW f \in Files, EditFile(f) PROVE FilesInv'
  <2>1. UNCHANGED <<wants, stage, read, onGraph, shown, copies, ran, undone>> /\ troubles' \in 0 .. MaxTroubles
    BY <1>1, <1>5 DEF EditFile, Trouble, Smooth, AttachedTypeOK
  <2>2. disk[f] \in Nat /\ disk \in [Files -> Nat]
    BY <1>1 DEF AttachedTypeOK
  <2>3. /\ disk' \in [Files -> Nat]
        /\ \A g \in Files : disk'[g] = 0 \/ (disk'[g] \in Nat /\ disk[g] # 0 /\ disk'[g] >= disk[g])
    <3>1. CASE disk' = [disk EXCEPT ![f] = disk[f] + 1]
      BY <1>5, <2>2, <3>1 DEF EditFile
    <3>2. CASE disk' = [disk EXCEPT ![f] = 0]
      BY <2>2, <3>2
    <3> QED
      BY <1>5, <3>1, <3>2 DEF EditFile
  <2>4. FilesOnward
    BY <1>1, <2>1, <2>3 DEF FilesOnward, AttachedTypeOK, copies
  <2>5. AttachedTypeOK' /\ ShownOK'
    BY <1>1, <2>1, <2>3 DEF AttachedTypeOK, ShownOK, copies
  <2> QED
    BY <2>1, <2>4, <2>5, Disturbed DEF copies
<1>6. ASSUME NEW a \in Atts, PhoneDeletes(a) PROVE FilesInv'
  <2>1. /\ UNCHANGED <<disk, wants, stage, read, shown, copies, ran, undone>> /\ troubles' \in 0 .. MaxTroubles
        /\ onGraph' = [onGraph EXCEPT ![a] = NoBytes]
    BY <1>1, <1>6 DEF PhoneDeletes, Trouble, AttachedTypeOK
  <2>2. FilesOnward
    BY <1>1, <2>1 DEF FilesOnward, AttachedTypeOK, copies
  <2>3. AttachedTypeOK' /\ ShownOK'
    BY <1>1, <2>1 DEF AttachedTypeOK, ShownOK, copies, Bytes, NoBytes
  <2>4. \A b \in Atts : onGraph'[b] \in {onGraph[b], NoBytes}
    BY <1>1, <2>1 DEF AttachedTypeOK
  <2> QED
    BY <2>1, <2>2, <2>3, <2>4, Disturbed DEF copies
<1> QED
  BY <1>2, <1>3, <1>4, <1>5, <1>6

LEMMA FilesStep == FilesInv /\ [AttachedNext]_attVars => FilesInv'
<1> SUFFICES ASSUME FilesInv, [AttachedNext]_attVars PROVE FilesInv'
  OBVIOUS
<1>1. CASE UNCHANGED attVars
  <2>1. UNCHANGED <<disk, wants, stage, read, onGraph, shown, keeps, copyOf, old, swept, ran, undone, troubles>>
    BY <1>1 DEF attVars, copies
  <2> QED
    BY <2>1 DEF FilesInv, AttachedTypeOK, GraphOK, ShownOK, WriteOK, AskedOK, HeldOK, CopyOK, RanOK, BytesOf
<1>2. ASSUME NEW o \in Writes, QueueWrite(o) \/ SendStep(o) \/ Choose(o) PROVE FilesInv'
  BY <1>2, Queued, AddSent, DeleteSent, Chosen DEF SendStep
<1>3. /\ RestartAttached \/ SyncFiles => FilesInv'
      /\ \A o \in Writes : Ages(o) => FilesInv'
      /\ \A f \in Files : EditFile(f) => FilesInv'
      /\ \A a \in Atts : PhoneDeletes(a) => FilesInv'
  BY Elsewhere
<1>4. CASE AttachedNext
  <2>1. CASE \E o \in Writes : QueueWrite(o) \/ SendStep(o) \/ Choose(o) \/ Ages(o)
    BY <1>2, <1>3, <2>1
  <2>2. CASE RestartAttached \/ SyncFiles \/ (\E f \in Files : EditFile(f)) \/ (\E a \in Atts : PhoneDeletes(a))
    BY <1>3, <2>2
  <2> QED
    BY <1>4, <2>1, <2>2 DEF AttachedNext
<1> QED
  BY <1>1, <1>4

\* For every number of operations, files and copies kept: no bytes are
\* attached but those meant, and a copy is there for every undo that no
\* sweep has taken.  (attachment_write.rs, kept.rs.)
THEOREM FilesTrue == AttachedSpec => []BytesTrue
<1>1. FilesInv => BytesTrue
  <2> SUFFICES ASSUME FilesInv PROVE BytesTrue
    OBVIOUS
  <2>1. AttachedTypeOK /\ GraphOK /\ \A o \in Writes : WriteOK(o)
    BY DEF FilesInv
  <2>2. AttachedAsMeant
    <3>1. ASSUME NEW o \in Writes PROVE BytesOf(o) = wants[o].bytes /\ o \in Atts
      BY AttachedAssumption DEF AttachedAssumption, BytesOf, Writes, Atts
    <3> QED
      BY <2>1, <3>1 DEF AttachedAsMeant, GraphOK
  <2>3. KeptForUndo
    <3>1. ran \subseteq Writes
      BY <2>1 DEF AttachedTypeOK
    <3> QED
      BY <2>1, <3>1 DEF KeptForUndo, WriteOK, RanOK, CopyOK
  <2> QED
    BY <2>2, <2>3 DEF BytesTrue
<1> QED
  BY <1>1, FilesStart, FilesStep, PTL DEF AttachedSpec

-----------------------------------------------------------------------------
(* Attachments saved into a directory: Downloads.                           *)

Doing == {"part", "fill", "place", "copy", "named", "failing"}
GaveUp == {"failing", "failed", "stopped"}

\* A file that was saved is still there, or it was replaced by the user or by force.
NameHolds(j, i, f, full) == directory[f] = [by |-> j, item |-> i, whole |-> full] \/ <<j, i, f>> \in replaced

\* Where a request is with the file it writes.
SaveOK(j) ==
  /\ save[j].at \in Doing => save[j].item \in Enclosed
  /\ save[j].at = "place" => partFile[j] = "whole"
  /\ save[j].at = "copy" => NameHolds(j, save[j].item, Candidate(j), FALSE)
  /\ save[j].at = "named" => NameHolds(j, save[j].item, Candidate(j), TRUE)

\* A file that was saved is of a request that has begun, and whole unless
\* the request is copying into it or gave up.
FileOK(f) ==
  IF directory[f].by \in Saves
    THEN /\ directory[f].item \in Enclosed /\ save[directory[f].by].at # "idle"
         /\ \/ directory[f].whole \/ save[directory[f].by].at \in GaveUp
            \/ /\ save[directory[f].by].at = "copy" /\ f = Candidate(directory[f].by)
               /\ directory[f] = Saved(directory[f].by, FALSE)
    ELSE directory[f].whole

DownInv ==
  /\ DownloadsTypeOK /\ UsersKept /\ AnswerHolds
  /\ \A j \in Saves : SaveOK(j)
  /\ \A f \in FileNames : FileOK(f)

LEMMA DownStart == DownloadsInit => DownInv
<1> SUFFICES ASSUME DownloadsInit PROVE DownInv
  OBVIOUS
<1> USE DownloadsAssumption DEF DownloadsAssumption, DownloadsInit
<1>1. FreeName \in InFolder /\ FreeName.by \notin Saves /\ FreeName.whole
  BY DEF FreeName, InFolder
<1>2. /\ AtItem("idle", {}, NoAttachment, FALSE) \in
           [at : Places, todo : SUBSET Enclosed, item : Enclosed \cup {NoAttachment},
            number : 0 .. LastNumber, way : {"link", "rename", "create"}, force : BOOLEAN]
      /\ AtItem("idle", {}, NoAttachment, FALSE).at = "idle"
  BY DEF AtItem, Places, Ended
<1>3. DownloadsTypeOK
  <2> DEFINE S == [at : Places, todo : SUBSET Enclosed, item : Enclosed \cup {NoAttachment},
                   number : 0 .. LastNumber, way : {"link", "rename", "create"}, force : BOOLEAN]
             first == AtItem("idle", {}, NoAttachment, FALSE)
  <2>1. first \in S /\ save = [j \in Saves |-> first]
    BY <1>2
  <2> HIDE DEF S, first
  <2>2. save \in [Saves -> S]
    BY <2>1
  <2>3. /\ directory \in [FileNames -> InFolder] /\ opened \in [Saves -> InFolder]
        /\ partFile \in [Saves -> {"none", "half", "whole"}] /\ saved \in [Saves -> SUBSET (Enclosed \X FileNames)]
    BY <1>1
  <2>4. /\ server \subseteq Enclosed /\ theirs \subseteq FileNames
        /\ replaced \subseteq Saves \X Enclosed \X FileNames /\ spoils \in 0 .. MaxSpoils
    OBVIOUS
  <2> QED
    BY <2>2, <2>3, <2>4 DEF DownloadsTypeOK, S
<1>4. UsersKept /\ AnswerHolds
  BY DEF UsersKept, AnswerHolds
<1>5. \A j \in Saves : SaveOK(j)
  BY <1>2 DEF SaveOK, Doing
<1>6. \A f \in FileNames : FileOK(f)
  BY <1>1 DEF FileOK
<1> QED
  BY <1>3, <1>4, <1>5, <1>6 DEF DownInv

\* What a step may do to a request without touching the directory.
MovesOn(j) ==
  /\ save'[j].force = save[j].force \/ save[j].at = "idle"
  /\ save'[j].at = "idle" => save[j].at = "idle"
  /\ save'[j].at \in Doing => save'[j].item \in Enclosed
  /\ save'[j].at = "place" => partFile'[j] = "whole"
  /\ save'[j].at \in {"copy", "named"} => save'[j] = save[j]
  /\ save[j].at \in GaveUp => save'[j].at \in GaveUp
  /\ save[j].at = "copy" => save'[j] = save[j] \/ save'[j].at \in GaveUp

LEMMA DirectoryStays ==
  ASSUME DownInv, UNCHANGED <<directory, theirs, replaced>>, \A j \in Saves : MovesOn(j)
  PROVE  UsersKept' /\ (\A j \in Saves : SaveOK(j)') /\ (\A f \in FileNames : FileOK(f)')
<1>1. UNCHANGED <<directory, theirs, replaced>> /\ directory' = directory /\ theirs' = theirs /\ replaced' = replaced
  OBVIOUS
<1>2. ASSUME NEW j \in Saves PROVE SaveOK(j)'
  <2>1. SaveOK(j) /\ MovesOn(j)
    BY DEF DownInv
  <2>2. CASE save'[j].at \in {"copy", "named"}
    <3>1. save'[j] = save[j]
      BY <2>1, <2>2 DEF MovesOn
    <3>2. Candidate(j)' = Candidate(j)
      BY <3>1 DEF Candidate
    <3> QED
      BY <1>1, <2>1, <2>2, <3>1, <3>2 DEF SaveOK, NameHolds, Doing
  <2>3. CASE save'[j].at \notin {"copy", "named"}
    BY <2>1, <2>3 DEF SaveOK, MovesOn
  <2> QED
    BY <2>2, <2>3
<1>3. ASSUME NEW f \in FileNames PROVE FileOK(f)'
  <2>1. FileOK(f)
    BY DEF DownInv
  <2>2. CASE directory[f].by \in Saves
    <3> DEFINE j == directory[f].by
    <3>1. MovesOn(j) /\ j \in Saves /\ directory'[f].by = j
      BY <1>1, <2>2
    <3>2. CASE save[j].at = "copy" /\ save'[j] = save[j]
      <4>1. Candidate(j)' = Candidate(j) /\ Saved(j, FALSE)' = Saved(j, FALSE)
        BY <1>1, <3>2 DEF Candidate, Saved
      <4> QED
        BY <1>1, <2>1, <2>2, <3>2, <4>1 DEF FileOK, GaveUp, Candidate, Saved
    <3>3. CASE ~(save[j].at = "copy" /\ save'[j] = save[j])
      BY <1>1, <2>1, <2>2, <3>1, <3>3 DEF FileOK, MovesOn
    <3> QED
      BY <3>2, <3>3
  <2>3. CASE directory[f].by \notin Saves
    BY <1>1, <2>1, <2>3 DEF FileOK
  <2> QED
    BY <2>2, <2>3
<1>4. UsersKept'
  <2>1. ASSUME NEW f \in theirs, directory[f].by \in Saves, save[directory[f].by].force
        PROVE  save'[directory[f].by].force
    <3>1. f \in FileNames
      BY DEF DownInv, DownloadsTypeOK
    <3>2. save[directory[f].by].at # "idle" /\ MovesOn(directory[f].by)
      BY <2>1, <3>1 DEF DownInv, FileOK
    <3> QED
      BY <2>1, <3>2 DEF MovesOn
  <2> QED
    BY <1>1, <2>1 DEF DownInv, UsersKept
<1> QED
  BY <1>2, <1>3, <1>4

\* What was saved and told stays so.
LEMMA AnswersStay ==
  ASSUME DownInv, saved' = saved, opened' = opened,
         \A j \in Saves, i \in Enclosed, f \in FileNames : NameHolds(j, i, f, TRUE) => NameHolds(j, i, f, TRUE)',
         replaced \subseteq replaced'
  PROVE  AnswerHolds'
<1>1. AnswerHolds /\ \A j \in Saves : saved[j] \in SUBSET (Enclosed \X FileNames)
  BY DEF DownInv, DownloadsTypeOK
<1>2. ASSUME NEW j \in Saves, NEW s \in saved[j]
      PROVE  \/ directory'[s[2]] = [by |-> j, item |-> s[1], whole |-> TRUE]
             \/ <<j, s[1], s[2]>> \in replaced'
  <2>1. s[1] \in Enclosed /\ s[2] \in FileNames /\ NameHolds(j, s[1], s[2], TRUE)
    BY <1>1 DEF AnswerHolds, NameHolds
  <2>2. NameHolds(j, s[1], s[2], TRUE)'
    BY <2>1
  <2> QED
    BY <2>2 DEF NameHolds
<1>3. ASSUME NEW j \in Saves
      PROVE  \/ opened'[j] = FreeName
             \/ \E s \in saved'[j] : \/ opened'[j] = [by |-> j, item |-> s[1], whole |-> TRUE]
                                     \/ <<j, s[1], s[2]>> \in replaced'
  BY <1>1 DEF AnswerHolds
<1> QED
  BY <1>2, <1>3 DEF AnswerHolds

\* One name gets another file: what was saved there is noted as replaced.
LEMMA NameChanges ==
  ASSUME DownInv, NEW g \in FileNames, NEW v \in InFolder,
         directory' = [directory EXCEPT ![g] = v], replaced' = replaced \cup LostWith(g)
  PROVE  /\ directory' \in [FileNames -> InFolder] /\ replaced' \subseteq Saves \X Enclosed \X FileNames
         /\ \A j \in Saves, i \in Enclosed, f \in FileNames, full \in BOOLEAN :
              NameHolds(j, i, f, full) => NameHolds(j, i, f, full)'
<1>1. directory \in [FileNames -> InFolder] /\ replaced \subseteq Saves \X Enclosed \X FileNames /\ FileOK(g)
  BY DEF DownInv, DownloadsTypeOK
<1>2. LostWith(g) \subseteq Saves \X Enclosed \X FileNames
  <2>1. CASE directory[g].by \in Saves
    <3>1. directory[g].item \in Enclosed
      BY <1>1, <2>1 DEF FileOK
    <3>2. <<directory[g].by, directory[g].item, g>> \in Saves \X Enclosed \X FileNames
      BY <2>1, <3>1
    <3> QED
      BY <2>1, <3>2 DEF LostWith
  <2>2. CASE directory[g].by \notin Saves
    BY <2>2 DEF LostWith
  <2> QED
    BY <2>1, <2>2
<1>3. ASSUME NEW j \in Saves, NEW i \in Enclosed, NEW f \in FileNames, NEW full \in BOOLEAN, NameHolds(j, i, f, full)
      PROVE  NameHolds(j, i, f, full)'
  <2>1. CASE <<j, i, f>> \in replaced
    BY <2>1 DEF NameHolds
  <2>2. CASE directory[f] = [by |-> j, item |-> i, whole |-> full] /\ f # g
    BY <1>1, <2>2 DEF NameHolds
  <2>3. CASE directory[f] = [by |-> j, item |-> i, whole |-> full] /\ f = g
    <3>1. directory[f].by = j /\ directory[f].item = i
      BY <2>3
    <3>2. LostWith(g) = {<<j, i, f>>}
      BY <2>3, <3>1 DEF LostWith
    <3> QED
      BY <3>2 DEF NameHolds
  <2> QED
    BY <1>3, <2>1, <2>2, <2>3 DEF NameHolds
<1> QED
  BY <1>1, <1>2, <1>3

LEMMA CandidateNamed ==
  ASSUME DownloadsTypeOK, NEW j \in Saves, SaveOK(j), save[j].at \in Doing
  PROVE  save[j].item \in Enclosed /\ Candidate(j) \in FileNames
<1>1. save[j].item \in Enclosed
  BY DEF SaveOK
<1> QED
  BY <1>1, DownloadsAssumption DEF DownloadsAssumption, DownloadsTypeOK, Candidate

\* A request gives its file a name: by force, or one that was free.
LEMMA Placed ==
  ASSUME DownInv, NEW j \in Saves, NEW place \in {"copy", "named"},
         save[j].at = "place", save' = [save EXCEPT ![j].at = place],
         directory' = [directory EXCEPT ![Candidate(j)] = Saved(j, place = "named")],
         replaced' = replaced \cup LostWith(Candidate(j)),
         save[j].force \/ directory[Candidate(j)] = FreeName,
         UNCHANGED <<theirs, saved, opened, server>>,
         \A k \in Saves : k # j => partFile'[k] = partFile[k],
         partFile' \in [Saves -> {"none", "half", "whole"}], spoils' \in 0 .. MaxSpoils
  PROVE  DownInv'
<1> DEFINE g == Candidate(j)
           v == Saved(j, place = "named")
<1>1. DownloadsTypeOK /\ SaveOK(j) /\ save[j].item \in Enclosed
  BY DEF DownInv, SaveOK, Doing
<1>2. g \in FileNames
  BY <1>1, DownloadsAssumption DEF DownloadsAssumption, DownloadsTypeOK, Candidate
<1>3. v \in InFolder /\ v.by = j /\ v.item = save[j].item /\ v.whole = (place = "named")
  BY <1>1 DEF Saved, InFolder
<1>4. \A k \in Saves : /\ k # j => save'[k] = save[k]
                       /\ save'[k].force = save[k].force /\ save'[k].item = save[k].item
                       /\ save'[k].number = save[k].number
  BY <1>1 DEF DownloadsTypeOK
<1>5. save'[j].at = place /\ Candidate(j)' = g
  BY <1>1, <1>4 DEF DownloadsTypeOK, Candidate
<1>6. /\ directory' \in [FileNames -> InFolder] /\ replaced' \subseteq Saves \X Enclosed \X FileNames
      /\ \A k \in Saves, i \in Enclosed, f \in FileNames, full \in BOOLEAN :
           NameHolds(k, i, f, full) => NameHolds(k, i, f, full)'
  BY <1>2, <1>3, NameChanges
<1>7. directory'[g] = v /\ \A f \in FileNames : f # g => directory'[f] = directory[f]
  BY <1>1, <1>2 DEF DownloadsTypeOK
<1>8. DownloadsTypeOK'
  <2>1. save' \in [Saves -> [at : Places, todo : SUBSET Enclosed, item : Enclosed \cup {NoAttachment},
                             number : 0 .. LastNumber, way : {"link", "rename", "create"}, force : BOOLEAN]]
    <3> DEFINE S == [at : Places, todo : SUBSET Enclosed, item : Enclosed \cup {NoAttachment},
                     number : 0 .. LastNumber, way : {"link", "rename", "create"}, force : BOOLEAN]
    <3>1. save \in [Saves -> S] /\ place \in Places
      BY <1>1 DEF DownloadsTypeOK, Places
    <3>2. [save[j] EXCEPT !.at = place] \in S
      BY <3>1
    <3>3. save' = [save EXCEPT ![j] = [save[j] EXCEPT !.at = place]]
      OBVIOUS
    <3> HIDE DEF S
    <3>4. save' \in [Saves -> S]
      BY <3>1, <3>2, <3>3
    <3> QED
      BY <3>4 DEF S
  <2> QED
    BY <1>1, <1>6, <2>1 DEF DownloadsTypeOK
<1>9. AnswerHolds'
  BY <1>6, AnswersStay
<1>10. ASSUME NEW k \in Saves PROVE SaveOK(k)'
  <2>1. SaveOK(k)
    BY DEF DownInv
  <2>2. CASE k # j
    <3>1. save'[k] = save[k] /\ Candidate(k)' = Candidate(k)
      BY <1>4, <2>2 DEF Candidate
    <3>2. save[k].at \in {"copy", "named"} => save[k].item \in Enclosed /\ Candidate(k) \in FileNames
      BY <1>1, <2>1, CandidateNamed DEF Doing
    <3>3. ASSUME NEW i \in Enclosed, NEW f \in FileNames, NEW full \in BOOLEAN, NameHolds(k, i, f, full)
          PROVE  \/ directory'[f] = [by |-> k, item |-> i, whole |-> full]
                 \/ <<k, i, f>> \in replaced'
      BY <1>6, <3>3 DEF NameHolds
    <3>4. /\ save[k].at = "copy" => \/ directory'[Candidate(k)] = [by |-> k, item |-> save[k].item, whole |-> FALSE]
                                    \/ <<k, save[k].item, Candidate(k)>> \in replaced'
          /\ save[k].at = "named" => \/ directory'[Candidate(k)] = [by |-> k, item |-> save[k].item, whole |-> TRUE]
                                     \/ <<k, save[k].item, Candidate(k)>> \in replaced'
      BY <2>1, <3>2, <3>3 DEF SaveOK
    <3>5. save[k].at # "place" \/ partFile'[k] = "whole"
      BY <2>1, <2>2 DEF SaveOK
    <3> QED
      BY <2>1, <3>1, <3>4, <3>5 DEF SaveOK, NameHolds
  <2>3. CASE k = j
    <3>1. directory'[g] = [by |-> j, item |-> save[j].item, whole |-> place = "named"]
      BY <1>7 DEF Saved
    <3>2. save'[j].item = save[j].item /\ save'[j].at = place /\ Candidate(j)' = g
      BY <1>4, <1>5
    <3>3. place = "named" => directory'[g] = [by |-> j, item |-> save'[j].item, whole |-> TRUE]
      BY <3>1, <3>2
    <3>4. place = "copy" => directory'[g] = [by |-> j, item |-> save'[j].item, whole |-> FALSE]
      BY <3>1, <3>2
    <3> HIDE DEF g, v
    <3> QED
      BY <1>1, <2>3, <3>2, <3>3, <3>4 DEF SaveOK, NameHolds
  <2> QED
    BY <2>2, <2>3
<1>11. ASSUME NEW f \in FileNames PROVE FileOK(f)'
  <2>1. CASE f = g
    <3>1. directory'[f] = v
      BY <1>7, <2>1
    <3>2. place = "copy" => directory'[f] = Saved(j, FALSE)'
      BY <1>4, <3>1 DEF Saved
    <3>3. /\ directory'[f].by = j /\ directory'[f].item \in Enclosed /\ save'[j].at = place
          /\ directory'[f].whole \/ (place = "copy" /\ f = Candidate(j)')
      BY <1>1, <1>3, <1>5, <2>1, <3>1
    <3> HIDE DEF g, v
    <3> QED
      BY <3>2, <3>3 DEF FileOK
  <2>2. CASE f # g
    <3>1. directory'[f] = directory[f] /\ FileOK(f)
      BY <1>7, <2>2 DEF DownInv
    <3>2. CASE directory[f].by = j
      <4>1. directory[f].whole /\ directory[f].item \in Enclosed
        BY <3>1, <3>2 DEF FileOK, GaveUp
      <4> QED
        BY <1>5, <3>1, <3>2, <4>1 DEF FileOK
    <3>3. CASE directory[f].by # j
      <4>1. \A k \in Saves : k # j => save'[k] = save[k] /\ Candidate(k)' = Candidate(k)
        BY <1>4 DEF Candidate
      <4>2. \A k \in Saves : k # j => Saved(k, FALSE)' = Saved(k, FALSE)
        BY <1>4 DEF Saved
      <4>3. CASE directory[f].by \notin Saves
        BY <3>1, <4>3 DEF FileOK
      <4>4. CASE directory[f].by \in Saves
        <5>1. PICK k \in Saves : k = directory[f].by /\ k # j
          BY <3>3, <4>4
        <5>2. save'[k] = save[k] /\ Candidate(k)' = Candidate(k) /\ Saved(k, FALSE)' = Saved(k, FALSE)
          BY <4>1, <4>2, <5>1
        <5> QED
          BY <3>1, <5>1, <5>2 DEF FileOK
      <4> QED
        BY <4>3, <4>4
    <3> QED
      BY <3>2, <3>3
  <2> QED
    BY <2>1, <2>2
<1>12. UsersKept'
  <2>1. ASSUME NEW f \in theirs PROVE directory'[f] = Users \/ (directory'[f].by \in Saves /\ save'[directory'[f].by].force)
    <3>1. f \in FileNames /\ (directory[f] = Users \/ (directory[f].by \in Saves /\ save[directory[f].by].force))
      BY <1>1 DEF DownInv, DownloadsTypeOK, UsersKept
    <3>2. CASE f # g
      BY <1>4, <1>7, <3>1, <3>2
    <3>3. CASE f = g /\ save[j].force
      BY <1>3, <1>4, <1>7, <3>3
    <3>4. CASE f = g /\ directory[g] = FreeName
      <4>1. FreeName # Users /\ FreeName.by \notin Saves
        <5>1. FreeName.by = "nobody" /\ Users.by = "user"
          BY DEF FreeName, Users
        <5> QED
          BY <5>1, DownloadsAssumption DEF DownloadsAssumption
      <4> QED
        BY <3>1, <3>4, <4>1
    <3> QED
      BY <3>2, <3>3, <3>4
  <2> QED
    BY <2>1 DEF UsersKept
<1> QED
  BY <1>8, <1>9, <1>10, <1>11, <1>12 DEF DownInv

\* The user puts a file there, or removes one.
LEMMA UserActs ==
  ASSUME DownInv, NEW f \in FileNames, UserPuts(f) \/ UserRemoves(f)
  PROVE  DownInv'
<1>1. DownloadsTypeOK
  BY DEF DownInv
<1>2. PICK v \in {Users, FreeName} : /\ directory' = [directory EXCEPT ![f] = v]
                                     /\ theirs' = IF v = Users THEN theirs \cup {f} ELSE theirs \ {f}
  <2>1. Users # FreeName
    BY DEF Users, FreeName
  <2> QED
    BY <2>1 DEF UserPuts, UserRemoves
<1>3. /\ replaced' = replaced \cup LostWith(f) /\ UNCHANGED <<save, partFile, saved, opened, server>>
      /\ spoils' \in 0 .. MaxSpoils
  <2>1. spoils \in 0 .. MaxSpoils /\ MaxSpoils \in Nat
    BY <1>1, DownloadsAssumption DEF DownloadsAssumption, DownloadsTypeOK
  <2>2. /\ replaced' = replaced \cup LostWith(f) /\ UNCHANGED <<save, partFile, saved, opened, server>>
        /\ Spoil
    BY DEF UserPuts, UserRemoves
  <2> QED
    BY <2>1, <2>2 DEF Spoil
<1>4. v \in InFolder /\ v.whole /\ v.by \notin Saves
  <2>1. /\ Users.by = "user" /\ Users.whole /\ Users \in InFolder
        /\ FreeName.by = "nobody" /\ FreeName.whole /\ FreeName \in InFolder
    BY DEF Users, FreeName, InFolder
  <2>2. "user" \notin Saves /\ "nobody" \notin Saves
    BY DownloadsAssumption DEF DownloadsAssumption
  <2> QED
    BY <1>2, <2>1, <2>2
<1>5. /\ directory' \in [FileNames -> InFolder] /\ replaced' \subseteq Saves \X Enclosed \X FileNames
      /\ \A k \in Saves, i \in Enclosed, h \in FileNames, full \in BOOLEAN :
           NameHolds(k, i, h, full) => NameHolds(k, i, h, full)'
  BY <1>2, <1>3, <1>4, NameChanges
<1>6. directory'[f] = v /\ \A h \in FileNames : h # f => directory'[h] = directory[h]
  BY <1>1, <1>2 DEF DownloadsTypeOK
<1>7. DownloadsTypeOK'
  BY <1>1, <1>2, <1>3, <1>5 DEF DownloadsTypeOK
<1>8. AnswerHolds'
  BY <1>3, <1>5, AnswersStay
<1>9. ASSUME NEW k \in Saves PROVE SaveOK(k)'
  <2>1. SaveOK(k) /\ save' = save /\ partFile' = partFile
    BY <1>3 DEF DownInv
  <2>2. save[k].at \in {"copy", "named"} => save[k].item \in Enclosed /\ Candidate(k) \in FileNames
    BY <1>1, <2>1, CandidateNamed DEF Doing
  <2>3. ASSUME NEW i \in Enclosed, NEW h \in FileNames, NEW full \in BOOLEAN, NameHolds(k, i, h, full)
        PROVE  \/ directory'[h] = [by |-> k, item |-> i, whole |-> full]
               \/ <<k, i, h>> \in replaced'
    BY <1>5, <2>3 DEF NameHolds
  <2>4. /\ save[k].at = "copy" => \/ directory'[Candidate(k)] = [by |-> k, item |-> save[k].item, whole |-> FALSE]
                                  \/ <<k, save[k].item, Candidate(k)>> \in replaced'
        /\ save[k].at = "named" => \/ directory'[Candidate(k)] = [by |-> k, item |-> save[k].item, whole |-> TRUE]
                                   \/ <<k, save[k].item, Candidate(k)>> \in replaced'
    BY <2>1, <2>2, <2>3 DEF SaveOK
  <2>5. Candidate(k)' = Candidate(k)
    BY <2>1 DEF Candidate
  <2> QED
    BY <2>1, <2>4, <2>5 DEF SaveOK, NameHolds
<1>10. ASSUME NEW h \in FileNames PROVE FileOK(h)'
  <2>1. CASE h = f
    BY <1>4, <1>6, <2>1 DEF FileOK
  <2>2. CASE h # f
    <3>1. directory'[h] = directory[h] /\ FileOK(h) /\ save' = save
      BY <1>3, <1>6, <2>2 DEF DownInv
    <3> QED
      BY <3>1 DEF FileOK, Candidate, Saved
  <2> QED
    BY <2>1, <2>2
<1>11. UsersKept'
  <2>1. ASSUME NEW h \in theirs' PROVE directory'[h] = Users \/ (directory'[h].by \in Saves /\ save'[directory'[h].by].force)
    <3>1. CASE h = f
      <4>1. v = Users
        BY <1>2, <2>1, <3>1
      <4> QED
        BY <1>6, <3>1, <4>1
    <3>2. CASE h # f
      <4>1. h \in theirs /\ h \in FileNames
        BY <1>1, <1>2, <2>1, <3>2 DEF DownloadsTypeOK
      <4>2. directory[h] = Users \/ (directory[h].by \in Saves /\ save[directory[h].by].force)
        BY <4>1 DEF DownInv, UsersKept
      <4> QED
        BY <1>3, <1>6, <3>2, <4>1, <4>2
    <3> QED
      BY <3>1, <3>2
  <2> QED
    BY <2>1 DEF UsersKept
<1> QED
  BY <1>7, <1>8, <1>9, <1>10, <1>11 DEF DownInv

\* The bytes go into the new file, if its name is still that file's.
LEMMA Copied ==
  ASSUME DownInv, NEW j \in Saves, save[j].at = "copy", save' = [save EXCEPT ![j].at = "named"],
         directory' = [directory EXCEPT ![Candidate(j)] = IF @ = Saved(j, FALSE) THEN Saved(j, TRUE) ELSE @],
         UNCHANGED <<partFile, saved, opened, server, theirs, replaced, spoils>>
  PROVE  DownInv'
<1> DEFINE g == Candidate(j)
           i == save[j].item
<1>1. DownloadsTypeOK /\ SaveOK(j)
  BY DEF DownInv
<1>2. i \in Enclosed /\ g \in FileNames
  BY <1>1, CandidateNamed DEF Doing
<1>3. /\ Saved(j, FALSE) = [by |-> j, item |-> i, whole |-> FALSE] /\ Saved(j, TRUE) = [by |-> j, item |-> i, whole |-> TRUE]
      /\ Saved(j, TRUE) \in InFolder
  BY <1>2 DEF Saved, InFolder
<1>4. \A k \in Saves : /\ k # j => save'[k] = save[k]
                       /\ save'[k].force = save[k].force /\ save'[k].item = save[k].item
                       /\ save'[k].number = save[k].number
  BY <1>1 DEF DownloadsTypeOK
<1>5. save'[j].at = "named" /\ Candidate(j)' = g
  BY <1>1, <1>4 DEF DownloadsTypeOK, Candidate
<1>6. /\ directory'[g] = IF directory[g] = Saved(j, FALSE) THEN Saved(j, TRUE) ELSE directory[g]
      /\ \A f \in FileNames : f # g => directory'[f] = directory[f]
      /\ directory' \in [FileNames -> InFolder]
  BY <1>1, <1>2, <1>3 DEF DownloadsTypeOK
<1> HIDE DEF g, i
<1>7. DownloadsTypeOK'
  <2> DEFINE S == [at : Places, todo : SUBSET Enclosed, item : Enclosed \cup {NoAttachment},
                   number : 0 .. LastNumber, way : {"link", "rename", "create"}, force : BOOLEAN]
  <2>1. save \in [Saves -> S] /\ "named" \in Places
    BY <1>1 DEF DownloadsTypeOK, Places
  <2>2. [save[j] EXCEPT !.at = "named"] \in S
    BY <2>1
  <2>3. save' = [save EXCEPT ![j] = [save[j] EXCEPT !.at = "named"]]
    OBVIOUS
  <2> HIDE DEF S
  <2>4. save' \in [Saves -> S]
    BY <2>1, <2>2, <2>3
  <2> QED
    BY <1>1, <1>6, <2>4 DEF DownloadsTypeOK, S
<1>8. ASSUME NEW k \in Saves, NEW e \in Enclosed, NEW f \in FileNames, NEW full \in BOOLEAN,
             NameHolds(k, e, f, full), full \/ k # j
      PROVE  \/ directory'[f] = [by |-> k, item |-> e, whole |-> full]
             \/ <<k, e, f>> \in replaced'
  <2>1. CASE <<k, e, f>> \in replaced
    BY <2>1
  <2>2. CASE directory[f] = [by |-> k, item |-> e, whole |-> full]
    <3>1. directory[f].by = k /\ directory[f].whole = full
      BY <2>2
    <3>2. Saved(j, FALSE).by = j /\ Saved(j, FALSE).whole = FALSE
      BY DEF Saved
    <3>3. directory[f] # Saved(j, FALSE)
      BY <1>8, <3>1, <3>2
    <3> QED
      BY <1>6, <2>2, <3>3
  <2> QED
    BY <1>8, <2>1, <2>2 DEF NameHolds
<1>9. AnswerHolds'
  <2>1. \A k \in Saves, e \in Enclosed, f \in FileNames : NameHolds(k, e, f, TRUE) => NameHolds(k, e, f, TRUE)'
    BY <1>8 DEF NameHolds
  <2> QED
    BY <2>1, AnswersStay
<1>10. ASSUME NEW k \in Saves PROVE SaveOK(k)'
  <2>1. SaveOK(k)
    BY DEF DownInv
  <2>2. CASE k # j
    <3>1. save'[k] = save[k] /\ Candidate(k)' = Candidate(k) /\ partFile' = partFile
      BY <1>4, <2>2 DEF Candidate
    <3>2. save[k].at \in {"copy", "named"} => save[k].item \in Enclosed /\ Candidate(k) \in FileNames
      BY <1>1, <2>1, CandidateNamed DEF Doing
    <3>3. /\ save[k].at = "copy" => \/ directory'[Candidate(k)] = [by |-> k, item |-> save[k].item, whole |-> FALSE]
                                    \/ <<k, save[k].item, Candidate(k)>> \in replaced'
          /\ save[k].at = "named" => \/ directory'[Candidate(k)] = [by |-> k, item |-> save[k].item, whole |-> TRUE]
                                     \/ <<k, save[k].item, Candidate(k)>> \in replaced'
      BY <1>8, <2>1, <2>2, <3>2 DEF SaveOK
    <3> QED
      BY <2>1, <3>1, <3>3 DEF SaveOK, NameHolds
  <2>3. CASE k = j
    <3>1. directory[g] = [by |-> j, item |-> i, whole |-> FALSE] \/ <<j, i, g>> \in replaced
      BY <1>1 DEF SaveOK, NameHolds, g, i
    <3>2. directory'[g] = [by |-> j, item |-> i, whole |-> TRUE] \/ <<j, i, g>> \in replaced'
      BY <1>3, <1>6, <3>1
    <3>3. save'[j].item = i /\ save'[j].at = "named" /\ Candidate(j)' = g
      BY <1>4, <1>5 DEF i
    <3> QED
      BY <1>2, <2>3, <3>2, <3>3 DEF SaveOK, NameHolds
  <2> QED
    BY <2>2, <2>3
<1>11. ASSUME NEW f \in FileNames PROVE FileOK(f)'
  <2>1. FileOK(f)
    BY DEF DownInv
  <2>2. \A k \in Saves : k # j => save'[k] = save[k] /\ Candidate(k)' = Candidate(k)
    BY <1>4 DEF Candidate
  <2>3. \A k \in Saves : k # j => Saved(k, FALSE)' = Saved(k, FALSE)
    BY <1>4 DEF Saved
  <2>4. CASE directory[f].by = j
    <3>1. directory[f].item \in Enclosed /\ (directory[f].whole \/ (f = g /\ directory[f] = Saved(j, FALSE)))
      BY <2>1, <2>4 DEF FileOK, GaveUp, g
    <3>2. directory'[f].by = j /\ directory'[f].item \in Enclosed /\ directory'[f].whole
      <4>1. CASE f = g /\ directory[f] = Saved(j, FALSE)
        <5>1. directory'[f] = Saved(j, TRUE)
          BY <1>6, <4>1
        <5>2. Saved(j, TRUE).by = j /\ Saved(j, TRUE).item = i /\ Saved(j, TRUE).whole
          BY DEF Saved, i
        <5> QED
          BY <1>2, <5>1, <5>2
      <4>2. CASE ~(f = g /\ directory[f] = Saved(j, FALSE))
        BY <1>6, <2>4, <3>1, <4>2
      <4> QED
        BY <4>1, <4>2
    <3> QED
      BY <1>5, <3>2 DEF FileOK
  <2>5. CASE directory[f].by # j
    <3>1. directory'[f] = directory[f]
      <4>1. Saved(j, FALSE).by = j
        BY DEF Saved
      <4> QED
        BY <1>6, <2>5, <4>1
    <3> QED
      BY <2>1, <2>2, <2>3, <2>5, <3>1 DEF FileOK
  <2> QED
    BY <2>4, <2>5
<1>12. UsersKept'
  <2>1. ASSUME NEW f \in theirs PROVE directory'[f] = Users \/ (directory'[f].by \in Saves /\ save'[directory'[f].by].force)
    <3>1. f \in FileNames /\ (directory[f] = Users \/ (directory[f].by \in Saves /\ save[directory[f].by].force))
      BY <1>1 DEF DownInv, DownloadsTypeOK, UsersKept
    <3>2. Saved(j, FALSE).by = j /\ Saved(j, TRUE).by = j
      BY DEF Saved
    <3>3. directory'[f] = directory[f] \/ (directory[f].by = j /\ directory'[f].by = j)
      BY <1>6, <3>1, <3>2
    <3>4. Users.by \notin Saves
      BY DownloadsAssumption DEF DownloadsAssumption, Users
    <3> QED
      BY <1>4, <3>1, <3>3, <3>4
  <2> QED
    BY <2>1 DEF UsersKept
<1> QED
  BY <1>7, <1>9, <1>10, <1>11, <1>12 DEF DownInv


\* A step of one request's own that leaves the directory as it is.
LEMMA OwnStep ==
  ASSUME DownInv, NEW j \in Saves, NEW r, save' = [save EXCEPT ![j] = r],
         r \in [at : Places, todo : SUBSET Enclosed, item : Enclosed \cup {NoAttachment},
                number : 0 .. LastNumber, way : {"link", "rename", "create"}, force : BOOLEAN],
         r.force = save[j].force \/ save[j].at = "idle",
         r.at \in (Doing \cup {"open", "fetch", "done", "opened", "failed"}) \ {"copy", "named"},
         r.at \in Doing => r.item \in Enclosed,
         r.at = "place" => partFile'[j] = "whole",
         save[j].at \in GaveUp \cup {"copy"} => r.at \in GaveUp,
         UNCHANGED <<directory, theirs, replaced>>,
         partFile' \in [Saves -> {"none", "half", "whole"}],
         \A k \in Saves : k # j => partFile'[k] = partFile[k],
         server' = server, spoils' \in 0 .. MaxSpoils,
         saved' \in [Saves -> SUBSET (Enclosed \X FileNames)], opened' \in [Saves -> InFolder], AnswerHolds'
  PROVE  DownInv'
<1> DEFINE S == [at : Places, todo : SUBSET Enclosed, item : Enclosed \cup {NoAttachment},
                 number : 0 .. LastNumber, way : {"link", "rename", "create"}, force : BOOLEAN]
<1>1. DownloadsTypeOK /\ save \in [Saves -> S] /\ r \in S
  BY DEF DownInv, DownloadsTypeOK
<1> HIDE DEF S
<1>2. save' \in [Saves -> S] /\ save'[j] = r /\ \A k \in Saves : k # j => save'[k] = save[k]
  BY <1>1
<1>3. DownloadsTypeOK'
  BY <1>1, <1>2 DEF DownloadsTypeOK, S
<1>4. ASSUME NEW k \in Saves PROVE MovesOn(k)
  <2>1. SaveOK(k)
    BY DEF DownInv
  <2>2. CASE k = j
    BY <1>2, <2>2 DEF MovesOn, Doing, GaveUp
  <2>3. CASE k # j
    BY <1>2, <2>1, <2>3 DEF MovesOn, SaveOK
  <2> QED
    BY <2>2, <2>3
<1>5. UsersKept' /\ (\A k \in Saves : SaveOK(k)') /\ (\A f \in FileNames : FileOK(f)')
  BY <1>4, DirectoryStays
<1> QED
  BY <1>3, <1>5 DEF DownInv

LEMMA AnswersAlone ==
  ASSUME DownInv, UNCHANGED <<directory, replaced, saved, opened>>
  PROVE  AnswerHolds'
BY DEF DownInv, AnswerHolds

LEMMA Stepping ==
  ASSUME DownloadsTypeOK, NEW j \in Saves, NEW place \in Places
  PROVE  /\ [save[j] EXCEPT !.at = place] \in
              [at : Places, todo : SUBSET Enclosed, item : Enclosed \cup {NoAttachment},
               number : 0 .. LastNumber, way : {"link", "rename", "create"}, force : BOOLEAN]
         /\ [save[j] EXCEPT !.at = place].force = save[j].force /\ [save[j] EXCEPT !.at = place].item = save[j].item
         /\ [save[j] EXCEPT !.at = place].at = place
<1>1. save[j] \in [at : Places, todo : SUBSET Enclosed, item : Enclosed \cup {NoAttachment},
                   number : 0 .. LastNumber, way : {"link", "rename", "create"}, force : BOOLEAN]
  BY DEF DownloadsTypeOK
<1> QED
  BY <1>1

LEMMA Reaching ==
  ASSUME DownInv, NEW j \in Saves, NEW place \in (Doing \cup {"open", "fetch", "done", "opened", "failed"}) \ {"copy", "named"},
         Reach(j, place), place \in Doing => save[j].at \in Doing, place = "place" => partFile'[j] = "whole",
         save[j].at \in GaveUp \cup {"copy"} => place \in GaveUp,
         UNCHANGED <<directory, theirs, replaced, server>>,
         partFile' \in [Saves -> {"none", "half", "whole"}],
         \A k \in Saves : k # j => partFile'[k] = partFile[k],
         spoils' \in 0 .. MaxSpoils,
         saved' \in [Saves -> SUBSET (Enclosed \X FileNames)], opened' \in [Saves -> InFolder], AnswerHolds'
  PROVE  DownInv'
<1> DEFINE r == [save[j] EXCEPT !.at = place]
<1>1. DownloadsTypeOK /\ SaveOK(j) /\ place \in Places
  BY DEF DownInv, Doing, Places, Ended
<1>2. /\ r \in [at : Places, todo : SUBSET Enclosed, item : Enclosed \cup {NoAttachment},
                number : 0 .. LastNumber, way : {"link", "rename", "create"}, force : BOOLEAN]
      /\ r.force = save[j].force /\ r.item = save[j].item /\ r.at = place
  BY <1>1, Stepping
<1>3. save' = [save EXCEPT ![j] = r]
  BY DEF Reach
<1>4. r.at \in Doing => r.item \in Enclosed
  BY <1>1, <1>2 DEF SaveOK
<1>5. r.at \in (Doing \cup {"open", "fetch", "done", "opened", "failed"}) \ {"copy", "named"}
  BY <1>2
<1>6. (r.at = "place" => partFile'[j] = "whole") /\ (save[j].at \in GaveUp \cup {"copy"} => r.at \in GaveUp)
  BY <1>2
<1>7. UNCHANGED <<directory, theirs, replaced>> /\ server' = server
  OBVIOUS
<1> HIDE DEF r
<1> QED
  BY <1>2, <1>3, <1>4, <1>5, <1>6, <1>7, OwnStep

LEMMA SpoilsCounted == ASSUME DownloadsTypeOK, Spoil \/ Well PROVE spoils' \in 0 .. MaxSpoils
BY DownloadsAssumption DEF DownloadsAssumption, DownloadsTypeOK, Spoil, Well

LEMMA Asking ==
  ASSUME DownInv, NEW j \in Saves, AskSave(j) \/ OpenDir(j) \/ AnswerSave(j)
  PROVE  DownInv'
<1>1. DownloadsTypeOK
  BY DEF DownInv
<1>2. UNCHANGED <<directory, partFile, saved, opened, server, theirs, replaced>> /\ spoils' \in 0 .. MaxSpoils
  BY <1>1, SpoilsCounted DEF AskSave, OpenDir, AnswerSave, Well
<1>3. /\ AnswerHolds' /\ partFile' \in [Saves -> {"none", "half", "whole"}] /\ partFile' = partFile
      /\ saved' \in [Saves -> SUBSET (Enclosed \X FileNames)] /\ opened' \in [Saves -> InFolder]
  BY <1>1, <1>2, AnswersAlone DEF DownloadsTypeOK
<1>4. CASE \E place \in {"fetch", "failed", "done"} : Reach(j, place) /\ save[j].at \in {"idle", "open", "fetch"}
  <2>1. PICK place \in {"fetch", "failed", "done"} : Reach(j, place) /\ save[j].at \in {"idle", "open", "fetch"}
    BY <1>4
  <2>2. /\ place \in (Doing \cup {"open", "fetch", "done", "opened", "failed"}) \ {"copy", "named"}
        /\ place \notin Doing /\ save[j].at \notin GaveUp \cup {"copy"} /\ place # "place"
    BY <2>1 DEF Doing, GaveUp
  <2> QED
    BY <1>2, <1>3, <2>1, <2>2, Reaching
<1>5. ASSUME NEW chosen \in SUBSET Enclosed, NEW force \in BOOLEAN, save[j].at = "idle",
             save' = [save EXCEPT ![j] = AtItem("open", chosen, NoAttachment, force)]
      PROVE  DownInv'
  <2> DEFINE r == AtItem("open", chosen, NoAttachment, force)
  <2>1. /\ r \in [at : Places, todo : SUBSET Enclosed, item : Enclosed \cup {NoAttachment},
                  number : 0 .. LastNumber, way : {"link", "rename", "create"}, force : BOOLEAN]
        /\ r.at = "open"
    BY DownloadsAssumption DEF DownloadsAssumption, Places, AtItem
  <2>2. save' = [save EXCEPT ![j] = r]
    BY <1>5
  <2> HIDE DEF r
  <2>3. /\ r.at \in (Doing \cup {"open", "fetch", "done", "opened", "failed"}) \ {"copy", "named"}
        /\ r.at \notin Doing /\ save[j].at \notin GaveUp \cup {"copy"} /\ r.at # "place"
    BY <1>5, <2>1 DEF Doing, GaveUp
  <2>4. UNCHANGED <<directory, theirs, replaced>> /\ server' = server
    BY <1>2
  <2>5. /\ r.force = save[j].force \/ save[j].at = "idle"
        /\ r.at \in Doing => r.item \in Enclosed
        /\ r.at = "place" => partFile'[j] = "whole"
        /\ save[j].at \in GaveUp \cup {"copy"} => r.at \in GaveUp
    BY <1>5, <2>3
  <2> QED
    BY <1>2, <1>3, <2>1, <2>2, <2>3, <2>4, <2>5, OwnStep
<1>6. CASE AskSave(j)
  BY <1>4, <1>5, <1>6 DEF AskSave
<1>7. CASE OpenDir(j) \/ AnswerSave(j)
  BY <1>4, <1>7 DEF OpenDir, AnswerSave
<1> QED
  BY <1>6, <1>7

LEMMA Fetching ==
  ASSUME DownInv, NEW j \in Saves, NEW i \in Enclosed, FetchNext(j, i)
  PROVE  DownInv'
<1>1. DownloadsTypeOK /\ save[j].at = "fetch"
  BY DEF DownInv, FetchNext
<1>2. UNCHANGED <<directory, partFile, saved, opened, server, theirs, replaced>> /\ spoils' \in 0 .. MaxSpoils
  BY <1>1, SpoilsCounted DEF FetchNext
<1>3. /\ AnswerHolds' /\ partFile' \in [Saves -> {"none", "half", "whole"}] /\ partFile' = partFile
      /\ saved' \in [Saves -> SUBSET (Enclosed \X FileNames)] /\ opened' \in [Saves -> InFolder]
  BY <1>1, <1>2, AnswersAlone DEF DownloadsTypeOK
<1>4. CASE Reach(j, "failed")
  <2>1. /\ "failed" \in (Doing \cup {"open", "fetch", "done", "opened", "failed"}) \ {"copy", "named"}
        /\ "failed" \notin Doing /\ save[j].at \notin GaveUp \cup {"copy"}
    BY <1>1 DEF Doing, GaveUp
  <2> QED
    BY <1>2, <1>3, <1>4, <2>1, Reaching
<1>5. CASE save' = [save EXCEPT ![j] = AtItem("part", save[j].todo \ {i}, i, save[j].force)]
  <2> DEFINE r == AtItem("part", save[j].todo \ {i}, i, save[j].force)
  <2>1. save[j].todo \in SUBSET Enclosed /\ save[j].force \in BOOLEAN
    BY <1>1 DEF DownloadsTypeOK
  <2>2. /\ r \in [at : Places, todo : SUBSET Enclosed, item : Enclosed \cup {NoAttachment},
                  number : 0 .. LastNumber, way : {"link", "rename", "create"}, force : BOOLEAN]
        /\ r.at = "part" /\ r.force = save[j].force /\ r.item \in Enclosed
    BY <2>1, DownloadsAssumption DEF DownloadsAssumption, Places, AtItem
  <2>3. save' = [save EXCEPT ![j] = r]
    BY <1>5
  <2> HIDE DEF r
  <2>4. /\ r.at \in (Doing \cup {"open", "fetch", "done", "opened", "failed"}) \ {"copy", "named"}
        /\ save[j].at \notin GaveUp \cup {"copy"} /\ r.at # "place"
    BY <1>1, <2>2 DEF Doing, GaveUp
  <2>5. UNCHANGED <<directory, theirs, replaced>> /\ server' = server
    BY <1>2
  <2> QED
    BY <1>2, <1>3, <2>2, <2>3, <2>4, <2>5, OwnStep
<1> QED
  BY <1>4, <1>5 DEF FetchNext

LEMMA Opening ==
  ASSUME DownInv, NEW j \in Saves, OpenSaved(j)
  PROVE  DownInv'
<1>1. DownloadsTypeOK /\ AnswerHolds
  BY DEF DownInv
<1>2. PICK s \in saved[j] : opened' = [opened EXCEPT ![j] = directory[s[2]]]
  BY DEF OpenSaved
<1>3. /\ UNCHANGED <<directory, partFile, saved, server, theirs, replaced, spoils>> /\ Reach(j, "opened")
      /\ save[j].at = "done"
  BY DEF OpenSaved
<1>4. s \in Enclosed \X FileNames /\ s[2] \in FileNames
  BY <1>1 DEF DownloadsTypeOK
<1>5. opened' \in [Saves -> InFolder] /\ opened'[j] = directory[s[2]] /\ \A k \in Saves : k # j => opened'[k] = opened[k]
  BY <1>1, <1>2, <1>4 DEF DownloadsTypeOK
<1>6. AnswerHolds'
  <2>1. ASSUME NEW k \in Saves
        PROVE  /\ \A t \in saved'[k] : \/ directory'[t[2]] = [by |-> k, item |-> t[1], whole |-> TRUE]
                                       \/ <<k, t[1], t[2]>> \in replaced'
               /\ \/ opened'[k] = FreeName
                  \/ \E t \in saved'[k] : \/ opened'[k] = [by |-> k, item |-> t[1], whole |-> TRUE]
                                          \/ <<k, t[1], t[2]>> \in replaced'
    <3>1. /\ \A t \in saved[k] : \/ directory[t[2]] = [by |-> k, item |-> t[1], whole |-> TRUE]
                                 \/ <<k, t[1], t[2]>> \in replaced
          /\ \/ opened[k] = FreeName
             \/ \E t \in saved[k] : \/ opened[k] = [by |-> k, item |-> t[1], whole |-> TRUE]
                                    \/ <<k, t[1], t[2]>> \in replaced
      BY <1>1 DEF AnswerHolds
    <3>2. saved' = saved /\ directory' = directory /\ replaced' = replaced
      BY <1>3
    <3>3. CASE k = j
      <4>1. opened'[k] = [by |-> k, item |-> s[1], whole |-> TRUE] \/ <<k, s[1], s[2]>> \in replaced
        BY <1>2, <1>5, <3>1, <3>3
      <4> QED
        BY <1>2, <3>1, <3>2, <3>3, <4>1
    <3>4. CASE k # j
      BY <1>5, <3>1, <3>2, <3>4
    <3> QED
      BY <3>3, <3>4
  <2> QED
    BY <2>1 DEF AnswerHolds
<1>7. /\ "opened" \in (Doing \cup {"open", "fetch", "done", "opened", "failed"}) \ {"copy", "named"}
      /\ "opened" \notin Doing /\ save[j].at \notin GaveUp \cup {"copy"}
  BY <1>3 DEF Doing, GaveUp
<1>8. /\ partFile' \in [Saves -> {"none", "half", "whole"}] /\ partFile' = partFile /\ spoils' \in 0 .. MaxSpoils
      /\ saved' \in [Saves -> SUBSET (Enclosed \X FileNames)] /\ UNCHANGED <<directory, theirs, replaced, server>>
  BY <1>1, <1>3 DEF DownloadsTypeOK
<1> QED
  BY <1>3, <1>5, <1>6, <1>7, <1>8, Reaching

LEMMA WritingOn ==
  ASSUME DownInv, NEW j \in Saves,
         WritePart(j) \/ (NextNumber(j) /\ Reach(j, "failing")) \/ (NextWay(j) /\ Reach(j, "failing"))
         \/ (PlaceForced(j) /\ Reach(j, "failing") /\ UNCHANGED <<directory, replaced, partFile>>)
         \/ (CopyBytes(j) /\ Reach(j, "failing") /\ UNCHANGED directory)
  PROVE  DownInv'
<1>1. DownloadsTypeOK
  BY DEF DownInv
<1>2. UNCHANGED <<directory, saved, opened, server, theirs, replaced>> /\ spoils' \in 0 .. MaxSpoils
  BY <1>1, SpoilsCounted DEF WritePart, NextNumber, NextWay, PlaceForced, CopyBytes, Well
<1>3. partFile' = partFile \/ \E way \in {"none", "half", "whole"} : partFile' = [partFile EXCEPT ![j] = way]
  BY DEF WritePart, NextNumber, NextWay, PlaceForced, CopyBytes
<1>4. partFile' \in [Saves -> {"none", "half", "whole"}] /\ \A k \in Saves : k # j => partFile'[k] = partFile[k]
  BY <1>1, <1>3 DEF DownloadsTypeOK
<1>5. AnswerHolds' /\ saved' \in [Saves -> SUBSET (Enclosed \X FileNames)] /\ opened' \in [Saves -> InFolder]
  BY <1>1, <1>2, AnswersAlone DEF DownloadsTypeOK
<1>6. PICK place \in {"fill", "place", "failed", "failing"} :
        Reach(j, place) /\ save[j].at \in {"part", "fill", "place", "copy"}
        /\ (place = "place" => partFile' = [partFile EXCEPT ![j] = "whole"])
        /\ (save[j].at = "copy" => place = "failing")
  BY DEF WritePart, NextNumber, NextWay, PlaceForced, CopyBytes
<1>7. /\ place \in (Doing \cup {"open", "fetch", "done", "opened", "failed"}) \ {"copy", "named"}
      /\ save[j].at \in Doing /\ (save[j].at \in GaveUp \cup {"copy"} => place \in GaveUp)
      /\ (place = "place" => partFile'[j] = "whole")
  BY <1>1, <1>6 DEF Doing, GaveUp, DownloadsTypeOK
<1>8. UNCHANGED <<directory, theirs, replaced, server>>
  BY <1>2
<1> QED
  BY <1>2, <1>4, <1>5, <1>6, <1>7, <1>8, Reaching

LEMMA Trying ==
  ASSUME DownInv, NEW j \in Saves, NextNumber(j) \/ NextWay(j)
  PROVE  DownInv'
<1>1. DownloadsTypeOK /\ SaveOK(j) /\ save[j].at = "place"
  BY DEF DownInv, NextNumber, NextWay
<1> DEFINE S == [at : Places, todo : SUBSET Enclosed, item : Enclosed \cup {NoAttachment},
                 number : 0 .. LastNumber, way : {"link", "rename", "create"}, force : BOOLEAN]
<1>2. UNCHANGED <<directory, partFile, saved, opened, server, theirs, replaced>> /\ spoils' \in 0 .. MaxSpoils
  BY <1>1, SpoilsCounted DEF NextNumber, NextWay, Well
<1>3. /\ AnswerHolds' /\ partFile' \in [Saves -> {"none", "half", "whole"}] /\ partFile' = partFile
      /\ saved' \in [Saves -> SUBSET (Enclosed \X FileNames)] /\ opened' \in [Saves -> InFolder]
  BY <1>1, <1>2, AnswersAlone DEF DownloadsTypeOK
<1>4. save[j] \in S /\ partFile'[j] = "whole" /\ save[j].item \in Enclosed
  BY <1>1, <1>3 DEF SaveOK, DownloadsTypeOK, Doing
<1>5. ASSUME NEW r \in S, save' = [save EXCEPT ![j] = r], r.at = "place", r.force = save[j].force, r.item = save[j].item
      PROVE  DownInv'
  <2>1. /\ r.at \in (Doing \cup {"open", "fetch", "done", "opened", "failed"}) \ {"copy", "named"}
        /\ r.at \in Doing => r.item \in Enclosed
        /\ save[j].at \notin GaveUp \cup {"copy"}
    BY <1>1, <1>4, <1>5 DEF Doing, GaveUp
  <2>2. UNCHANGED <<directory, theirs, replaced>> /\ server' = server
    BY <1>2
  <2> QED
    BY <1>2, <1>3, <1>4, <1>5, <2>1, <2>2, OwnStep
<1>6. CASE NextNumber(j) /\ save[j].number < LastNumber
  <2> DEFINE r == [save[j] EXCEPT !.number = save[j].number + 1]
  <2>1. r \in S /\ r.at = "place" /\ r.force = save[j].force /\ r.item = save[j].item
    BY <1>1, <1>4, <1>6, DownloadsAssumption DEF DownloadsAssumption
  <2>2. save' = [save EXCEPT ![j] = r]
    BY <1>6 DEF NextNumber
  <2> HIDE DEF r
  <2> QED
    BY <1>5, <2>1, <2>2
<1>7. CASE NextWay(j) /\ save[j].way \in {"link", "rename"}
  <2>1. PICK way \in {"rename", "create"} : save' = [save EXCEPT ![j].way = way]
    BY <1>7 DEF NextWay
  <2> DEFINE r == [save[j] EXCEPT !.way = way]
  <2>2. r \in S /\ r.at = "place" /\ r.force = save[j].force /\ r.item = save[j].item
    BY <1>1, <1>4
  <2>3. save' = [save EXCEPT ![j] = r]
    BY <2>1
  <2> HIDE DEF r
  <2> QED
    BY <1>5, <2>2, <2>3
<1>8. CASE Reach(j, "failing")
  BY <1>8, WritingOn
<1> QED
  BY <1>6, <1>7, <1>8 DEF NextNumber, NextWay

LEMMA Removing ==
  ASSUME DownInv, NEW j \in Saves, RemovePart(j)
  PROVE  DownInv'
<1> DEFINE done == <<save[j].item, Candidate(j)>>
<1>1. DownloadsTypeOK /\ AnswerHolds /\ SaveOK(j)
  BY DEF DownInv
<1>2. /\ UNCHANGED <<directory, opened, server, theirs, replaced>> /\ spoils' \in 0 .. MaxSpoils
      /\ save[j].at \in {"named", "failing"}
  BY <1>1, SpoilsCounted DEF RemovePart, Well
<1>3. partFile' \in [Saves -> {"none", "half", "whole"}] /\ \A k \in Saves : k # j => partFile'[k] = partFile[k]
  BY <1>1 DEF RemovePart, DownloadsTypeOK
<1>4. CASE save[j].at = "named"
  <2>1. saved' = [saved EXCEPT ![j] = @ \cup {done}] /\ Reach(j, "fetch")
    BY <1>4 DEF RemovePart
  <2>2. done \in Enclosed \X FileNames /\ done[1] = save[j].item /\ done[2] = Candidate(j)
    BY <1>1, <1>4, CandidateNamed DEF Doing
  <2>3. directory[done[2]] = [by |-> j, item |-> done[1], whole |-> TRUE] \/ <<j, done[1], done[2]>> \in replaced
    BY <1>1, <1>4, <2>2 DEF SaveOK, NameHolds
  <2> HIDE DEF done
  <2>4. /\ saved' \in [Saves -> SUBSET (Enclosed \X FileNames)] /\ saved'[j] = saved[j] \cup {done}
        /\ \A k \in Saves : k # j => saved'[k] = saved[k]
    BY <1>1, <2>1, <2>2 DEF DownloadsTypeOK
  <2>5. AnswerHolds'
    <3>1. ASSUME NEW k \in Saves, NEW t \in saved'[k]
          PROVE  directory'[t[2]] = [by |-> k, item |-> t[1], whole |-> TRUE] \/ <<k, t[1], t[2]>> \in replaced'
      BY <1>1, <1>2, <2>3, <2>4, <3>1 DEF AnswerHolds
    <3>2. ASSUME NEW k \in Saves
          PROVE  \/ opened'[k] = FreeName
                 \/ \E t \in saved'[k] : \/ opened'[k] = [by |-> k, item |-> t[1], whole |-> TRUE]
                                         \/ <<k, t[1], t[2]>> \in replaced'
      <4>1. /\ saved[k] \subseteq saved'[k] /\ opened' = opened /\ replaced' = replaced
        BY <1>2, <2>4
      <4> QED
        BY <1>1, <4>1 DEF AnswerHolds
    <3> QED
      BY <3>1, <3>2 DEF AnswerHolds
  <2>6. /\ "fetch" \in (Doing \cup {"open", "fetch", "done", "opened", "failed"}) \ {"copy", "named"}
        /\ "fetch" \notin Doing /\ save[j].at \notin GaveUp \cup {"copy"}
    BY <1>4 DEF Doing, GaveUp
  <2>7. opened' \in [Saves -> InFolder] /\ UNCHANGED <<directory, theirs, replaced, server>>
    BY <1>1, <1>2 DEF DownloadsTypeOK
  <2> QED
    BY <1>2, <1>3, <2>1, <2>4, <2>5, <2>6, <2>7, Reaching
<1>5. CASE save[j].at = "failing"
  <2>1. saved' = saved /\ Reach(j, "failed")
    BY <1>5 DEF RemovePart
  <2>2. AnswerHolds' /\ saved' \in [Saves -> SUBSET (Enclosed \X FileNames)] /\ opened' \in [Saves -> InFolder]
    BY <1>1, <1>2, <2>1, AnswersAlone DEF DownloadsTypeOK
  <2>3. /\ "failed" \in (Doing \cup {"open", "fetch", "done", "opened", "failed"}) \ {"copy", "named"}
        /\ "failed" \notin Doing /\ "failed" \in GaveUp
    BY DEF Doing, GaveUp
  <2>4. UNCHANGED <<directory, theirs, replaced, server>>
    BY <1>2
  <2> QED
    BY <1>2, <1>3, <2>1, <2>2, <2>3, <2>4, Reaching
<1> QED
  BY <1>2, <1>4, <1>5

LEMMA Placing ==
  ASSUME DownInv, NEW j \in Saves, PlaceForced(j) \/ PlaceFile(j) \/ CopyBytes(j)
  PROVE  DownInv'
<1>1. DownloadsTypeOK /\ SaveOK(j)
  BY DEF DownInv
<1>2. /\ UNCHANGED <<saved, opened, server, theirs>> /\ spoils' \in 0 .. MaxSpoils
      /\ partFile' \in [Saves -> {"none", "half", "whole"}] /\ \A k \in Saves : k # j => partFile'[k] = partFile[k]
  BY <1>1, SpoilsCounted DEF PlaceForced, PlaceFile, CopyBytes, Well, DownloadsTypeOK
<1>3. CASE PlaceForced(j) /\ Reach(j, "named")
  <2>1. CASE directory' = [directory EXCEPT ![Candidate(j)] = Saved(j, partFile[j] = "whole")]
             /\ replaced' = replaced \cup LostWith(Candidate(j))
    <3>1. save[j].at = "place" /\ save[j].force /\ partFile[j] = "whole"
      BY <1>1, <1>3 DEF PlaceForced, SaveOK
    <3>2. Saved(j, partFile[j] = "whole") = Saved(j, "named" = "named")
      BY <3>1 DEF Saved
    <3>3. directory' = [directory EXCEPT ![Candidate(j)] = Saved(j, "named" = "named")]
      BY <2>1, <3>2
    <3>4. save' = [save EXCEPT ![j].at = "named"] /\ "named" \in {"copy", "named"}
      BY <1>3 DEF Reach
    <3> QED
      BY <1>2, <2>1, <3>1, <3>3, <3>4, Placed
  <2>2. CASE Reach(j, "failing") /\ UNCHANGED <<directory, replaced, partFile>>
    BY <1>3, <2>2, WritingOn
  <2> QED
    BY <1>3, <2>1, <2>2 DEF PlaceForced
<1>4. CASE PlaceFile(j)
  <2> DEFINE place == IF save[j].way = "create" THEN "copy" ELSE "named"
  <2>1. save[j].at = "place" /\ directory[Candidate(j)] = FreeName /\ partFile[j] = "whole"
    BY <1>1, <1>4 DEF PlaceFile, SaveOK
  <2>2. LostWith(Candidate(j)) = {}
    BY <2>1, DownloadsAssumption DEF DownloadsAssumption, LostWith, FreeName
  <2>3. replaced' = replaced \cup LostWith(Candidate(j))
    BY <1>4, <2>2 DEF PlaceFile
  <2>4. Saved(j, save[j].way # "create" /\ partFile[j] = "whole") = Saved(j, place = "named")
    BY <2>1 DEF Saved
  <2>5. directory' = [directory EXCEPT ![Candidate(j)] = Saved(j, place = "named")]
    BY <1>4, <2>4 DEF PlaceFile
  <2>6. save' = [save EXCEPT ![j].at = place] /\ place \in {"copy", "named"}
    BY <1>4 DEF PlaceFile, Reach
  <2> HIDE DEF place
  <2> QED
    BY <1>2, <2>1, <2>3, <2>5, <2>6, Placed
<1>5. CASE CopyBytes(j)
  <2>1. CASE Reach(j, "failing") /\ UNCHANGED directory
    BY <1>5, <2>1, WritingOn
  <2>2. CASE /\ Reach(j, "named") /\ Well
             /\ directory' = [directory EXCEPT ![Candidate(j)] = IF @ = Saved(j, FALSE) THEN Saved(j, TRUE) ELSE @]
    <3>1. save[j].at = "copy" /\ save' = [save EXCEPT ![j].at = "named"]
          /\ UNCHANGED <<partFile, saved, opened, server, theirs, replaced, spoils>>
      BY <1>5, <2>2 DEF CopyBytes, Reach, Well
    <3> QED
      BY <2>2, <3>1, Copied
  <2> QED
    BY <1>5, <2>1, <2>2 DEF CopyBytes
<1>6. CASE PlaceForced(j) /\ Reach(j, "failing") /\ UNCHANGED <<directory, replaced, partFile>>
  BY <1>6, WritingOn
<1> QED
  BY <1>3, <1>4, <1>5, <1>6 DEF PlaceForced

LEMMA DaemonOrPhone ==
  ASSUME DownInv, StopSaving \/ \E i \in Enclosed : PhoneRemoves(i)
  PROVE  DownInv'
<1>1. DownloadsTypeOK
  BY DEF DownInv
<1>2. UNCHANGED <<directory, partFile, saved, opened, theirs, replaced>> /\ spoils' \in 0 .. MaxSpoils /\ server' \subseteq Enclosed
  BY <1>1, SpoilsCounted DEF StopSaving, PhoneRemoves, DownloadsTypeOK
<1> DEFINE S == [at : Places, todo : SUBSET Enclosed, item : Enclosed \cup {NoAttachment},
                 number : 0 .. LastNumber, way : {"link", "rename", "create"}, force : BOOLEAN]
<1>3. ASSUME NEW k \in Saves
      PROVE  save'[k] = save[k] \/ (save'[k] = [save[k] EXCEPT !.at = "stopped"] /\ save[k].at # "idle")
  BY DEF StopSaving, PhoneRemoves, Ended
<1>4. ASSUME NEW k \in Saves
      PROVE  /\ [save[k] EXCEPT !.at = "stopped"] \in S
             /\ [save[k] EXCEPT !.at = "stopped"].force = save[k].force /\ [save[k] EXCEPT !.at = "stopped"].at = "stopped"
  <2>1. "stopped" \in Places
    BY DEF Places, Ended
  <2> QED
    BY <1>1, <2>1, Stepping
<1>5. save' \in [Saves -> S]
  <2>1. save' = save \/ save' = [k \in Saves |-> IF save[k].at \in Ended THEN save[k] ELSE [save[k] EXCEPT !.at = "stopped"]]
    BY DEF StopSaving, PhoneRemoves
  <2>2. save \in [Saves -> S]
    BY <1>1 DEF DownloadsTypeOK
  <2> HIDE DEF S
  <2> QED
    BY <1>4, <2>1, <2>2
<1>6. DownloadsTypeOK'
  BY <1>1, <1>2, <1>5 DEF DownloadsTypeOK
<1>7. ASSUME NEW k \in Saves PROVE MovesOn(k)
  <2>1. SaveOK(k) /\ partFile'[k] = partFile[k]
    BY <1>2 DEF DownInv
  <2>2. CASE save'[k] = save[k]
    BY <2>1, <2>2 DEF MovesOn, SaveOK
  <2>3. CASE save'[k] = [save[k] EXCEPT !.at = "stopped"] /\ save[k].at # "idle"
    <3>1. save'[k].force = save[k].force /\ save'[k].at = "stopped"
      BY <1>4, <2>3
    <3> QED
      BY <3>1 DEF MovesOn, Doing, GaveUp
  <2> QED
    BY <1>3, <2>2, <2>3
<1>8. UsersKept' /\ (\A k \in Saves : SaveOK(k)') /\ (\A f \in FileNames : FileOK(f)')
  BY <1>2, <1>7, DirectoryStays
<1>9. AnswerHolds'
  BY <1>2, AnswersAlone
<1> QED
  BY <1>6, <1>8, <1>9 DEF DownInv

LEMMA DownStep == DownInv /\ [DownloadsNext]_fileVars => DownInv'
<1> SUFFICES ASSUME DownInv, [DownloadsNext]_fileVars PROVE DownInv'
  OBVIOUS
<1>1. CASE UNCHANGED fileVars
  <2>1. UNCHANGED <<directory, save, partFile, saved, opened, server, theirs, replaced, spoils>>
    BY <1>1 DEF fileVars
  <2> QED
    BY <2>1 DEF DownInv, DownloadsTypeOK, UsersKept, AnswerHolds, SaveOK, FileOK, NameHolds, Candidate, Saved
<1>2. ASSUME NEW j \in Saves, WriteFile(j) PROVE DownInv'
  BY <1>2, WritingOn, Trying, Placing, Removing DEF WriteFile
<1>3. ASSUME NEW j \in Saves, AskSave(j) \/ OpenDir(j) \/ AnswerSave(j) \/ OpenSaved(j) PROVE DownInv'
  BY <1>3, Asking, Opening
<1>4. ASSUME NEW j \in Saves, NEW i \in Enclosed, FetchNext(j, i) PROVE DownInv'
  BY <1>4, Fetching
<1>5. ASSUME NEW f \in FileNames, UserPuts(f) \/ UserRemoves(f) PROVE DownInv'
  BY <1>5, UserActs
<1>6. CASE DownloadsNext
  BY <1>2, <1>3, <1>4, <1>5, <1>6, DaemonOrPhone DEF DownloadsNext
<1> QED
  BY <1>1, <1>6

\* For any number of requests and attachments, and whatever names they
\* share: nothing of the user's is replaced but by force, and each answer
\* names whole files that are there until someone replaces them.
\* (files.rs write_new, mod.rs download.)
THEOREM DownloadsKept == DownloadsSpec => []SavedTrue
<1>1. DownInv => SavedTrue
  <2> SUFFICES ASSUME DownInv PROVE SavedTrue
    OBVIOUS
  <2>1. HalfIsTold
    BY DEF DownInv, FileOK, HalfIsTold, GaveUp
  <2> QED
    BY <2>1 DEF DownInv, SavedTrue
<1> QED
  BY <1>1, DownStart, DownStep, PTL DEF DownloadsSpec
=============================================================================
