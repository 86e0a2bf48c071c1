----------------------------- MODULE CallProofs ------------------------------
(* What the calls to Microsoft promise, for every number of callers,       *)
(* chunks, retries and faults: a request that adds runs at most once, a    *)
(* refresh neither undoes a sign-out nor loses a sign-in, a file is        *)
(* attached once per choice and a sign-in is patient; and what a           *)
(* connection to the daemon promises: a subscriber with nothing on its way *)
(* shows the cache as it is.                                               *)
EXTENDS GraphClient, Upload, DeviceCode, Connection, TLAPS

-----------------------------------------------------------------------------
(* The Graph client.                                                       *)

\* What a call may rely on where it is: under the lock, that it holds it and,
\* from the comparison on, that there is a credential; when it sends, that it
\* has a token; and what adds has not run before the call is over.
CallOK(c) ==
  /\ step[c] \in {"compare", "spend", "save"} => lock = c
  /\ step[c] \in {"spend", "save"} => file # SignedOut
  /\ step[c] = "save" => answered[c] # SignedOut
  /\ step[c] = "send" => token[c] # SignedOut
  /\ step[c] = "idle" => ran[c] = 0
  /\ Adds(c) => ran[c] <= 1 /\ (step[c] # "over" => ran[c] = 0)

\* The tokens Microsoft took are older than the newest; a refresh's answer not yet saved is the
\* newest; and what's stored is spent only while that answer waits to be saved, or is lost.
TokensOK ==
  /\ file <= issued /\ spent \subseteq 1..issued
  /\ \A c \in Callers : step[c] = "save" => answered[c] = issued /\ issued \notin spent
  /\ file \in spent /\ ~broken => \E c \in Callers : step[c] = "save" /\ lock = c

ClientOK == ClientTypeOK /\ \A c \in Callers : CallOK(c)

\* No request that adds is one the code says may run twice.
LEMMA AddsOnce ==
  ASSUME NEW r \in GraphRequests, r.effect = "adds"
  PROVE  ~r.idempotent
<1>1. update_task(TRUE) = Request("adds", FALSE) /\ update_task(FALSE) = Request("sets", TRUE)
  BY DEF update_task, Request
<1>2. r \in {Request("sets", TRUE), Request("removes", TRUE), Request("adds", FALSE)}
  BY <1>1 DEF GraphRequests, get_task, create_task, delete_task, create_list, update_list,
              delete_list, create_category, update_category, delete_category, create_extension,
              replace_extension, delete_extension, create_child, update_child, delete_child,
              write_raw
<1>3. r = Request("adds", FALSE)
  BY <1>2 DEF Request
<1>4. Request("adds", FALSE).idempotent = FALSE
  BY DEF Request
<1> QED
  BY <1>3, <1>4

LEMMA ClientStarts == ClientInit => ClientOK
<1> SUFFICES ASSUME ClientInit PROVE ClientOK
  OBVIOUS
<1>1. get_task \in GraphRequests /\ get_task.effect # "adds"
  BY DEF GraphRequests, get_task, Request
<1>2. ClientTypeOK
  <2>1. broken \in BOOLEAN /\ refreshed \in [Callers -> BOOLEAN]
    BY DEF ClientInit
  <2>2. request \in [Callers -> GraphRequests]
    BY <1>1 DEF ClientInit
  <2> QED
    BY <2>1, <2>2, ClientAssumption DEF ClientInit, ClientTypeOK, SignedOut
<1>3. ASSUME NEW c \in Callers PROVE CallOK(c)
  BY <1>1 DEF ClientInit, CallOK, Adds
<1> QED
  BY <1>2, <1>3 DEF ClientOK

\* Where only c's call moves, the others keep what they rely on, if it takes
\* the lock or changes the credential only where it may.
Aside(c) ==
  \A d \in Callers \ {c} :
    /\ request'[d] = request[d] /\ step'[d] = step[d] /\ token'[d] = token[d]
    /\ answered'[d] = answered[d] /\ ran'[d] = ran[d]
    /\ lock = d => lock' = d /\ file' = file

LEMMA OthersKept ==
  ASSUME ClientOK, NEW c \in Callers, NEW d \in Callers \ {c}, Aside(c)
  PROVE  CallOK(d)'
BY DEF ClientOK, CallOK, Adds, Aside

\* Each action keeps the types, and the call it moves what it relies on.
LEMMA ByBeginRequest ==
  ASSUME ClientOK, NEW c \in Callers, BeginRequest(c)
  PROVE  ClientTypeOK' /\ CallOK(c)'
<1>1. PICK r \in GraphRequests : request' = [request EXCEPT ![c] = r]
  BY DEF BeginRequest
<1>2. ClientTypeOK'
  BY <1>1 DEF BeginRequest, ClientOK, ClientTypeOK, credential, Calm, Return, Go
<1>3. ran[c] = 0 /\ ran'[c] = 0
  BY DEF BeginRequest, ClientOK, CallOK
<1>4. /\ step'[c] \in {"over", "send", "lock"} /\ (step'[c] # "over" => token'[c] # SignedOut)
  BY DEF BeginRequest, ClientOK, ClientTypeOK, Return, Go
<1> QED
  BY <1>2, <1>3, <1>4 DEF CallOK

LEMMA ByTakeLock ==
  ASSUME ClientOK, NEW c \in Callers, TakeLock(c)
  PROVE  ClientTypeOK' /\ CallOK(c)'
<1>1. ClientTypeOK'
  BY DEF TakeLock, ClientOK, ClientTypeOK, Calm, Return, Go
<1>2. step'[c] \in {"compare", "over"} /\ (step'[c] = "compare" => lock' = c)
  BY DEF TakeLock, ClientOK, ClientTypeOK, Return, Go
<1>3. ran' = ran /\ request' = request /\ step[c] = "lock"
  BY DEF TakeLock
<1> QED
  BY <1>1, <1>2, <1>3 DEF CallOK, ClientOK, Adds

LEMMA ByCompareTokens ==
  ASSUME ClientOK, NEW c \in Callers, CompareTokens(c)
  PROVE  ClientTypeOK' /\ CallOK(c)'
<1>1. ClientTypeOK'
  BY DEF CompareTokens, ClientOK, ClientTypeOK, Calm, Return, Go
<1>2. /\ step'[c] \in {"over", "send", "spend"}
      /\ step'[c] = "send" => token'[c] # SignedOut
      /\ step'[c] = "spend" => file' # SignedOut /\ lock' = lock
  BY DEF CompareTokens, ClientOK, ClientTypeOK, Return, Go
<1>3. ran' = ran /\ request' = request /\ step[c] = "compare"
  BY DEF CompareTokens
<1> QED
  BY <1>1, <1>2, <1>3 DEF CallOK, ClientOK, Adds

LEMMA BySpend ==
  ASSUME ClientOK, NEW c \in Callers, Spend(c)
  PROVE  ClientTypeOK' /\ CallOK(c)'
<1>1. file # SignedOut /\ lock = c
  BY DEF Spend, ClientOK, CallOK
<1>2. ClientTypeOK'
  <2> USE ClientAssumption
  <2>0. /\ file \in 1..MaxTokens /\ issued \in 1..MaxTokens /\ spent \subseteq 1..MaxTokens
        /\ answered \in [Callers -> 0..MaxTokens]
    BY <1>1 DEF ClientOK, ClientTypeOK, SignedOut
  <2>a. Issue => issued + 1 \in 1..MaxTokens
    BY <2>0 DEF Issue
  <2>1. issued' \in 1..MaxTokens /\ spent' \subseteq 1..MaxTokens
    <3>1. Issue \/ UNCHANGED <<issued, spent>>
      BY DEF Spend
    <3> QED
      BY <3>1, <2>0, <2>a DEF Issue
  <2>2. answered' \in [Callers -> 0..MaxTokens]
    <3>1. (Issue /\ answered' = [answered EXCEPT ![c] = issued + 1]) \/ UNCHANGED answered
      BY DEF Spend
    <3> QED
      BY <3>1, <2>0, <2>a
  <2>3. broken' \in BOOLEAN
    BY DEF Spend, Issue, ClientOK, ClientTypeOK
  <2>4. file' \in 0..MaxTokens /\ lock' \in Callers \cup {Nobody} /\ troubles' \in 0..MaxTroubles
    BY ClientAssumption DEF Spend, ClientOK, ClientTypeOK, Calm, Trouble, SignedOut
  <2>5. step' \in [Callers -> {"idle", "lock", "compare", "spend", "save", "send", "over"}]
    BY DEF Spend, ClientOK, ClientTypeOK, Return, Go
  <2>6. UNCHANGED <<refused, request, token, attempt, refreshed, ran>>
    BY DEF Spend
  <2> QED
    BY <2>1, <2>2, <2>3, <2>4, <2>5, <2>6 DEF ClientOK, ClientTypeOK
<1>3. \/ step'[c] = "over"
      \/ step'[c] = "save" /\ answered'[c] # SignedOut /\ lock' = lock /\ file' = file
  BY ClientAssumption DEF Spend, Issue, ClientOK, ClientTypeOK, Return, Go, SignedOut
<1>4. ran' = ran /\ request' = request /\ step[c] = "spend"
  BY DEF Spend
<1> QED
  BY <1>1, <1>2, <1>3, <1>4 DEF CallOK, ClientOK, Adds

LEMMA BySaveToken ==
  ASSUME ClientOK, NEW c \in Callers, SaveToken(c)
  PROVE  ClientTypeOK' /\ CallOK(c)'
<1>1. ClientTypeOK'
  BY DEF SaveToken, Saved, ClientOK, ClientTypeOK, Calm, Go
<1>2. step'[c] = "send" /\ token'[c] = answered[c] /\ answered[c] # SignedOut
  BY DEF SaveToken, ClientOK, ClientTypeOK, CallOK, Go
<1>3. ran' = ran /\ request' = request /\ step[c] = "save"
  BY DEF SaveToken
<1> QED
  BY <1>1, <1>2, <1>3 DEF CallOK, ClientOK, Adds

LEMMA ByKilled ==
  ASSUME ClientOK, NEW c \in Callers, Killed(c)
  PROVE  ClientTypeOK' /\ CallOK(c)'
<1>1. broken' \in BOOLEAN /\ refreshed' \in [Callers -> BOOLEAN]
  BY DEF Killed, ClientOK, ClientTypeOK
<1>2. ClientTypeOK'
  BY <1>1, ClientAssumption DEF Killed, ClientOK, ClientTypeOK, Trouble, Return
<1>3. step'[c] = "over"
  BY DEF Killed, ClientOK, ClientTypeOK, Return
<1>4. ran' = ran /\ request' = request
  BY DEF Killed
<1> QED
  BY <1>2, <1>3, <1>4 DEF CallOK, ClientOK, Adds

\* Graph's answers: what adds runs only as the call ends.
LEMMA BySendCall ==
  ASSUME ClientOK, NEW c \in Callers, SendCall(c)
  PROVE  ClientTypeOK' /\ CallOK(c)'
<1> USE ClientAssumption
<1> DEFINE Returns == \/ Succeeds(c) \/ Throttled(c) \/ Transient(c) \/ Rejected(c)
                     \/ Unauthorized(c) \/ NoConnect(c) \/ NoAnswer(c)
<1>0. Returns
  BY DEF SendCall
<1>1. /\ step[c] = "send" /\ token[c] # SignedOut /\ token[c] \in 1..MaxTokens
      /\ UNCHANGED <<file, lock, issued, spent, broken, request, token, answered>>
  BY DEF SendCall, ClientOK, ClientTypeOK, CallOK, SignedOut
<1>2. troubles' \in 0..MaxTroubles
  BY <1>0 DEF ClientOK, ClientTypeOK, Calm, Trouble, Succeeds, Throttled, Transient, Rejected,
              Unauthorized, NoConnect, NoAnswer
<1>3. refused' \subseteq 1..MaxTokens
  BY <1>0, <1>1 DEF ClientOK, ClientTypeOK, Succeeds, Throttled, Transient, Rejected,
                    Unauthorized, NoConnect, NoAnswer
<1>4. refreshed' \in [Callers -> BOOLEAN]
  <2>1. refreshed' = refreshed \/ refreshed' = [refreshed EXCEPT ![c] = TRUE]
    BY <1>0 DEF Succeeds, Throttled, Transient, Rejected, Unauthorized, NoConnect, NoAnswer
  <2> QED
    BY <2>1 DEF ClientOK, ClientTypeOK
<1>5. attempt' \in [Callers -> 0..MaxRetries]
  <2>1. attempt' = attempt \/ (MayResend(c) /\ attempt' = [attempt EXCEPT ![c] = @ + 1])
    BY <1>0 DEF Succeeds, Throttled, Transient, TransientAgain, Rejected, Unauthorized, NoConnect,
                NoAnswer, Again, GiveUp
  <2> QED
    BY <2>1 DEF ClientOK, ClientTypeOK, MayResend
<1>6. /\ ran' \in [Callers -> Nat]
      /\ ran'[c] \in {ran[c], ran[c] + 1}
  <2>1. ran' = ran \/ ran' = [ran EXCEPT ![c] = @ + 1]
    BY <1>0 DEF Succeeds, Throttled, Transient, Rejected, Unauthorized, NoConnect, NoAnswer,
                Ran, DidntRun
  <2> QED
    BY <2>1 DEF ClientOK, ClientTypeOK
<1>7. /\ step' \in [Callers -> {"idle", "lock", "compare", "spend", "save", "send", "over"}]
      /\ step'[c] \in {"send", "lock", "over"}
  <2>1. \E s \in {"send", "lock", "over"} : step' = [step EXCEPT ![c] = s]
    BY <1>0 DEF Succeeds, Throttled, Transient, TransientAgain, Rejected, Unauthorized, NoConnect,
                NoAnswer, Again, GiveUp, Return, Go
  <2> QED
    BY <2>1 DEF ClientOK, ClientTypeOK
<1>8. ~Idempotent(c) /\ ran' # ran => step'[c] = "over"
  <2>1. ~Idempotent(c) /\ ran' # ran => step' = [step EXCEPT ![c] = "over"]
    BY <1>0 DEF Succeeds, Throttled, Transient, TransientAgain, Rejected, Unauthorized, NoConnect,
                NoAnswer, GiveUp, Return, DidntRun
  <2> QED
    BY <2>1 DEF ClientOK, ClientTypeOK
<1>9. ClientTypeOK'
  BY <1>1, <1>2, <1>3, <1>4, <1>5, <1>6, <1>7 DEF ClientOK, ClientTypeOK
<1>10. Adds(c) => ~Idempotent(c) /\ ran[c] = 0
  <2>1. request[c] \in GraphRequests
    BY DEF ClientOK, ClientTypeOK
  <2>2. Adds(c) => ~Idempotent(c)
    BY <2>1, AddsOnce DEF Adds, Idempotent
  <2> QED
    BY <2>2, <1>1 DEF ClientOK, CallOK
<1>11. Adds(c)' <=> Adds(c)
  BY <1>1 DEF Adds
<1>12. Adds(c)' => ran'[c] <= 1 /\ (step'[c] # "over" => ran'[c] = 0)
  BY <1>6, <1>8, <1>10, <1>11
<1> QED
  BY <1>1, <1>7, <1>9, <1>12 DEF CallOK

LEMMA ClientStep == ClientOK /\ [ClientNext]_clientVars => ClientOK'
<1> SUFFICES ASSUME ClientOK, [ClientNext]_clientVars PROVE ClientOK'
  OBVIOUS
<1> USE DEF ClientOK
<1>1. ASSUME NEW c \in Callers, ClientTypeOK', CallOK(c)',
             Aside(c)
      PROVE  ClientOK'
  <2> SUFFICES ASSUME NEW d \in Callers \ {c} PROVE CallOK(d)'
    BY <1>1
  <2> QED
    BY <1>1, OthersKept
<1>2. CASE SignIn
  <2>1. ClientTypeOK'
    BY <1>2, ClientAssumption DEF SignIn, ClientTypeOK, calls
  <2>2. ASSUME NEW d \in Callers PROVE CallOK(d)'
    BY <1>2 DEF SignIn, ClientTypeOK, CallOK, Adds, calls, SignedOut
  <2> QED
    BY <2>1, <2>2
<1>3. CASE SignOut
  <2>1. ClientTypeOK'
    BY <1>3, ClientAssumption DEF SignOut, ClientTypeOK, calls, SignedOut
  <2>2. ASSUME NEW d \in Callers PROVE CallOK(d)'
    BY <1>3, ClientAssumption DEF SignOut, CallOK, Adds, calls, LockFree, Nobody
  <2> QED
    BY <2>1, <2>2
<1>4. ASSUME NEW c \in Callers, BeginRequest(c) PROVE ClientOK'
  <2>1. Aside(c)
    BY <1>4 DEF BeginRequest, ClientTypeOK, credential, Return, Go, Aside
  <2> QED
    BY <1>1, <1>4, <2>1, ByBeginRequest
<1>5. ASSUME NEW c \in Callers, TakeLock(c) PROVE ClientOK'
  <2>1. Aside(c)
    BY <1>5, ClientAssumption DEF TakeLock, ClientTypeOK, Return, Go, Nobody, Aside
  <2> QED
    BY <1>1, <1>5, <2>1, ByTakeLock
<1>6. ASSUME NEW c \in Callers, CompareTokens(c) \/ Spend(c) \/ SaveToken(c) PROVE ClientOK'
  <2>1. lock = c
    BY <1>6 DEF CompareTokens, Spend, SaveToken, CallOK
  <2>2. Aside(c)
    BY <1>6, <2>1 DEF CompareTokens, Spend, SaveToken, ClientTypeOK, Return, Go, Aside
  <2> QED
    BY <1>1, <1>6, <2>2, ByCompareTokens, BySpend, BySaveToken
<1>7. ASSUME NEW c \in Callers, SendCall(c) PROVE ClientOK'
  <2>1. /\ UNCHANGED <<file, lock, request, token, answered>>
        /\ ran' = ran \/ ran' = [ran EXCEPT ![c] = @ + 1]
        /\ \E s \in {"send", "lock", "over"} : step' = [step EXCEPT ![c] = s]
    BY <1>7 DEF SendCall, Succeeds, Throttled, Transient, TransientAgain, Rejected, Unauthorized,
                NoConnect, NoAnswer, Again, GiveUp, Return, Go, Ran, DidntRun
  <2>2. Aside(c)
    BY <2>1 DEF ClientTypeOK, Aside
  <2> QED
    BY <1>1, <1>7, <2>2, BySendCall
<1>8. ASSUME NEW c \in Callers, Killed(c) PROVE ClientOK'
  <2>1. Aside(c)
    BY <1>8 DEF Killed, ClientTypeOK, Return, Aside
  <2> QED
    BY <1>1, <1>8, <2>1, ByKilled
<1>9. CASE UNCHANGED clientVars
  BY <1>9 DEF clientVars, credential, calls, ClientTypeOK, CallOK, Adds
<1> QED
  BY <1>2, <1>3, <1>4, <1>5, <1>6, <1>7, <1>8, <1>9 DEF ClientNext, CallNext

\* Every variable of the calls and their credential keeps its type; a call
\* is resent at most MAX_RETRIES times.
THEOREM ClientTypes == ClientSpec => []ClientTypeOK
BY ClientStarts, ClientStep, PTL DEF ClientSpec, ClientOK

\* A request that makes something new each time is run at most once by the
\* client's resends: decide_retry resends it only where it didn't run.
THEOREM AddsRunOnce == ClientSpec => []RunAtMostOnce
<1>1. ClientOK => RunAtMostOnce
  BY DEF ClientOK, CallOK, RunAtMostOnce
<1> QED
  BY <1>1, ClientStarts, ClientStep, PTL DEF ClientSpec

LEMMA TokensStart == ClientInit => TokensOK
BY DEF ClientInit, TokensOK

LEMMA TokensStep == ClientOK /\ TokensOK /\ [ClientNext]_clientVars => TokensOK'
<1> SUFFICES ASSUME ClientOK, TokensOK, [ClientNext]_clientVars PROVE TokensOK'
  OBVIOUS
<1> USE ClientAssumption
<1>0. /\ file \in 0..MaxTokens /\ issued \in 1..MaxTokens /\ broken \in BOOLEAN
      /\ \A c \in Callers : answered[c] \in 0..MaxTokens
      /\ step \in [Callers -> {"idle", "lock", "compare", "spend", "save", "send", "over"}]
      /\ answered \in [Callers -> 0..MaxTokens]
  BY DEF ClientOK, ClientTypeOK
<1>a. \A c \in Callers : step[c] \in {"compare", "spend", "save"} => lock = c
  BY DEF ClientOK, CallOK
\* A call that neither spends nor saves, nor stood there.
<1>1. ASSUME NEW c \in Callers, NEW s \in {"idle", "lock", "compare", "spend", "send", "over"},
             UNCHANGED <<file, issued, spent, broken, answered>>,
             step' = [step EXCEPT ![c] = s], step[c] # "save",
             \A d \in Callers : step[d] = "save" => lock' = lock
      PROVE  TokensOK'
  <2>1. \A d \in Callers : step'[d] = "save" <=> step[d] = "save"
    BY <1>0, <1>1
  <2> QED
    BY <1>1, <2>1 DEF TokensOK
<1>2. CASE SignIn
  <2>1. ~\E c \in Callers : step[c] = "save"
    BY <1>2, <1>a DEF SignIn, LockFree, Nobody
  <2> QED
    BY <1>0, <1>2, <2>1 DEF SignIn, TokensOK, calls
<1>3. CASE SignOut
  BY <1>0, <1>3 DEF SignOut, TokensOK, calls, SignedOut
<1>4. ASSUME NEW c \in Callers, BeginRequest(c) PROVE TokensOK'
  <2>1. \E s \in {"over", "send", "lock"} : step' = [step EXCEPT ![c] = s]
    BY <1>4 DEF BeginRequest, Return, Go
  <2> QED
    BY <1>1, <1>4, <2>1 DEF BeginRequest, credential
<1>5. ASSUME NEW c \in Callers, TakeLock(c) PROVE TokensOK'
  <2>1. \E s \in {"over", "compare"} : step' = [step EXCEPT ![c] = s]
    BY <1>5 DEF TakeLock, Return, Go
  <2>2. \A d \in Callers : step[d] = "save" => lock' = lock
    BY <1>5, <1>a DEF TakeLock, Nobody
  <2> QED
    BY <1>1, <1>5, <2>1, <2>2 DEF TakeLock
<1>6. ASSUME NEW c \in Callers, CompareTokens(c) PROVE TokensOK'
  <2>1. \E s \in {"over", "send", "spend"} : step' = [step EXCEPT ![c] = s]
    BY <1>6 DEF CompareTokens, Return, Go
  <2>2. \A d \in Callers : step[d] # "save"
    BY <1>6, <1>a DEF CompareTokens
  <2> QED
    BY <1>1, <1>6, <2>1, <2>2 DEF CompareTokens
<1>7. ASSUME NEW c \in Callers, Spend(c) PROVE TokensOK'
  <2>1. lock = c /\ file # SignedOut /\ \A d \in Callers : step[d] # "save"
    BY <1>7, <1>a DEF Spend, ClientOK, CallOK
  <2>2. CASE file \notin spent /\ Issue /\ answered' = [answered EXCEPT ![c] = issued + 1]
             /\ Go(c, "save") /\ UNCHANGED <<file, lock, broken>>
    <3>1. step'[c] = "save" /\ \A d \in Callers \ {c} : step'[d] # "save"
      BY <1>0, <2>1, <2>2 DEF Go
    <3>2. issued' = issued + 1 /\ spent' = spent \cup {file} /\ answered'[c] = issued + 1
      BY <1>0, <2>2 DEF Issue
    <3> QED
      BY <1>0, <2>1, <2>2, <3>1, <3>2 DEF TokensOK, SignedOut
  <2>3. CASE /\ Return(c, "network") /\ UNCHANGED <<file, answered>>
             /\ (Issue /\ broken' = TRUE) \/ UNCHANGED <<issued, spent, broken>>
    <3>1. \A d \in Callers : step'[d] # "save"
      BY <1>0, <2>1, <2>3 DEF Return
    <3>2. CASE Issue /\ broken' = TRUE
      <4>1. file <= issued' /\ spent' \subseteq 1..issued'
        BY <1>0, <2>1, <3>2 DEF TokensOK, Issue, SignedOut
      <4> QED
        BY <2>3, <3>1, <3>2, <4>1 DEF TokensOK
    <3>3. CASE UNCHANGED <<issued, spent, broken>>
      BY <2>1, <2>3, <3>1, <3>3 DEF TokensOK
    <3> QED
      BY <2>3, <3>2, <3>3
  <2>4. CASE file' = SignedOut /\ Return(c, "auth") /\ UNCHANGED <<issued, spent, broken, answered>>
    <3>1. \A d \in Callers : step'[d] # "save"
      BY <1>0, <2>1, <2>4 DEF Return
    <3> QED
      BY <1>0, <2>4, <3>1 DEF TokensOK, SignedOut
  <2> QED
    BY <1>7, <2>2, <2>3, <2>4 DEF Spend
<1>8. ASSUME NEW c \in Callers, SaveToken(c) PROVE TokensOK'
  <2>1. step[c] = "save" /\ \A d \in Callers \ {c} : step[d] # "save"
    BY <1>8, <1>a DEF SaveToken
  <2>2. \A d \in Callers : step'[d] # "save"
    BY <1>0, <1>8, <2>1 DEF SaveToken, Go
  <2>3. file' = issued /\ issued \notin spent
    BY <1>8, <2>1 DEF SaveToken, Saved, TokensOK
  <2> QED
    BY <1>0, <1>8, <2>2, <2>3 DEF SaveToken, TokensOK
<1>9. ASSUME NEW c \in Callers, SendCall(c) PROVE TokensOK'
  <2>1. \E s \in {"send", "lock", "over"} : step' = [step EXCEPT ![c] = s]
    BY <1>9 DEF SendCall, Succeeds, Throttled, Transient, TransientAgain, Rejected, Unauthorized,
                NoConnect, NoAnswer, Again, GiveUp, Return, Go
  <2> QED
    BY <1>1, <1>9, <2>1 DEF SendCall
<1>10. ASSUME NEW c \in Callers, Killed(c) PROVE TokensOK'
  <2>1. step' = [step EXCEPT ![c] = "over"] /\ UNCHANGED <<file, issued, spent, answered>>
    BY <1>10 DEF Killed, Return
  <2>2. \A d \in Callers : step'[d] = "save" <=> d # c /\ step[d] = "save"
    BY <1>0, <2>1
  <2>3. file \in spent /\ ~broken' => \E d \in Callers \ {c} : step[d] = "save" /\ lock' = d
    BY <1>10 DEF Killed, TokensOK
  <2> QED
    BY <2>1, <2>2, <2>3 DEF TokensOK
<1>11. CASE UNCHANGED clientVars
  BY <1>11 DEF clientVars, credential, calls, TokensOK
<1> QED
  BY <1>2, <1>3, <1>4, <1>5, <1>6, <1>7, <1>8, <1>9, <1>10, <1>11 DEF ClientNext, CallNext

\* Once signed out, only a sign-in brings a credential back, for a refresh under way holds the
\* lock sign_out takes; and a credential is lost to a refresh only when one's answer was.
THEOREM SignInAndOutStay == ClientSpec => UserSignsInAndOut
<1>1. ClientOK /\ TokensOK /\ [ClientNext]_clientVars =>
        [/\ file = SignedOut /\ file' # SignedOut => issued' = issued + 1 /\ calls' = calls
         /\ file # SignedOut /\ file' = SignedOut => broken \/ calls' = calls]_clientVars
  <2> SUFFICES ASSUME ClientOK, TokensOK, ClientNext
               PROVE  /\ file = SignedOut /\ file' # SignedOut => issued' = issued + 1 /\ calls' = calls
                      /\ file # SignedOut /\ file' = SignedOut => broken \/ calls' = calls
    OBVIOUS
  <2>1. ASSUME NEW c \in Callers, CallNext(c) \/ Killed(c)
        PROVE  ~(file = SignedOut /\ file' # SignedOut)
    BY <2>1 DEF CallNext, BeginRequest, TakeLock, CompareTokens, Spend, SaveToken, SendCall, Killed,
                credential, ClientOK, CallOK
  <2>2. ASSUME NEW c \in Callers, CallNext(c) \/ Killed(c), file # SignedOut, file' = SignedOut
        PROVE  broken
    <3>1. Spend(c) /\ file \in spent
      BY <2>2 DEF CallNext, BeginRequest, TakeLock, CompareTokens, Spend, SaveToken, Saved, SendCall,
                  Killed, credential, ClientOK, CallOK
    <3>2. \A d \in Callers : step[d] # "save"
      BY <3>1 DEF Spend, ClientOK, CallOK
    <3> QED
      BY <3>1, <3>2 DEF TokensOK
  <2>3. CASE SignIn
    BY <2>3, ClientAssumption DEF SignIn, ClientOK, ClientTypeOK, SignedOut
  <2>4. CASE SignOut
    BY <2>4 DEF SignOut
  <2> QED
    BY <2>1, <2>2, <2>3, <2>4 DEF ClientNext
<1> QED
  BY <1>1, ClientStarts, ClientStep, TokensStart, TokensStep, PTL DEF ClientSpec, UserSignsInAndOut

-----------------------------------------------------------------------------
(* An attachment's upload.                                                 *)

\* A chunk is sent of a file that has it, in a session that was made; the
\* saved state says it is the last one exactly while that one may have gone.
StageOK ==
  /\ ~Session => progress.total = FALSE /\ progress.url = 0
                 /\ uploadStage \notin {"open", "save", "put"}
  /\ uploadStage \in {"save", "put"} => url \in 1..made /\ start < chunks
  /\ progress.url <= made /\ (progress.url # 0 => progress.next < chunks)
  /\ uploadStage = "put" => progress.total /\ (progress.committing <=> LastChunk)
  /\ uploadStage = "post" => ~Session
  /\ uploadStage = "record" => ~(progress.total /\ ~progress.committing)

\* Nothing is attached yet for this choice of the user's.
Unattached ==
  \/ opState \in {"queueing", "pending"}
  \/ opState = "inflight" /\ uploadStage # "record"

AttachOK == attached <= choices /\ (Unattached => attached < choices)

UploadOK == UploadTypeOK /\ StageOK /\ AttachOK

LEMMA UploadStarts == UploadInit => UploadOK
<1> SUFFICES ASSUME UploadInit PROVE UploadOK
  OBVIOUS
<1>0. NoUpload \in [total : BOOLEAN, url : 0..MaxSessions, next : Nat, committing : BOOLEAN]
      /\ NoUpload.total = FALSE /\ NoUpload.url = 0
  BY UploadAssumption DEF NoUpload
<1>1. UploadTypeOK
  BY <1>0, UploadAssumption DEF UploadInit, UploadTypeOK
<1>2. StageOK
  BY <1>0 DEF UploadInit, StageOK, Session
<1>3. AttachOK
  BY DEF UploadInit, AttachOK, Unattached
<1> QED
  BY <1>1, <1>2, <1>3 DEF UploadOK

\* An attempt ends, with the session kept in the operation or forgotten.
LEMMA ByEnd ==
  ASSUME UploadOK, UNCHANGED made, NEW left \in Forgotten, attached' \in Nat,
         NEW state \in {"pending", "unknown", "failed", "done"}, End(state, left),
         taken' \in [1..MaxSessions -> -1..chunks]
  PROVE  UploadTypeOK' /\ StageOK'
<1>0. /\ NoUpload \in [total : BOOLEAN, url : 0..MaxSessions, next : Nat, committing : BOOLEAN]
      /\ NoUpload.total = FALSE /\ NoUpload.url = 0
  BY UploadAssumption DEF NoUpload
<1>1. progress' = NoUpload \/ progress' = progress
  BY DEF End, Forgotten
<1>2. progress' \in [total : BOOLEAN, url : 0..MaxSessions, next : Nat, committing : BOOLEAN]
  BY <1>0, <1>1 DEF UploadOK, UploadTypeOK
<1>3. /\ opState' = state /\ uploadStage' = "none" /\ chunks' = chunks /\ choices' = choices
      /\ url' = url /\ start' = start /\ resends' = resends
  BY DEF End, locals
<1>4. UploadTypeOK'
  BY <1>2, <1>3 DEF UploadOK, UploadTypeOK
<1>5. StageOK'
  BY <1>0, <1>1, <1>3 DEF UploadOK, UploadTypeOK, StageOK, Session
<1> QED
  BY <1>4, <1>5

\* ... without the file being attached by it.
LEMMA ByGivingUp ==
  ASSUME UploadOK, opState = "inflight", uploadStage # "record", UNCHANGED graphs,
         Unknown \/ Temporary \/ Refused
  PROVE  UploadOK'
<1>1. PICK state \in {"pending", "unknown", "failed"}, left \in Forgotten : End(state, left)
  BY DEF Unknown, Temporary, Refused, Forgotten
<1>2. UNCHANGED <<taken, made, attached>>
  BY DEF graphs
<1>3. taken' \in [1..MaxSessions -> -1..chunks] /\ attached' \in Nat
  BY <1>2 DEF UploadOK, UploadTypeOK
<1>4. UploadTypeOK' /\ StageOK'
  BY <1>1, <1>2, <1>3, ByEnd
<1>5. attached < choices
  BY DEF UploadOK, AttachOK, Unattached
<1>6. attached' < choices'
  BY <1>1, <1>2, <1>5 DEF End
<1>7. AttachOK'
  BY <1>6, <1>4 DEF AttachOK, UploadTypeOK
<1> QED
  BY <1>4, <1>7 DEF UploadOK

\* Steps that leave the attempt's state and Graph alone.
LEMMA ByTheRest ==
  ASSUME UploadOK, Queue \/ Claim \/ TenMinutes \/ Discard \/ Retry \/ UNCHANGED uploadVars
  PROVE  UploadOK'
<1>0. /\ NoUpload \in [total : BOOLEAN, url : 0..MaxSessions, next : Nat, committing : BOOLEAN]
      /\ NoUpload.total = FALSE /\ NoUpload.url = 0
  BY UploadAssumption DEF NoUpload
<1> USE DEF UploadOK, locals, graphs
<1>1. CASE Queue
  <2>1. UploadTypeOK' /\ StageOK'
    BY <1>1 DEF Queue, UploadTypeOK, StageOK, Session, LastChunk
  <2> QED
    BY <1>1, <2>1 DEF Queue, AttachOK, Unattached
<1>2. CASE Claim
  <2>1. UploadTypeOK' /\ StageOK'
    BY <1>2 DEF Claim, UploadTypeOK, StageOK, Session, LastChunk
  <2> QED
    BY <1>2, <2>1 DEF Claim, AttachOK, Unattached
<1>3. CASE TenMinutes
  <2>1. UploadTypeOK' /\ StageOK'
    BY <1>3 DEF TenMinutes, UploadTypeOK, StageOK, Session, LastChunk
  <2> QED
    BY <1>3, <2>1 DEF TenMinutes, AttachOK, Unattached
<1>4. CASE Discard
  <2>1. UploadTypeOK' /\ StageOK'
    BY <1>4 DEF Discard, UploadTypeOK, StageOK, Session, LastChunk
  <2> QED
    BY <1>4, <2>1 DEF Discard, AttachOK, Unattached
<1>5. CASE Retry
  <2>1. uploadStage = "none"
    BY <1>5 DEF Retry, UploadTypeOK
  <2>2. UploadTypeOK'
    BY <1>0, <1>5, <2>1 DEF Retry, ProgressReset, UploadTypeOK
  <2>3. StageOK'
    BY <1>0, <1>5, <2>1 DEF Retry, ProgressReset, StageOK, UploadTypeOK, Session
  <2> QED
    BY <1>5, <2>2, <2>3 DEF Retry, AttachOK, UploadTypeOK
<1>6. CASE UNCHANGED uploadVars
  <2>1. UploadTypeOK' /\ StageOK'
    BY <1>6 DEF uploadVars, UploadTypeOK, StageOK, Session, LastChunk
  <2> QED
    BY <1>6, <2>1 DEF uploadVars, AttachOK, Unattached
<1> QED
  BY <1>1, <1>2, <1>3, <1>4, <1>5, <1>6

\* The file is read: the attempt begins, goes on in its session, or ends.
LEMMA ByReadFile ==
  ASSUME UploadOK, ReadFile
  PROVE  UploadOK'
<1>1. /\ opState = "inflight" /\ uploadStage = "read"
      /\ UNCHANGED <<chunks, taken, made, attached, choices, progress>>
  BY DEF ReadFile, UploadOK, UploadTypeOK, graphs
<1>2. /\ opState' \in {"inflight", "unknown"} /\ (opState' = "unknown" <=> uploadStage' = "none")
      /\ uploadStage' \in {"none", "post", "save", "open"}
      /\ url' \in 0..MaxSessions /\ start' \in Nat /\ resends' \in 0..MaxResends
  BY <1>1, UploadAssumption DEF ReadFile, UploadOK, UploadTypeOK, locals
<1>3. UploadTypeOK'
  BY <1>1, <1>2 DEF UploadOK, UploadTypeOK
<1>4. StageOK'
  BY <1>1, <1>2 DEF ReadFile, Resumable, UploadOK, UploadTypeOK, StageOK, Session
<1>5. AttachOK'
  BY <1>1, <1>2 DEF UploadOK, AttachOK, Unattached
<1> QED
  BY <1>3, <1>4, <1>5 DEF UploadOK

\* Graph has the file: what is saved tells a restart not to send it again.
LEMMA ByAnswered ==
  ASSUME UploadOK, opState = "inflight", uploadStage # "record", Answered,
         ~(progress.total /\ ~progress.committing), attached' = attached + 1,
         UNCHANGED made, taken' \in [1..MaxSessions -> -1..chunks]
  PROVE  UploadOK'
<1>1. /\ uploadStage' = "record"
      /\ UNCHANGED <<opState, progress, url, start, resends, chunks, choices>>
  BY DEF Answered, locals
<1>2. UploadTypeOK'
  BY <1>1 DEF UploadOK, UploadTypeOK
<1>3. StageOK'
  BY <1>1 DEF UploadOK, StageOK, Session
<1>4. attached < choices
  BY DEF UploadOK, AttachOK, Unattached
<1>5. AttachOK'
  BY <1>1, <1>2, <1>4 DEF UploadOK, UploadTypeOK, AttachOK, Unattached
<1> QED
  BY <1>2, <1>3, <1>5 DEF UploadOK

\* Graph may have it: the operation's outcome is unknown.
LEMMA ByUnknown ==
  ASSUME UploadOK, opState = "inflight", uploadStage # "record", Unknown,
         attached' \in {attached, attached + 1},
         UNCHANGED made, taken' \in [1..MaxSessions -> -1..chunks]
  PROVE  UploadOK'
<1>1. attached \in Nat /\ choices \in Nat /\ attached < choices
  BY DEF UploadOK, UploadTypeOK, AttachOK, Unattached
<1>2. attached' \in Nat /\ End("unknown", progress) /\ progress \in Forgotten
  BY <1>1 DEF Unknown, Forgotten
<1>3. UploadTypeOK' /\ StageOK'
  BY <1>2, ByEnd
<1>4. AttachOK'
  BY <1>1, <1>2 DEF AttachOK, Unattached, End
<1> QED
  BY <1>3, <1>4 DEF UploadOK

LEMMA ByPost ==
  ASSUME UploadOK, Post
  PROVE  UploadOK'
<1>1. opState = "inflight" /\ uploadStage = "post"
  BY DEF Post, UploadOK, UploadTypeOK
<1>2. taken \in [1..MaxSessions -> -1..chunks]
  BY DEF UploadOK, UploadTypeOK
<1>3. CASE Attach /\ Answered
  <2>1. progress.total = FALSE
    BY <1>1 DEF UploadOK, StageOK
  <2> QED
    BY <1>1, <1>2, <1>3, <2>1, ByAnswered DEF Attach
<1>4. CASE UNCHANGED graphs /\ (Temporary \/ Refused \/ Unknown)
  BY <1>1, <1>4, ByGivingUp
<1>5. CASE Attach /\ Unknown
  BY <1>1, <1>2, <1>5, ByUnknown DEF Attach
<1> QED
  BY <1>3, <1>4, <1>5 DEF Post

LEMMA ByOpen ==
  ASSUME UploadOK, Open
  PROVE  UploadOK'
<1>1. opState = "inflight" /\ uploadStage = "open"
  BY DEF Open, UploadOK, UploadTypeOK
<1>2. CASE UNCHANGED graphs /\ (Temporary \/ Refused)
  BY <1>1, <1>2, ByGivingUp
<1>3. ASSUME made < MaxSessions, made' = made + 1, progress' = [NoUpload EXCEPT !.total = TRUE],
             url' = made + 1, start' = 0, resends' = 0, uploadStage' = "save",
             UNCHANGED <<opState, chunks, choices, taken, attached>>
      PROVE  UploadOK'
  <2>a. MaxSessions \in Nat /\ MaxResends \in Nat
    BY UploadAssumption
  <2>b. progress' = [total |-> TRUE, url |-> 0, next |-> 0, committing |-> FALSE]
    BY <1>3 DEF NoUpload
  <2>1. /\ progress' \in [total : BOOLEAN, url : 0..MaxSessions, next : Nat, committing : BOOLEAN]
        /\ progress'.url = 0
    BY <2>a, <2>b
  <2>c. /\ url' \in 0..MaxSessions /\ start' \in Nat /\ resends' \in 0..MaxResends
        /\ made' \in 0..MaxSessions
    BY <1>3, <2>a DEF UploadOK, UploadTypeOK
  <2>2. UploadTypeOK'
    BY <1>1, <1>3, <2>1, <2>c DEF UploadOK, UploadTypeOK
  <2>3. StageOK'
    <3>1. Session /\ Session' /\ made + 1 \in Nat
      BY <1>1, <1>3, <2>a DEF UploadOK, UploadTypeOK, StageOK, Session
    <3>2. progress'.total /\ ~progress'.committing /\ uploadStage' = "save" /\ url' = made' /\ start' = 0
      BY <1>3, <2>b
    <3>3. 0 < chunks /\ made' \in Nat /\ 1 <= made'
      BY <1>1, <1>3, <3>1 DEF UploadOK, UploadTypeOK, Session
    <3> QED
      BY <1>3, <2>1, <3>1, <3>2, <3>3 DEF StageOK
  <2>4. AttachOK'
    BY <1>1, <1>3 DEF UploadOK, AttachOK, Unattached
  <2> QED
    BY <2>2, <2>3, <2>4 DEF UploadOK
<1> QED
  BY <1>2, <1>3 DEF Open

LEMMA BySaveState ==
  ASSUME UploadOK, SaveState
  PROVE  UploadOK'
<1>1. opState = "inflight" /\ uploadStage = "save" /\ UNCHANGED graphs
  BY DEF SaveState, UploadOK, UploadTypeOK
<1>2. CASE Temporary
  BY <1>1, <1>2, ByGivingUp
<1>3. ASSUME progress' = SavedState, uploadStage' = "put",
             UNCHANGED <<opState, denied, locals, chunks, choices>>
      PROVE  UploadOK'
  <2>1. LastChunk \in BOOLEAN
    BY DEF LastChunk
  <2>2. /\ progress' \in [total : BOOLEAN, url : 0..MaxSessions, next : Nat, committing : BOOLEAN]
        /\ progress'.url = url /\ progress'.next = start
    BY <1>3, <2>1 DEF UploadOK, UploadTypeOK, SavedState
  <2>3. progress'.total /\ (progress'.committing <=> LastChunk)
    BY <1>3, <2>1 DEF SavedState
  <2>4. UNCHANGED <<url, start, resends, taken, made, attached, chunks, choices, opState>>
    BY <1>1, <1>3 DEF locals, graphs
  <2>5. UploadTypeOK'
    BY <1>1, <1>3, <2>2, <2>4 DEF UploadOK, UploadTypeOK
  <2>6. StageOK'
    BY <1>1, <1>3, <2>2, <2>3, <2>4 DEF UploadOK, UploadTypeOK, StageOK, Session, LastChunk
  <2>7. AttachOK'
    BY <1>1, <1>3, <2>4 DEF UploadOK, AttachOK, Unattached
  <2> QED
    BY <2>5, <2>6, <2>7 DEF UploadOK
<1> QED
  BY <1>2, <1>3 DEF SaveState

\* The attempt goes on with chunk s.
LEMMA ByNext ==
  ASSUME UploadOK, opState = "inflight", uploadStage = "put", ~LastChunk,
         NEW s \in {start, start + 1}, NEW doubt, Next_(s, doubt), resends' \in 0..MaxResends,
         UNCHANGED <<made, attached>>, taken' \in [1..MaxSessions -> -1..chunks]
  PROVE  UploadOK'
<1>1. /\ start' = s /\ uploadStage' = "save"
      /\ UNCHANGED <<opState, progress, url, chunks, choices>>
  BY DEF Next_
<1>2. s \in Nat /\ s < chunks /\ chunks \in Nat
  BY UploadAssumption DEF UploadOK, UploadTypeOK, LastChunk
<1>3. UploadTypeOK'
  BY <1>1, <1>2 DEF UploadOK, UploadTypeOK
<1>4. StageOK'
  BY <1>1, <1>2 DEF UploadOK, StageOK, Session
<1>5. AttachOK'
  BY <1>1 DEF UploadOK, AttachOK, Unattached
<1> QED
  BY <1>3, <1>4, <1>5 DEF UploadOK

\* A session taken up again that Graph doesn't take: a new one is opened.
LEMMA ByStale ==
  ASSUME UploadOK, opState = "inflight", uploadStage = "put", ~LastChunk \/ UNCHANGED graphs,
         uploadStage' = Stale, UNCHANGED <<opState, progress, locals, chunks, choices>>,
         UNCHANGED <<made, attached>>, taken' \in [1..MaxSessions -> -1..chunks]
  PROVE  UploadOK'
<1>1. UNCHANGED <<url, start, resends>> /\ uploadStage' = "open"
  BY DEF locals, Stale
<1>2. UploadTypeOK'
  BY <1>1 DEF UploadOK, UploadTypeOK
<1>3. StageOK'
  BY <1>1 DEF UploadOK, StageOK, Session
<1>4. AttachOK'
  BY <1>1 DEF UploadOK, AttachOK, Unattached
<1> QED
  BY <1>2, <1>3, <1>4 DEF UploadOK

\* A PUT, whatever Graph does with it and whatever of the answer arrives.
LEMMA ByPut ==
  ASSUME UploadOK, Put
  PROVE  UploadOK'
<1>1. opState = "inflight" /\ uploadStage = "put"
  BY DEF Put, UploadOK, UploadTypeOK
<1>2. /\ taken \in [1..MaxSessions -> -1..chunks] /\ start \in Nat /\ chunks \in Nat
      /\ url \in 1..MaxSessions /\ start < chunks /\ attached \in Nat
      /\ resends \in 0..MaxResends /\ MaxResends \in Nat
  BY <1>1, UploadAssumption DEF UploadOK, UploadTypeOK, StageOK
<1>3. Takes => /\ taken' \in [1..MaxSessions -> -1..chunks] /\ made' = made
               /\ LastChunk => attached' = attached + 1
               /\ ~LastChunk => attached' = attached
  BY <1>2 DEF Takes
<1>4. UNCHANGED graphs =>
        taken' \in [1..MaxSessions -> -1..chunks] /\ made' = made /\ attached' = attached
  BY <1>2 DEF graphs
<1>5. CASE PutTaken
  <2>1. CASE LastChunk /\ Answered
    <3>1. ~(progress.total /\ ~progress.committing)
      BY <1>1, <2>1 DEF UploadOK, StageOK
    <3> QED
      BY <1>1, <1>3, <1>5, <2>1, <3>1, ByAnswered DEF PutTaken
  <2>2. CASE ~LastChunk /\ Next_(start + 1, FALSE) /\ UNCHANGED resends
    BY <1>1, <1>2, <1>3, <1>5, <2>2, ByNext DEF PutTaken
  <2> QED
    BY <1>5, <2>1, <2>2 DEF PutTaken
<1>6. CASE PutLost
  <2>0. Takes \/ UNCHANGED graphs
    BY <1>6 DEF PutLost
  <2>1. CASE LastChunk /\ Unknown
    BY <1>1, <1>3, <1>4, <2>0, <2>1, ByUnknown
  <2>2. CASE /\ ~LastChunk /\ uploadStage' = Stale
             /\ UNCHANGED <<opState, progress, denied, locals, chunks, choices>>
    BY <1>1, <1>3, <1>4, <2>0, <2>2, ByStale
  <2>3. CASE ~LastChunk /\ MayPutAgain /\ Next_(start, TRUE) /\ resends' = resends + 1
    <3>1. resends' \in 0..MaxResends
      BY <1>2, <2>3 DEF MayPutAgain
    <3> QED
      BY <1>1, <1>3, <1>4, <2>0, <2>3, <3>1, ByNext
  <2>4. CASE ~LastChunk /\ Temporary
    <3>1. PICK left \in Forgotten : End("pending", left)
      BY <2>4 DEF Temporary
    <3>2. /\ made' = made /\ attached' = attached /\ attached' \in Nat
          /\ taken' \in [1..MaxSessions -> -1..chunks]
      BY <1>2, <1>3, <1>4, <2>0, <2>4
    <3>3. UploadTypeOK' /\ StageOK'
      BY <3>1, <3>2, ByEnd
    <3>4. attached < choices
      BY <1>1 DEF UploadOK, AttachOK, Unattached
    <3>5. AttachOK'
      BY <3>1, <3>2, <3>3, <3>4 DEF AttachOK, End, UploadTypeOK
    <3> QED
      BY <3>3, <3>5 DEF UploadOK
  <2> QED
    BY <1>6, <2>1, <2>2, <2>3, <2>4 DEF PutLost
<1>7. CASE PutRepeated
  <2>0. UNCHANGED graphs
    BY <1>7 DEF PutRepeated
  <2>1. CASE Landed /\ Next_(start + 1, FALSE) /\ UNCHANGED resends
    BY <1>1, <1>2, <1>4, <2>0, <2>1, ByNext DEF Landed
  <2>2. CASE /\ uploadStage' = Stale
             /\ UNCHANGED <<opState, progress, denied, locals, chunks, choices>>
    BY <1>1, <1>4, <2>0, <2>2, ByStale
  <2>3. ASSUME NEW left \in Forgotten, End("failed", left) PROVE UploadOK'
    <3>1. UploadTypeOK' /\ StageOK'
      BY <1>2, <1>4, <2>0, <2>3, ByEnd
    <3>2. attached < choices
      BY <1>1 DEF UploadOK, AttachOK, Unattached
    <3>3. AttachOK'
      BY <1>4, <2>0, <2>3, <3>1, <3>2 DEF AttachOK, End, UploadTypeOK
    <3> QED
      BY <3>1, <3>3 DEF UploadOK
  <2> QED
    BY <1>7, <2>1, <2>2, <2>3 DEF PutRepeated
<1>8. CASE PutRefused
  <2>0. UNCHANGED graphs
    BY <1>8 DEF PutRefused
  <2>1. CASE /\ uploadStage' = Stale
             /\ UNCHANGED <<opState, progress, denied, locals, chunks, choices>>
    BY <1>1, <1>4, <2>0, <2>1, ByStale
  <2>2. CASE Refused \/ Temporary
    BY <1>1, <2>0, <2>2, ByGivingUp
  <2> QED
    BY <1>8, <2>1, <2>2 DEF PutRefused
<1> QED
  BY <1>5, <1>6, <1>7, <1>8 DEF Put

\* The daemon starts again, a session expires, the outcome is recorded.
LEMMA ByTime ==
  ASSUME UploadOK, Restart \/ Record \/ ReadRefused \/ (\E s \in 1..MaxSessions : Expire(s))
  PROVE  UploadOK'
<1>1. CASE Restart
  <2>1. /\ uploadStage' = "none"
        /\ opState' = IF opState = "inflight" THEN Recovered ELSE opState
        /\ UNCHANGED <<chunks, progress, url, start, resends, taken, made, attached, choices>>
    BY <1>1 DEF Restart, locals, graphs
  <2>2. Recovered \in {"pending", "unknown"}
    BY DEF Recovered
  <2>3. UploadTypeOK'
    BY <2>1, <2>2 DEF UploadOK, UploadTypeOK
  <2>4. StageOK'
    BY <2>1 DEF UploadOK, StageOK, Session
  <2>5. Unattached' => Unattached
    BY <1>1, <2>1 DEF Restart, Unattached, Recovered, UploadOK, UploadTypeOK, StageOK
  <2>6. AttachOK'
    BY <2>1, <2>5 DEF UploadOK, AttachOK
  <2> QED
    BY <2>3, <2>4, <2>6 DEF UploadOK
<1>2. CASE Record
  <2>1. End("done", progress) /\ progress \in Forgotten /\ UNCHANGED <<taken, made, attached>>
    BY <1>2 DEF Record, Forgotten, graphs
  <2>2. UploadTypeOK' /\ StageOK'
    BY <2>1, ByEnd DEF UploadOK, UploadTypeOK
  <2>3. AttachOK'
    BY <2>1 DEF UploadOK, AttachOK, Unattached, End
  <2> QED
    BY <2>2, <2>3 DEF UploadOK
<1>3. CASE ReadRefused
  <2>1. opState = "inflight" /\ uploadStage = "read"
    BY <1>3 DEF ReadRefused, UploadOK, UploadTypeOK
  <2> QED
    BY <1>3, <2>1, ByGivingUp DEF ReadRefused
<1>4. ASSUME NEW s \in 1..MaxSessions, Expire(s) PROVE UploadOK'
  <2>1. chunks \in Nat
    BY UploadAssumption DEF UploadOK, UploadTypeOK
  <2>2. taken' \in [1..MaxSessions -> -1..chunks]
    BY <1>4, <2>1 DEF Expire, UploadOK, UploadTypeOK
  <2>3. UploadTypeOK'
    BY <1>4, <2>2 DEF Expire, UploadOK, UploadTypeOK, locals
  <2>4. StageOK'
    BY <1>4 DEF Expire, UploadOK, StageOK, Session, LastChunk, locals
  <2>5. AttachOK'
    BY <1>4 DEF Expire, UploadOK, AttachOK, Unattached
  <2> QED
    BY <2>3, <2>4, <2>5 DEF UploadOK
<1> QED
  BY <1>1, <1>2, <1>3, <1>4

LEMMA UploadStep == UploadOK /\ [UploadNext]_uploadVars => UploadOK'
BY ByTheRest, ByReadFile, ByPost, ByOpen, BySaveState, ByPut, ByTime DEF UploadNext, Attempt

\* Every variable of the upload keeps its type: no chunk is sent beyond the
\* file's end or into a session that was never made.
THEOREM UploadTypes == UploadSpec => []UploadTypeOK
BY UploadStarts, UploadStep, PTL DEF UploadSpec, UploadOK

\* The file is attached at most once for each time the user asked: the
\* saved state keeps a restart from sending a final PUT again.
THEOREM AttachedOnce == UploadSpec => []AttachedOncePerChoice
<1>1. UploadOK => AttachedOncePerChoice
  BY DEF UploadOK, AttachOK, AttachedOncePerChoice
<1> QED
  BY <1>1, UploadStarts, UploadStep, PTL DEF UploadSpec

-----------------------------------------------------------------------------
(* The sign-in.                                                            *)

\* The failures counted are the ones in a row.
StreakOK == failures \in Nat /\ streak = failures /\ PatientSignIn

\* A code is given up for the network only after MaxFailures failed polls in
\* a row (poll).
THEOREM Patience == DeviceSpec => []PatientSignIn
<1>1. DeviceInit => StreakOK
  BY DEF DeviceInit, StreakOK, PatientSignIn
<1>2. StreakOK /\ [DeviceNext]_deviceVars => StreakOK'
  <2> SUFFICES ASSUME StreakOK, [DeviceNext]_deviceVars PROVE StreakOK'
    OBVIOUS
  <2> USE DEF StreakOK, PatientSignIn
  <2>1. CASE Poll
    <3>1. CASE signin' = "expired" /\ UNCHANGED <<failures, streak>>
      BY <3>1
    <3>2. CASE /\ failures' = failures + 1 /\ streak' = streak + 1
               /\ signin' = IF failures + 1 >= MaxFailures THEN "network" ELSE "polling"
      BY <3>2, DeviceAssumption
    <3>3. ASSUME NEW ends \in Outcomes \cup {"polling"}, PollAnswer(ends) PROVE StreakOK'
      <4>1. ends # "network"
        BY DEF Outcomes
      <4> QED
        BY <3>3, <4>1 DEF PollAnswer, FailuresReset
    <3> QED
      BY <2>1, <3>1, <3>2, <3>3 DEF Poll
  <2>2. CASE UserAnswers
    BY <2>2 DEF UserAnswers
  <2>3. CASE UNCHANGED deviceVars
    BY <2>3 DEF deviceVars
  <2> QED
    BY <2>1, <2>2, <2>3 DEF DeviceNext
<1>3. StreakOK => PatientSignIn
  BY DEF StreakOK
<1> QED
  BY <1>1, <1>2, <1>3, PTL DEF DeviceSpec

-----------------------------------------------------------------------------
(* The subscription of a connection.  What is said of one connection is    *)
(* said of its wire w, its client's screen s, the cache's version v, so    *)
(* that a step is a change of these.                                      *)

Kinds == Asked \cup {"subscribe"}
Frames == [id : Nat, what : {"ack", "activity", "resync", "changed", "answer", "refused", "progress"}, value : Nat]

WireShape(w) ==
  /\ DOMAIN w = {"open", "up", "down", "sub", "backlog", "lagged", "shown", "work", "late", "serving"}
  /\ w.up \in Seq([id : Nat, kind : Kinds]) /\ w.down \in Seq(Frames) /\ w.backlog \in Seq(Parts)
  /\ w.sub \in Nat /\ w.shown \in Nat
  /\ DOMAIN w.work = {"id", "kind", "done", "got"}
  /\ w.work.id \in Nat /\ w.work.got \in Nat /\ w.work.kind \in Kinds \cup {"none"}
  /\ \A r \in w.late : r.id \in Nat /\ r.got \in Nat
  /\ \A i \in 1 .. Len(w.down) : w.down[i].what = "changed" => w.down[i].value \in Parts
  /\ w.sub # 0 => w.serving

ScreenShape(s) ==
  /\ DOMAIN s = {"next", "asks", "waiting", "stale", "view", "activity", "said"}
  /\ s.next \in Nat \ {0} /\ s.activity \in Nat
  /\ s.waiting \subseteq [id : Nat, kind : Kinds, of : SUBSET Parts]
  /\ s.stale \subseteq Parts /\ s.view \in [Parts -> Nat]

\* An ID is one request's: whatever carries it is of that request's kind.
OneRequest(w, s) ==
  /\ w.sub < s.next /\ w.work.id < s.next
  /\ \A r \in s.waiting : 0 < r.id /\ r.id < s.next
  /\ \A r, q \in s.waiting : r.id = q.id => r = q
  /\ \A i \in 1 .. Len(w.up) : w.up[i].id < s.next
  /\ \A i \in 1 .. Len(w.down) : w.down[i].id < s.next
  /\ \A l \in w.late : l.id < s.next
  /\ \A r \in s.waiting :
       /\ \A i \in 1 .. Len(w.up) : w.up[i].id = r.id => w.up[i].kind = r.kind
       /\ w.work.id = r.id => w.work.kind = r.kind
       /\ \A l \in w.late : l.id = r.id => r.kind = "suggest"
       /\ \A i \in 1 .. Len(w.down) : w.down[i].id = r.id /\ w.down[i].what = "refused" => r.kind # "read"

\* The frame is the answer to a read that waits for it.
Reads(s, f) == f.what = "answer" /\ \E r \in s.waiting : r.id = f.id /\ r.kind = "read"

\* Reads are answered in order, so none shows an older cache than the screen's.
ReadsInOrder(w, s, v) ==
  /\ \A p \in Parts : s.view[p] <= Latest(p, v)
  /\ \A i \in 1 .. Len(w.down) : Reads(s, w.down[i]) =>
       w.down[i].value <= v /\ \A p \in Parts : s.view[p] <= Latest(p, w.down[i].value)
  /\ \A i, j \in 1 .. Len(w.down) :
       i < j /\ Reads(s, w.down[i]) /\ Reads(s, w.down[j]) => w.down[i].value <= w.down[j].value
  /\ w.work.kind = "read" /\ w.work.done =>
       /\ w.work.got <= v /\ \A p \in Parts : s.view[p] <= Latest(p, w.work.got)
       /\ \A i \in 1 .. Len(w.down) : Reads(s, w.down[i]) => w.down[i].value <= w.work.got

\* The client will be told that part p changed.
TellsOf(f, p) == f.what \in {"ack", "resync"} \/ (f.what = "changed" /\ f.value = p)
Told(w, p) ==
  \/ w.lagged
  \/ \E i \in 1 .. Len(w.backlog) : w.backlog[i] = p
  \/ \E i \in 1 .. Len(w.down) : TellsOf(w.down[i], p)

\* A read that waits and will show part p as it is.
WillShow(w, r, v, p) ==
  /\ r.kind = "read" /\ p \in r.of
  /\ w.work.id = r.id /\ w.work.done => Latest(p, w.work.got) = Latest(p, v)
  /\ \A i \in 1 .. Len(w.down) : w.down[i].id = r.id /\ w.down[i].what = "answer" => Latest(p, w.down[i].value) = Latest(p, v)

Followed(w, s, v, p) ==
  \/ s.view[p] = Latest(p, v) \/ p \in s.stale \/ Told(w, p)
  \/ \E r \in s.waiting : WillShow(w, r, v, p)

\* The last word on the syncer is what the subscription last told.
LastWord(w, s) ==
  \/ s.activity = w.shown /\ \A i \in 1 .. Len(w.down) : w.down[i].what # "activity"
  \/ \E i \in 1 .. Len(w.down) : /\ w.down[i].what = "activity" /\ w.down[i].value = w.shown
                                 /\ \A j \in 1 .. Len(w.down) : i < j => w.down[j].what # "activity"

ConnOK(w, s, v) ==
  /\ v \in Nat /\ WireShape(w) /\ ScreenShape(s) /\ OneRequest(w, s) /\ ReadsInOrder(w, s, v)
  /\ w.open /\ w.sub # 0 => LastWord(w, s) /\ \A p \in Parts : Followed(w, s, v, p)

ConnInv ==
  /\ DOMAIN wire = Peers /\ DOMAIN screens = Peers /\ passes \in Nat
  /\ \A c \in Peers : ConnOK(wire[c], screens[c], world)

LEMMA LatestGrows ==
  ASSUME NEW p \in Parts, NEW a \in Nat, NEW b \in Nat, a <= b
  PROVE  Latest(p, a) \in Nat /\ Latest(p, a) <= Latest(p, b)
BY DEF Latest, Parts

\* A write that changes the other part leaves this one as it was.
LEMMA LatestStays ==
  ASSUME NEW p \in Parts, NEW a \in Nat, p # (a + 1) % 2
  PROVE  Latest(p, a + 1) = Latest(p, a)
BY DEF Latest, Parts

LEMMA TailAt ==
  ASSUME NEW S, NEW q \in Seq(S), q # <<>>
  PROVE  /\ Len(q) \in Nat /\ 1 \in 1 .. Len(q) /\ Head(q) = q[1] /\ Head(q) \in S /\ Tail(q) \in Seq(S)
         /\ Len(Tail(q)) = Len(q) - 1
         /\ \A i \in 1 .. Len(Tail(q)) : i + 1 \in 1 .. Len(q) /\ 1 < i + 1 /\ Tail(q)[i] = q[i + 1]
OBVIOUS

\* The daemon sends frame f: an answer to a read is that of the request at
\* work, and what the client would be told it still is.
LEMMA SendHolds ==
  ASSUME NEW w, NEW s, NEW v, NEW w2, NEW f \in Frames, ConnOK(w, s, v), WireShape(w2),
         w2.down = Append(w.down, f), w2.up = w.up, w2.sub = w.sub, w2.late \subseteq w.late,
         w2.work = w.work \/ w2.work = NoWork, w2.open => w.open,
         f.id < s.next, f.what = "refused" => \A r \in s.waiting : r.id = f.id => r.kind # "read",
         Reads(s, f) => /\ w.work.done /\ w.work.kind = "read" /\ f.id = w.work.id /\ f.value = w.work.got
                        /\ w2.work = NoWork,
         \A p \in Parts : Told(w, p) => Told(w2, p),
         IF f.what = "activity" THEN f.value = w2.shown ELSE w2.shown = w.shown
  PROVE  ConnOK(w2, s, v)
<1> USE DEF ConnOK
<1>a. WireShape(w) /\ ScreenShape(s) /\ OneRequest(w, s) /\ ReadsInOrder(w, s, v) /\ v \in Nat
  OBVIOUS
<1>b. /\ w.down \in Seq(Frames) /\ Len(w.down) \in Nat /\ Len(w2.down) = Len(w.down) + 1
      /\ \A i \in 1 .. Len(w.down) : w2.down[i] = w.down[i]
      /\ w2.down[Len(w.down) + 1] = f
  BY <1>a DEF WireShape
<1>c. \A i \in 1 .. Len(w2.down) : i \in 1 .. Len(w.down) \/ (i = Len(w.down) + 1 /\ w2.down[i] = f)
  BY <1>b
<1>d. NoWork.id = 0 /\ NoWork.kind = "none" /\ ~NoWork.done
  BY DEF NoWork
<1>1. OneRequest(w2, s)
  <2>1. /\ w2.sub < s.next /\ w2.work.id < s.next
        /\ \A i \in 1 .. Len(w2.up) : w2.up[i].id < s.next
        /\ \A l \in w2.late : l.id < s.next
    BY <1>a, <1>d DEF OneRequest, ScreenShape
  <2>2. \A i \in 1 .. Len(w2.down) : w2.down[i].id < s.next
    BY <1>a, <1>b, <1>c DEF OneRequest
  <2>3. ASSUME NEW r \in s.waiting
        PROVE  /\ \A i \in 1 .. Len(w2.up) : w2.up[i].id = r.id => w2.up[i].kind = r.kind
               /\ w2.work.id = r.id => w2.work.kind = r.kind
               /\ \A l \in w2.late : l.id = r.id => r.kind = "suggest"
    BY <1>a, <1>d, <2>3 DEF OneRequest, ScreenShape
  <2>4. ASSUME NEW r \in s.waiting, NEW i \in 1 .. Len(w2.down), w2.down[i].id = r.id, w2.down[i].what = "refused"
        PROVE  r.kind # "read"
    BY <1>a, <1>b, <1>c, <2>4 DEF OneRequest
  <2> QED
    BY <1>a, <2>1, <2>2, <2>3, <2>4 DEF OneRequest
<1>2. ReadsInOrder(w2, s, v)
  <2>1. \A i \in 1 .. Len(w2.down) : Reads(s, w2.down[i]) =>
          w2.down[i].value <= v /\ \A p \in Parts : s.view[p] <= Latest(p, w2.down[i].value)
    BY <1>a, <1>b, <1>c DEF ReadsInOrder
  <2>2. ASSUME NEW i \in 1 .. Len(w2.down), NEW j \in 1 .. Len(w2.down), i < j, Reads(s, w2.down[i]), Reads(s, w2.down[j])
        PROVE w2.down[i].value <= w2.down[j].value
    <3>1. i \in 1 .. Len(w.down)
      BY <1>b, <2>2
    <3>2. CASE j \in 1 .. Len(w.down)
      BY <1>a, <1>b, <2>2, <3>1, <3>2 DEF ReadsInOrder
    <3>3. CASE w2.down[j] = f
      BY <1>a, <1>b, <2>2, <3>1, <3>3 DEF ReadsInOrder
    <3> QED
      BY <1>c, <3>2, <3>3
  <2>3. w2.work.kind = "read" /\ w2.work.done => w2.work = w.work /\ ~Reads(s, f)
    BY <1>d
  <2>4. w2.work.kind = "read" /\ w2.work.done => \A i \in 1 .. Len(w2.down) : Reads(s, w2.down[i]) => w2.down[i].value <= w2.work.got
    BY <1>a, <1>b, <1>c, <2>3 DEF ReadsInOrder
  <2> QED
    BY <1>a, <2>1, <2>2, <2>3, <2>4 DEF ReadsInOrder
<1>3. ASSUME w2.open, w2.sub # 0 PROVE LastWord(w2, s)
  <2>1. LastWord(w, s)
    BY <1>3
  <2>2. CASE f.what = "activity"
    <3>1. Len(w2.down) \in 1 .. Len(w2.down) /\ \A j \in 1 .. Len(w2.down) : ~(Len(w2.down) < j)
      BY <1>b
    <3> QED
      BY <1>b, <2>2, <3>1 DEF LastWord
  <2>3. CASE f.what # "activity"
    <3>1. CASE s.activity = w.shown /\ \A i \in 1 .. Len(w.down) : w.down[i].what # "activity"
      BY <1>b, <1>c, <2>3, <3>1 DEF LastWord
    <3>2. CASE ~(s.activity = w.shown /\ \A i \in 1 .. Len(w.down) : w.down[i].what # "activity")
      <4>1. PICK i \in 1 .. Len(w.down) : /\ w.down[i].what = "activity" /\ w.down[i].value = w.shown
                                          /\ \A j \in 1 .. Len(w.down) : i < j => w.down[j].what # "activity"
        BY <2>1, <3>2 DEF LastWord
      <4>2. i \in 1 .. Len(w2.down)
        BY <1>b
      <4>3. \A j \in 1 .. Len(w2.down) : i < j => w2.down[j].what # "activity"
        BY <1>b, <1>c, <2>3, <4>1
      <4> QED
        BY <1>b, <2>3, <4>1, <4>2, <4>3 DEF LastWord
    <3> QED
      BY <3>1, <3>2
  <2> QED
    BY <2>2, <2>3
<1>4. ASSUME w2.open, w2.sub # 0, NEW p \in Parts PROVE Followed(w2, s, v, p)
  <2>1. Followed(w, s, v, p)
    BY <1>4
  <2>2. ASSUME NEW r \in s.waiting, WillShow(w, r, v, p) PROVE WillShow(w2, r, v, p)
    <3>1. w2.work.id = r.id /\ w2.work.done => Latest(p, w2.work.got) = Latest(p, v)
      BY <1>d, <2>2 DEF WillShow
    <3>2. f.what = "answer" /\ f.id = r.id => Latest(p, f.value) = Latest(p, v)
      BY <2>2 DEF WillShow, Reads
    <3> QED
      BY <1>b, <1>c, <2>2, <3>1, <3>2 DEF WillShow
  <2> QED
    BY <2>1, <2>2 DEF Followed
<1> QED
  BY <1>a, <1>1, <1>2, <1>3, <1>4

\* A write of whatever connection: one that subscribes will be told of it.
LEMMA WriteHolds ==
  ASSUME NEW w, NEW s, NEW v, NEW w2, ConnOK(w, s, v), WireShape(w2),
         w2.open => w.open, w2.down = w.down, w2.up = w.up, w2.sub = w.sub, w2.late = w.late, w2.work = w.work,
         w2.shown = w.shown, w.open /\ w.sub # 0 => Told(w2, (v + 1) % 2) /\ \A p \in Parts : Told(w, p) => Told(w2, p)
  PROVE  ConnOK(w2, s, v + 1)
<1> USE DEF ConnOK
<1>a. WireShape(w) /\ ScreenShape(s) /\ OneRequest(w, s) /\ ReadsInOrder(w, s, v) /\ v \in Nat
  OBVIOUS
<1>1. OneRequest(w2, s)
  BY <1>a DEF OneRequest
<1>2. ReadsInOrder(w2, s, v + 1)
  <2>1. \A p \in Parts : Latest(p, v) \in Nat /\ Latest(p, v + 1) \in Nat /\ Latest(p, v) <= Latest(p, v + 1)
    BY <1>a, LatestGrows
  <2>2. \A p \in Parts : s.view[p] <= Latest(p, v + 1)
    BY <1>a, <2>1 DEF ReadsInOrder, ScreenShape
  <2>3. \A i \in 1 .. Len(w.down) : w.down[i].value \in Nat
    <3>1. w.down \in Seq(Frames) /\ \A f \in Frames : f.value \in Nat
      BY <1>a DEF WireShape, Frames
    <3> QED
      BY <3>1
  <2>4. \A x \in Nat : x <= v => x <= v + 1
    BY <1>a
  <2>5. w.work.got \in Nat
    BY <1>a DEF WireShape
  <2> QED
    BY <1>a, <2>2, <2>3, <2>4, <2>5 DEF ReadsInOrder
<1>3. ASSUME w2.open, w2.sub # 0 PROVE LastWord(w2, s)
  BY <1>3 DEF LastWord
<1>4. ASSUME w2.open, w2.sub # 0, NEW p \in Parts PROVE Followed(w2, s, v + 1, p)
  <2>1. CASE p = (v + 1) % 2
    BY <1>4, <2>1 DEF Followed
  <2>2. CASE p # (v + 1) % 2
    <3>1. Latest(p, v + 1) = Latest(p, v)
      BY <1>a, <2>2, LatestStays
    <3>2. Followed(w, s, v, p)
      BY <1>4
    <3>3. ASSUME NEW r \in s.waiting, WillShow(w, r, v, p) PROVE WillShow(w2, r, v + 1, p)
      BY <3>1, <3>3 DEF WillShow
    <3> QED
      BY <1>4, <3>1, <3>2, <3>3 DEF Followed
  <2> QED
    BY <2>1, <2>2
<1> QED
  BY <1>a, <1>1, <1>2, <1>3, <1>4

\* The connection's task ends.
LEMMA EndHolds ==
  ASSUME NEW w, NEW s, NEW v, NEW w2, ConnOK(w, s, v), WireShape(w2),
         w2.down = w.down, w2.sub = 0, w2.up = <<>>, w2.late = {}, w2.work = NoWork
  PROVE  ConnOK(w2, s, v)
<1>a. WireShape(w) /\ ScreenShape(s) /\ OneRequest(w, s) /\ ReadsInOrder(w, s, v) /\ v \in Nat
  BY DEF ConnOK
<1>b. NoWork.id = 0 /\ NoWork.kind = "none" /\ ~NoWork.done
  BY DEF NoWork
<1>1. OneRequest(w2, s)
  BY <1>a, <1>b DEF OneRequest, ScreenShape
<1>2. ReadsInOrder(w2, s, v)
  BY <1>a, <1>b DEF ReadsInOrder
<1> QED
  BY <1>a, <1>1, <1>2 DEF ConnOK

\* The request at work is answered with version g.
LEMMA DoneHolds ==
  ASSUME NEW w, NEW s, NEW v, NEW w2, ConnOK(w, s, v), WireShape(w2),
         w2.open => w.open, w2.down = w.down, w2.up = w.up, w2.sub = w.sub, w2.late = w.late,
         w2.lagged => w.lagged, w.lagged => w2.lagged, w2.backlog = w.backlog, w2.shown = w.shown,
         w2.work.id = w.work.id, w2.work.kind = w.work.kind, w.work.kind = "read" => w2.work.got = v
  PROVE  ConnOK(w2, s, v)
<1>a. WireShape(w) /\ ScreenShape(s) /\ OneRequest(w, s) /\ ReadsInOrder(w, s, v) /\ v \in Nat
  BY DEF ConnOK
<1>1. OneRequest(w2, s)
  BY <1>a DEF OneRequest
<1>2. ReadsInOrder(w2, s, v)
  BY <1>a DEF ReadsInOrder
<1>3. ASSUME w2.open, w2.sub # 0 PROVE LastWord(w2, s)
  BY <1>3 DEF LastWord, ConnOK
<1>4. ASSUME w2.open, w2.sub # 0, NEW p \in Parts PROVE Followed(w2, s, v, p)
  <2>1. Followed(w, s, v, p)
    BY <1>4 DEF ConnOK
  <2>2. ASSUME NEW r \in s.waiting, WillShow(w, r, v, p) PROVE WillShow(w2, r, v, p)
    BY <1>a, <2>2 DEF WillShow, OneRequest
  <2>3. Told(w, p) => Told(w2, p)
    BY DEF Told
  <2> QED
    BY <2>1, <2>2, <2>3 DEF Followed
<1> QED
  BY <1>a, <1>1, <1>2, <1>3, <1>4 DEF ConnOK

\* The daemon takes the request at the head: to answer it next, or later.
LEMMA TakeHolds ==
  ASSUME NEW w, NEW s, NEW v, NEW w2, NEW b, ConnOK(w, s, v), WireShape(w2), w.up # <<>>,
         w2.open => w.open, w2.down = w.down, w2.up = Tail(w.up), w2.sub = w.sub,
         w2.lagged => w.lagged, w.lagged => w2.lagged, w2.backlog = w.backlog, w2.shown = w.shown,
         b.id = Head(w.up).id, b.kind = Head(w.up).kind, ~b.done,
         \/ b.kind = "suggest" /\ w2.late = w.late \cup {b} /\ w2.work = w.work
         \/ w2.late = w.late /\ w2.work = b
  PROVE  ConnOK(w2, s, v)
<1>a. WireShape(w) /\ ScreenShape(s) /\ OneRequest(w, s) /\ ReadsInOrder(w, s, v) /\ v \in Nat
  BY DEF ConnOK
<1>b. /\ Len(w.up) \in Nat /\ 1 \in 1 .. Len(w.up) /\ Head(w.up) = w.up[1]
      /\ \A i \in 1 .. Len(w2.up) : i + 1 \in 1 .. Len(w.up) /\ w2.up[i] = w.up[i + 1]
  BY <1>a, TailAt DEF WireShape
<1>1. OneRequest(w2, s)
  <2>1. b.id < s.next /\ \A r \in s.waiting : b.id = r.id => b.kind = r.kind
    BY <1>a, <1>b DEF OneRequest
  <2>2. \A i \in 1 .. Len(w2.up) : w2.up[i].id < s.next
    BY <1>a, <1>b DEF OneRequest
  <2>3. \A r \in s.waiting, i \in 1 .. Len(w2.up) : w2.up[i].id = r.id => w2.up[i].kind = r.kind
    BY <1>a, <1>b DEF OneRequest
  <2>4. (\A l \in w2.late : l.id < s.next) /\ w2.work.id < s.next
    BY <1>a, <2>1 DEF OneRequest
  <2>5. \A r \in s.waiting : /\ w2.work.id = r.id => w2.work.kind = r.kind
                             /\ \A l \in w2.late : l.id = r.id => r.kind = "suggest"
    BY <1>a, <2>1 DEF OneRequest
  <2> QED
    BY <1>a, <2>2, <2>3, <2>4, <2>5 DEF OneRequest
<1>2. ReadsInOrder(w2, s, v)
  BY <1>a DEF ReadsInOrder
<1>3. ASSUME w2.open, w2.sub # 0 PROVE LastWord(w2, s)
  BY <1>3 DEF LastWord, ConnOK
<1>4. ASSUME w2.open, w2.sub # 0, NEW p \in Parts PROVE Followed(w2, s, v, p)
  <2>1. Followed(w, s, v, p)
    BY <1>4 DEF ConnOK
  <2>2. ASSUME NEW r \in s.waiting, WillShow(w, r, v, p) PROVE WillShow(w2, r, v, p)
    BY <2>2 DEF WillShow
  <2>3. Told(w, p) => Told(w2, p)
    BY DEF Told
  <2> QED
    BY <2>1, <2>2, <2>3 DEF Followed
<1> QED
  BY <1>a, <1>1, <1>2, <1>3, <1>4 DEF ConnOK

\* Subscribed before the Ack, which is followed by what the syncer does.
LEMMA SubscribedHolds ==
  ASSUME NEW w, NEW s, NEW v, NEW w2, NEW ack \in Frames, NEW act \in Frames,
         ConnOK(w, s, v), WireShape(w2), w.up # <<>>,
         w2.up = Tail(w.up), w2.sub = Head(w.up).id, w2.late = w.late, w2.work = w.work,
         w2.down = w.down \o <<ack, act>>, ack.id = w2.sub, act.id = w2.sub,
         ack.what = "ack", act.what = "activity", act.value = w2.shown
  PROVE  ConnOK(w2, s, v)
<1>a. WireShape(w) /\ ScreenShape(s) /\ OneRequest(w, s) /\ ReadsInOrder(w, s, v) /\ v \in Nat
  BY DEF ConnOK
<1>b. /\ Len(w.up) \in Nat /\ 1 \in 1 .. Len(w.up) /\ Head(w.up) = w.up[1]
      /\ \A i \in 1 .. Len(w2.up) : i + 1 \in 1 .. Len(w.up) /\ w2.up[i] = w.up[i + 1]
  BY <1>a, TailAt DEF WireShape
<1>c. /\ w.down \in Seq(Frames) /\ Len(w.down) \in Nat /\ Len(w2.down) = Len(w.down) + 2
      /\ \A i \in 1 .. Len(w.down) : w2.down[i] = w.down[i]
      /\ w2.down[Len(w.down) + 1] = ack /\ w2.down[Len(w.down) + 2] = act
  <2>1. w.down \in Seq(Frames)
    BY <1>a DEF WireShape
  <2> QED
    BY <2>1
<1>d. \A i \in 1 .. Len(w2.down) : \/ i \in 1 .. Len(w.down)
                                   \/ i = Len(w.down) + 1 /\ w2.down[i] = ack
                                   \/ i = Len(w.down) + 2 /\ w2.down[i] = act
  <2>1. \A n \in Nat : \A i \in 1 .. (n + 2) : i \in 1 .. n \/ i = n + 1 \/ i = n + 2
    OBVIOUS
  <2>2. \A i \in 1 .. Len(w2.down) : i \in 1 .. (Len(w.down) + 2)
    BY <1>c
  <2>3. \A i \in 1 .. Len(w2.down) : i \in 1 .. Len(w.down) \/ i = Len(w.down) + 1 \/ i = Len(w.down) + 2
    BY <1>c, <2>1, <2>2
  <2> QED
    BY <1>c, <2>3
<1>1. OneRequest(w2, s)
  <2>1. w2.sub < s.next /\ \A i \in 1 .. Len(w2.up) : w2.up[i].id < s.next
    BY <1>a, <1>b DEF OneRequest
  <2>2. \A r \in s.waiting, i \in 1 .. Len(w2.up) : w2.up[i].id = r.id => w2.up[i].kind = r.kind
    BY <1>a, <1>b DEF OneRequest
  <2>3. \A i \in 1 .. Len(w2.down) : w2.down[i].id < s.next
    BY <1>a, <1>c, <1>d, <2>1 DEF OneRequest
  <2>4. ASSUME NEW r \in s.waiting, NEW i \in 1 .. Len(w2.down), w2.down[i].id = r.id, w2.down[i].what = "refused"
        PROVE  r.kind # "read"
    <3>1. i \in 1 .. Len(w.down) /\ w2.down[i] = w.down[i]
      BY <1>c, <1>d, <2>4
    <3> QED
      BY <1>a, <2>4, <3>1 DEF OneRequest
  <2> QED
    BY <1>a, <2>1, <2>2, <2>3, <2>4 DEF OneRequest
<1>2. ReadsInOrder(w2, s, v)
  <2>1. \A i \in 1 .. Len(w2.down) : Reads(s, w2.down[i]) => i \in 1 .. Len(w.down)
    BY <1>c, <1>d DEF Reads
  <2> QED
    BY <1>a, <1>c, <2>1 DEF ReadsInOrder
<1>3. LastWord(w2, s)
  <2>1. Len(w.down) + 2 \in 1 .. Len(w2.down) /\ \A j \in 1 .. Len(w2.down) : ~(Len(w.down) + 2 < j)
    BY <1>c
  <2> QED
    BY <1>c, <2>1 DEF LastWord
<1>4. ASSUME NEW p \in Parts PROVE Followed(w2, s, v, p)
  <2>1. Len(w.down) + 1 \in 1 .. Len(w2.down)
    BY <1>c
  <2> QED
    BY <1>c, <2>1 DEF Followed, Told, TellsOf
<1> QED
  BY <1>a, <1>1, <1>2, <1>3, <1>4 DEF ConnOK

\* The client asks: request r is the next, and what it reads again is no
\* longer to be read.
LEMMA EmitHolds ==
  ASSUME NEW w, NEW s, NEW v, NEW w2, NEW s2, NEW r, ConnOK(w, s, v), WireShape(w2), ScreenShape(s2),
         w2.open => w.open, w2.down = w.down, w2.sub = w.sub, w2.late = w.late, w2.work = w.work,
         w2.lagged => w.lagged, w.lagged => w2.lagged, w2.backlog = w.backlog, w2.shown = w.shown,
         r.id = s.next, w2.up = w.up \/ (\E q \in [id : Nat, kind : Kinds] : q.id = r.id /\ q.kind = r.kind /\ w2.up = Append(w.up, q)),
         s2.next = s.next + 1, s2.waiting = s.waiting \cup {r}, s2.view = s.view, s2.activity = s.activity,
         s2.stale = s.stale \/ (r.kind = "read" /\ r.of = s.stale)
  PROVE  ConnOK(w2, s2, v)
<1>a. WireShape(w) /\ ScreenShape(s) /\ OneRequest(w, s) /\ ReadsInOrder(w, s, v) /\ v \in Nat
  BY DEF ConnOK
<1>b. \A i \in 1 .. Len(w2.up) : \/ i \in 1 .. Len(w.up) /\ w2.up[i] = w.up[i]
                                 \/ w2.up[i].id = r.id /\ w2.up[i].kind = r.kind
  <2>1. CASE w2.up = w.up
    BY <2>1
  <2>2. ASSUME NEW q \in [id : Nat, kind : Kinds], q.id = r.id, q.kind = r.kind, w2.up = Append(w.up, q)
        PROVE  \A i \in 1 .. Len(w2.up) : (i \in 1 .. Len(w.up) /\ w2.up[i] = w.up[i]) \/ w2.up[i] = q
    BY <1>a, <2>2 DEF WireShape
  <2> QED
    BY <2>1, <2>2
<1>c. s.next \in Nat /\ 0 < s.next
  BY <1>a DEF ScreenShape
<1>d. /\ w.work.id \in Nat /\ w.sub \in Nat /\ (\A l \in w.late : l.id \in Nat) /\ (\A q \in s.waiting : q.id \in Nat)
      /\ \A i \in 1 .. Len(w.up) : w.up[i].id \in Nat
      /\ \A i \in 1 .. Len(w.down) : w.down[i].id \in Nat
  <2>1. w.work.id \in Nat /\ w.sub \in Nat /\ (\A l \in w.late : l.id \in Nat)
    BY <1>a DEF WireShape
  <2>2. \A q \in s.waiting : q.id \in Nat
    BY <1>a DEF ScreenShape
  <2>3. \A i \in 1 .. Len(w.up) : w.up[i].id \in Nat
    <3> DEFINE Q == [id : Nat, kind : Kinds]
    <3>1. w.up \in Seq(Q) /\ \A q \in Q : q.id \in Nat
      BY <1>a DEF WireShape
    <3> HIDE DEF Q
    <3> QED
      BY <3>1
  <2>4. \A i \in 1 .. Len(w.down) : w.down[i].id \in Nat
    <3>1. w.down \in Seq(Frames) /\ \A f \in Frames : f.id \in Nat
      BY <1>a DEF WireShape, Frames
    <3> QED
      BY <3>1
  <2> QED
    BY <2>1, <2>2, <2>3, <2>4
<1>1. OneRequest(w2, s2)
  <2>1. /\ w2.sub < s2.next /\ w2.work.id < s2.next
        /\ \A i \in 1 .. Len(w2.down) : w2.down[i].id < s2.next
        /\ \A l \in w2.late : l.id < s2.next
    <3>1. \A n \in Nat : n < s.next => n < s2.next
      BY <1>c
    <3> QED
      BY <1>a, <1>d, <3>1 DEF OneRequest
  <2>2. \A q \in s2.waiting : 0 < q.id /\ q.id < s2.next
    BY <1>a, <1>c, <1>d DEF OneRequest
  <2>3. \A q, o \in s2.waiting : q.id = o.id => q = o
    BY <1>a, <1>c, <1>d DEF OneRequest
  <2>4. ASSUME NEW i \in 1 .. Len(w2.up) PROVE w2.up[i].id < s2.next
    <3>1. CASE i \in 1 .. Len(w.up) /\ w2.up[i] = w.up[i]
      <4>1. w.up[i].id < s.next /\ w.up[i].id \in Nat
        BY <1>a, <1>d, <3>1 DEF OneRequest
      <4> QED
        BY <1>c, <3>1, <4>1
    <3>2. CASE w2.up[i].id = r.id
      BY <1>c, <3>2
    <3> QED
      BY <1>b, <3>1, <3>2
  <2>5. ASSUME NEW q \in s.waiting, NEW i \in 1 .. Len(w2.up), w2.up[i].id = q.id PROVE w2.up[i].kind = q.kind
    <3>1. q.id < s.next /\ q.id # r.id
      BY <1>a, <1>c, <1>d DEF OneRequest
    <3> QED
      BY <1>a, <1>b, <2>5, <3>1 DEF OneRequest
  <2>6. ASSUME NEW i \in 1 .. Len(w2.up), w2.up[i].id = r.id PROVE w2.up[i].kind = r.kind
    <3>1. \A j \in 1 .. Len(w.up) : w.up[j].id # r.id
      <4>1. \A j \in 1 .. Len(w.up) : w.up[j].id < s.next /\ w.up[j].id \in Nat
        BY <1>a, <1>d DEF OneRequest
      <4> QED
        BY <4>1, <1>c
    <3> QED
      BY <1>b, <2>6, <3>1
  <2>7. /\ w2.work.id # r.id /\ (\A l \in w2.late : l.id # r.id)
        /\ \A i \in 1 .. Len(w2.down) : w2.down[i].id # r.id
    BY <1>a, <1>c, <1>d DEF OneRequest
  <2>8. ASSUME NEW q \in s2.waiting
        PROVE  /\ \A i \in 1 .. Len(w2.up) : w2.up[i].id = q.id => w2.up[i].kind = q.kind
               /\ w2.work.id = q.id => w2.work.kind = q.kind
               /\ \A l \in w2.late : l.id = q.id => q.kind = "suggest"
               /\ \A i \in 1 .. Len(w2.down) : w2.down[i].id = q.id /\ w2.down[i].what = "refused" => q.kind # "read"
    <3>1. CASE q = r
      BY <2>6, <2>7, <3>1
    <3>2. CASE q \in s.waiting
      BY <1>a, <2>5, <3>2 DEF OneRequest
    <3> QED
      BY <3>1, <3>2
  <2> QED
    BY <2>1, <2>2, <2>3, <2>4, <2>8 DEF OneRequest
<1>2. ReadsInOrder(w2, s2, v)
  <2>1. \A i \in 1 .. Len(w.down) : Reads(s2, w.down[i]) => Reads(s, w.down[i])
    BY <1>a, <1>c, <1>d DEF OneRequest, Reads
  <2> QED
    BY <1>a, <2>1 DEF ReadsInOrder
<1>3. ASSUME w2.open, w2.sub # 0 PROVE LastWord(w2, s2)
  BY <1>3 DEF LastWord, ConnOK
<1>4. ASSUME w2.open, w2.sub # 0, NEW p \in Parts PROVE Followed(w2, s2, v, p)
  <2>1. Followed(w, s, v, p)
    BY <1>4 DEF ConnOK
  <2>2. ASSUME NEW q \in s.waiting, WillShow(w, q, v, p) PROVE WillShow(w2, q, v, p)
    BY <2>2 DEF WillShow
  <2>3. Told(w, p) => Told(w2, p)
    BY DEF Told
  <2>4. p \in s.stale => p \in s2.stale \/ WillShow(w2, r, v, p)
    BY <1>a, <1>c, <1>d DEF WillShow, OneRequest
  <2> QED
    BY <2>1, <2>2, <2>3, <2>4 DEF Followed
<1> QED
  BY <1>1, <1>2, <1>3, <1>4, <1>a DEF ConnOK

\* The answer doesn't come.
LEMMA BrokenHolds ==
  ASSUME NEW w, NEW s, NEW v, NEW w2, NEW s2, ConnOK(w, s, v), WireShape(w2), ScreenShape(s2),
         ~w2.open, w2.down = <<>>, w2.up = w.up, w2.sub = w.sub, w2.late = w.late, w2.work = w.work,
         s2.next = s.next, s2.waiting = {}, s2.view = s.view
  PROVE  ConnOK(w2, s2, v)
<1>1. OneRequest(w2, s2)
  BY DEF OneRequest, ConnOK
<1>2. ReadsInOrder(w2, s2, v)
  BY DEF ReadsInOrder, Reads, ConnOK
<1> QED
  BY <1>1, <1>2 DEF ConnOK

\* The client takes frame f from the wire: an answer to a read shows the
\* parts it asked for, and what tells of a change marks them to be read.
LEMMA ReplyHolds ==
  ASSUME NEW w, NEW s, NEW v, NEW w2, NEW s2, NEW f, ConnOK(w, s, v), WireShape(w2), ScreenShape(s2),
         w.down # <<>>, f = Head(w.down), w2.down = Tail(w.down),
         w2.open => w.open, w2.up = w.up, w2.sub = w.sub, w2.late = w.late, w2.work = w.work,
         w2.lagged => w.lagged, w.lagged => w2.lagged, w2.backlog = w.backlog, w2.shown = w.shown,
         s2.next = s.next, s2.waiting \subseteq s.waiting, s.stale \subseteq s2.stale,
         \A p \in Parts : TellsOf(f, p) => p \in s2.stale,
         \A p \in Parts : s2.view[p] = s.view[p] \/ (Reads(s, f) /\ s2.view[p] = Latest(p, f.value)),
         \A r \in s.waiting : r \in s2.waiting \/ s2.stale = Parts
           \/ (r.id = f.id /\ (r.kind = "read" => f.what = "answer" /\ \A p \in r.of \cap Parts : s2.view[p] = Latest(p, f.value))),
         IF f.what = "activity" THEN s2.activity = f.value ELSE s2.activity = s.activity
  PROVE  ConnOK(w2, s2, v)
<1>a. WireShape(w) /\ ScreenShape(s) /\ OneRequest(w, s) /\ ReadsInOrder(w, s, v) /\ v \in Nat
  BY DEF ConnOK
<1>b. /\ Len(w.down) \in Nat /\ 1 \in 1 .. Len(w.down) /\ f = w.down[1] /\ f \in Frames
      /\ Len(w2.down) = Len(w.down) - 1
      /\ \A i \in 1 .. Len(w2.down) : i + 1 \in 1 .. Len(w.down) /\ 1 < i + 1 /\ w2.down[i] = w.down[i + 1]
  <2>1. w.down \in Seq(Frames)
    BY <1>a DEF WireShape
  <2> QED
    BY <2>1, TailAt
<1>c. /\ f.value \in Nat
      /\ \A i \in 1 .. Len(w.down) : w.down[i].value \in Nat
  <2>1. w.down \in Seq(Frames) /\ \A x \in Frames : x.value \in Nat
    BY <1>a DEF WireShape, Frames
  <2> QED
    BY <1>b, <2>1
<1>1. OneRequest(w2, s2)
  <2>1. \A i \in 1 .. Len(w2.down) : w2.down[i].id < s2.next
    BY <1>a, <1>b DEF OneRequest
  <2>2. \A r \in s2.waiting, i \in 1 .. Len(w2.down) : w2.down[i].id = r.id /\ w2.down[i].what = "refused" => r.kind # "read"
    BY <1>a, <1>b DEF OneRequest
  <2> QED
    BY <1>a, <2>1, <2>2 DEF OneRequest
<1>2. ReadsInOrder(w2, s2, v)
  <2>1. \A x : Reads(s2, x) => Reads(s, x)
    BY DEF Reads
  <2>2. \A p \in Parts, a \in Nat, b \in Nat : a <= b => Latest(p, a) <= Latest(p, b)
    BY LatestGrows
  <2>3. ASSUME NEW p \in Parts, NEW b \in Nat, s.view[p] <= Latest(p, b), Reads(s, f) => f.value <= b
        PROVE  s2.view[p] <= Latest(p, b)
    BY <1>c, <2>2, <2>3
  <2>4. \A p \in Parts : s2.view[p] <= Latest(p, v)
    BY <1>a, <1>b, <2>3 DEF ReadsInOrder
  <2>5. ASSUME NEW i \in 1 .. Len(w2.down), Reads(s2, w2.down[i])
        PROVE  w2.down[i].value <= v /\ \A p \in Parts : s2.view[p] <= Latest(p, w2.down[i].value)
    <3>1. Reads(s, w.down[i + 1]) /\ i + 1 \in 1 .. Len(w.down) /\ w2.down[i] = w.down[i + 1]
      BY <1>b, <2>1, <2>5
    <3>2. w.down[i + 1].value <= v /\ \A p \in Parts : s.view[p] <= Latest(p, w.down[i + 1].value)
      BY <1>a, <3>1 DEF ReadsInOrder
    <3>3. Reads(s, f) => f.value <= w.down[i + 1].value
      BY <1>a, <1>b, <3>1 DEF ReadsInOrder
    <3> QED
      BY <1>c, <2>3, <3>1, <3>2, <3>3
  <2>6. ASSUME NEW i \in 1 .. Len(w2.down), NEW j \in 1 .. Len(w2.down), i < j, Reads(s2, w2.down[i]), Reads(s2, w2.down[j])
        PROVE  w2.down[i].value <= w2.down[j].value
    <3>1. i + 1 < j + 1 /\ i + 1 \in 1 .. Len(w.down) /\ j + 1 \in 1 .. Len(w.down)
      BY <1>b, <2>6
    <3> QED
      BY <1>a, <1>b, <2>1, <2>6, <3>1 DEF ReadsInOrder
  <2>7. w2.work.kind = "read" /\ w2.work.done =>
          /\ w2.work.got <= v /\ \A p \in Parts : s2.view[p] <= Latest(p, w2.work.got)
          /\ \A i \in 1 .. Len(w2.down) : Reads(s2, w2.down[i]) => w2.down[i].value <= w2.work.got
    <3> SUFFICES ASSUME w.work.kind = "read", w.work.done
        PROVE /\ w2.work.got <= v /\ \A p \in Parts : s2.view[p] <= Latest(p, w2.work.got)
              /\ \A i \in 1 .. Len(w2.down) : Reads(s2, w2.down[i]) => w2.down[i].value <= w2.work.got
      OBVIOUS
    <3>1. /\ w.work.got <= v /\ \A p \in Parts : s.view[p] <= Latest(p, w.work.got)
          /\ \A i \in 1 .. Len(w.down) : Reads(s, w.down[i]) => w.down[i].value <= w.work.got
      BY <1>a DEF ReadsInOrder
    <3>2. w.work.got \in Nat
      BY <1>a DEF WireShape
    <3>3. \A p \in Parts : s2.view[p] <= Latest(p, w.work.got)
      BY <1>b, <2>3, <3>1, <3>2
    <3>4. ASSUME NEW i \in 1 .. Len(w2.down), Reads(s2, w2.down[i]) PROVE w2.down[i].value <= w.work.got
      BY <1>b, <2>1, <3>1, <3>4
    <3> QED
      BY <3>1, <3>3, <3>4
  <2> QED
    BY <2>4, <2>5, <2>6, <2>7 DEF ReadsInOrder
<1>3. ASSUME w2.open, w2.sub # 0 PROVE LastWord(w2, s2)
  <2>1. LastWord(w, s)
    BY <1>3 DEF ConnOK
  <2>2. CASE s.activity = w.shown /\ \A i \in 1 .. Len(w.down) : w.down[i].what # "activity"
    BY <1>b, <2>2 DEF LastWord
  <2>3. ASSUME NEW i \in 1 .. Len(w.down), w.down[i].what = "activity", w.down[i].value = w.shown,
               \A j \in 1 .. Len(w.down) : i < j => w.down[j].what # "activity"
        PROVE  LastWord(w2, s2)
    <3>1. CASE i = 1
      <4>1. \A j \in 1 .. Len(w2.down) : w2.down[j].what # "activity"
        BY <1>b, <2>3, <3>1
      <4> QED
        BY <1>b, <2>3, <3>1, <4>1 DEF LastWord
    <3>2. CASE i # 1
      <4>1. i - 1 \in 1 .. Len(w2.down) /\ (i - 1) + 1 = i
        BY <1>b, <2>3, <3>2
      <4>2. w2.down[i - 1] = w.down[i]
        BY <1>b, <4>1
      <4>3. ASSUME NEW j \in 1 .. Len(w2.down), i - 1 < j PROVE w2.down[j].what # "activity"
        <5>1. i < j + 1
          BY <1>b, <2>3, <4>3
        <5> QED
          BY <1>b, <2>3, <5>1
      <4> QED
        BY <2>3, <4>1, <4>2, <4>3 DEF LastWord
    <3> QED
      BY <3>1, <3>2
  <2> QED
    BY <2>1, <2>2, <2>3 DEF LastWord
<1>4. ASSUME w2.open, w2.sub # 0, NEW p \in Parts PROVE Followed(w2, s2, v, p)
  <2>1. Followed(w, s, v, p)
    BY <1>4 DEF ConnOK
  <2>2. CASE s.view[p] = Latest(p, v)
    <3>1. CASE s2.view[p] = s.view[p]
      BY <2>2, <3>1 DEF Followed
    <3>2. CASE Reads(s, f) /\ s2.view[p] = Latest(p, f.value)
      <4>1. f.value <= v /\ s.view[p] <= Latest(p, f.value)
        BY <1>a, <1>b, <3>2 DEF ReadsInOrder
      <4>2. Latest(p, f.value) \in Nat /\ Latest(p, v) \in Nat /\ Latest(p, f.value) <= Latest(p, v)
        BY <1>a, <1>c, <4>1, LatestGrows
      <4>3. s2.view[p] = Latest(p, v)
        BY <2>2, <3>2, <4>1, <4>2
      <4> QED
        BY <4>3 DEF Followed
    <3> QED
      BY <3>1, <3>2
  <2>3. CASE p \in s.stale
    BY <2>3 DEF Followed
  <2>4. CASE Told(w, p)
    <3>1. CASE w.lagged \/ \E i \in 1 .. Len(w.backlog) : w.backlog[i] = p
      BY <3>1 DEF Followed, Told
    <3>2. ASSUME NEW i \in 1 .. Len(w.down), TellsOf(w.down[i], p) PROVE Followed(w2, s2, v, p)
      <4>1. CASE i = 1
        BY <1>b, <3>2, <4>1 DEF Followed
      <4>2. CASE i # 1
        <5>1. i - 1 \in 1 .. Len(w2.down) /\ (i - 1) + 1 = i
          BY <1>b, <3>2, <4>2
        <5>2. w2.down[i - 1] = w.down[i]
          BY <1>b, <5>1
        <5> QED
          BY <3>2, <5>1, <5>2 DEF Followed, Told
      <4> QED
        BY <4>1, <4>2
    <3> QED
      BY <2>4, <3>1, <3>2 DEF Told
  <2>5. ASSUME NEW r \in s.waiting, WillShow(w, r, v, p) PROVE Followed(w2, s2, v, p)
    <3>1. CASE r \in s2.waiting
      <4>1. WillShow(w2, r, v, p)
        BY <1>b, <2>5 DEF WillShow
      <4> QED
        BY <3>1, <4>1 DEF Followed
    <3>2. CASE s2.stale = Parts
      BY <3>2 DEF Followed
    <3>3. CASE r.id = f.id /\ (r.kind = "read" => f.what = "answer" /\ \A q \in r.of \cap Parts : s2.view[q] = Latest(q, f.value))
      <4>1. s2.view[p] = Latest(p, f.value) /\ Latest(p, f.value) = Latest(p, v)
        BY <1>b, <2>5, <3>3 DEF WillShow
      <4> QED
        BY <4>1 DEF Followed
    <3> QED
      BY <3>1, <3>2, <3>3
  <2> QED
    BY <2>1, <2>2, <2>3, <2>4, <2>5 DEF Followed
<1> QED
  BY <1>a, <1>1, <1>2, <1>3, <1>4 DEF ConnOK

LEMMA ConnStarts == ConnInit => ConnInv
<1> SUFFICES ASSUME ConnInit PROVE ConnInv
  OBVIOUS
<1>1. ASSUME NEW c \in Peers PROVE ConnOK(wire[c], screens[c], world)
  <2>1. wire[c] = Fresh /\ screens[c] = NewScreen /\ world = 0
    BY <1>1 DEF ConnInit
  <2>2. WireShape(Fresh)
    BY DEF WireShape, Fresh, NoWork
  <2>3. ScreenShape(NewScreen)
    BY DEF ScreenShape, NewScreen, Parts
  <2>4. OneRequest(Fresh, NewScreen)
    BY DEF OneRequest, Fresh, NewScreen, NoWork
  <2>5. ReadsInOrder(Fresh, NewScreen, 0)
    BY DEF ReadsInOrder, Fresh, NewScreen, NoWork, Parts, Latest
  <2>6. Fresh.sub = 0
    BY DEF Fresh
  <2> QED
    BY <2>1, <2>2, <2>3, <2>4, <2>5, <2>6 DEF ConnOK
<1> QED
  BY <1>1 DEF ConnInv, ConnInit

\* A step on one connection.
LEMMA OneMoves ==
  ASSUME ConnInv, NEW c \in Peers, NEW w2, NEW s2,
         wire' = [wire EXCEPT ![c] = w2], screens' = [screens EXCEPT ![c] = s2] \/ (screens' = screens /\ s2 = screens[c]),
         world' = world, passes' = passes, ConnOK(w2, s2, world)
  PROVE  ConnInv'
BY DEF ConnInv

LEMMA EndedHolds ==
  ASSUME ConnInv, NEW c \in Peers, Ended(c), UNCHANGED <<world, passes, screens>> PROVE ConnInv'
<1> DEFINE w == wire[c]  w2 == [w EXCEPT !.serving = FALSE, !.work = NoWork, !.late = {}, !.sub = 0, !.up = <<>>]
<1>1. ConnOK(w, screens[c], world) /\ WireShape(w)
  BY DEF ConnInv, ConnOK
<1>2. /\ DOMAIN w2 = DOMAIN w /\ w2.down = w.down /\ w2.backlog = w.backlog /\ w2.shown = w.shown
      /\ w2.up = <<>> /\ w2.sub = 0 /\ w2.late = {} /\ w2.work = NoWork
  BY <1>1 DEF WireShape
<1>3. wire' = [wire EXCEPT ![c] = w2] /\ screens' = screens
  BY DEF Ended, ConnInv
<1> HIDE DEF w, w2
<1>4. WireShape(w2)
  BY <1>1, <1>2 DEF WireShape, NoWork
<1> QED
  BY <1>1, <1>2, <1>3, <1>4, EndHolds, OneMoves

\* What a frame sent must be, at the connection it is sent on.
LEMMA SentHolds ==
  ASSUME ConnInv, NEW c \in Peers, NEW w2, NEW f \in Frames, Sent(c, w2, f), UNCHANGED <<world, passes, screens>>,
         WireShape(w2), w2.down = wire[c].down, w2.up = wire[c].up, w2.sub = wire[c].sub, w2.late \subseteq wire[c].late,
         w2.work = wire[c].work \/ w2.work = NoWork, w2.open => wire[c].open, f.what = "changed" => f.value \in Parts,
         f.id < screens[c].next, f.what = "refused" => \A r \in screens[c].waiting : r.id = f.id => r.kind # "read",
         Reads(screens[c], f) => /\ wire[c].work.done /\ wire[c].work.kind = "read" /\ f.id = wire[c].work.id
                                 /\ f.value = wire[c].work.got /\ w2.work = NoWork,
         w2.lagged \/ (~wire[c].lagged /\ w2.backlog = wire[c].backlog) \/ f.what = "resync"
           \/ (~wire[c].lagged /\ wire[c].backlog # <<>> /\ w2.backlog = Tail(wire[c].backlog) /\ f.what = "changed" /\ f.value = Head(wire[c].backlog)),
         IF f.what = "activity" THEN f.value = w2.shown ELSE w2.shown = wire[c].shown
  PROVE  ConnInv'
<1> DEFINE w == wire[c]  s == screens[c]  w3 == [w2 EXCEPT !.down = Append(@, f)]
<1>1. ConnOK(w, s, world) /\ WireShape(w)
  BY DEF ConnInv, ConnOK
<1>2. /\ DOMAIN w3 = DOMAIN w2 /\ w3.down = Append(w.down, f) /\ w3.backlog = w2.backlog /\ w3.shown = w2.shown
      /\ w3.up = w2.up /\ w3.sub = w2.sub /\ w3.late = w2.late /\ w3.work = w2.work
  BY DEF WireShape
<1>3. (w3.open => w2.open) /\ (w2.lagged => w3.lagged) /\ (w2.serving => w3.serving)
  BY DEF WireShape
<1>4. wire' = [wire EXCEPT ![c] = w3] /\ screens' = screens
  BY DEF Sent, ConnInv
<1> HIDE DEF w3
<1>5. /\ w.down \in Seq(Frames) /\ Len(w.down) \in Nat /\ Len(w3.down) = Len(w.down) + 1 /\ w3.down \in Seq(Frames)
      /\ \A i \in 1 .. Len(w.down) : w3.down[i] = w.down[i]
      /\ w3.down[Len(w.down) + 1] = f
  BY <1>1, <1>2 DEF WireShape
<1>6. \A i \in 1 .. Len(w3.down) : i \in 1 .. Len(w.down) \/ (i = Len(w.down) + 1 /\ w3.down[i] = f)
  BY <1>5
<1>7. WireShape(w3)
  <2>1. \A i \in 1 .. Len(w3.down) : w3.down[i].what = "changed" => w3.down[i].value \in Parts
    <3>1. \A i \in 1 .. Len(w.down) : w.down[i].what = "changed" => w.down[i].value \in Parts
      BY <1>1 DEF WireShape
    <3> HIDE DEF w
    <3> QED
      BY <1>5, <1>6, <3>1
  <2> QED
    BY <1>1, <1>2, <1>3, <1>5, <2>1 DEF WireShape
<1>8. ASSUME NEW p \in Parts, Told(w, p) PROVE Told(w3, p)
  <2>1. CASE \E i \in 1 .. Len(w.down) : TellsOf(w.down[i], p)
    BY <1>5, <1>6, <2>1 DEF Told
  <2>2. Len(w.down) + 1 \in 1 .. Len(w3.down)
    BY <1>5
  <2>3. CASE w2.lagged
    BY <1>3, <2>3 DEF Told
  <2>4. CASE f.what = "resync"
    BY <1>5, <2>2, <2>4 DEF Told, TellsOf
  <2>5. CASE ~w.lagged /\ w2.backlog = w.backlog
    BY <1>2, <1>8, <2>1, <2>5 DEF Told
  <2>6. CASE ~w.lagged /\ w.backlog # <<>> /\ w2.backlog = Tail(w.backlog) /\ f.what = "changed" /\ f.value = Head(w.backlog)
    <3>1. ASSUME NEW i \in 1 .. Len(w.backlog), w.backlog[i] = p PROVE Told(w3, p)
      <4>1. /\ w.backlog \in Seq(Parts) /\ Len(w.backlog) \in Nat /\ Head(w.backlog) = w.backlog[1]
            /\ Len(w3.backlog) = Len(w.backlog) - 1 /\ \A j \in 1 .. Len(w3.backlog) : w3.backlog[j] = w.backlog[j + 1]
        <5>1. w.backlog \in Seq(Parts) /\ w.backlog # <<>>
          BY <1>1, <2>6 DEF WireShape
        <5>2. w3.backlog = Tail(w.backlog)
          BY <1>2, <2>6
        <5> QED
          BY <5>1, <5>2
      <4>2. CASE i = 1
        BY <1>5, <2>2, <2>6, <3>1, <4>1, <4>2 DEF Told, TellsOf
      <4>3. CASE i # 1
        <5>1. i - 1 \in 1 .. Len(w3.backlog) /\ (i - 1) + 1 = i
          BY <4>1, <4>3
        <5> QED
          BY <3>1, <4>1, <5>1 DEF Told
      <4> QED
        BY <4>2, <4>3
    <3> QED
      BY <1>8, <2>1, <2>6, <3>1 DEF Told
  <2> QED
    BY <2>3, <2>4, <2>5, <2>6
<1>9. ConnOK(w3, s, world)
  <2>1. /\ w3.down = Append(w.down, f) /\ w3.up = w.up /\ w3.sub = w.sub /\ w3.late \subseteq w.late
        /\ w3.work = w.work \/ w3.work = NoWork
        /\ Reads(s, f) => w.work.done /\ w.work.kind = "read" /\ f.id = w.work.id /\ f.value = w.work.got /\ w3.work = NoWork
        /\ IF f.what = "activity" THEN f.value = w3.shown ELSE w3.shown = w.shown
    BY <1>2
  <2>2. w3.open => w.open
    BY <1>3
  <2>3. \A p \in Parts : Told(w, p) => Told(w3, p)
    BY <1>8
  <2> HIDE DEF w, s
  <2> QED
    BY <1>1, <1>7, <2>1, <2>2, <2>3, SendHolds DEF w, s
<1> QED
  BY <1>4, <1>9, OneMoves

LEMMA PushHolds == ASSUME ConnInv, NEW c \in Peers, push(c) PROVE ConnInv'
<1> DEFINE w == wire[c]  s == screens[c]
<1>1. ConnOK(w, s, world) /\ WireShape(w) /\ OneRequest(w, s) /\ w.sub < s.next /\ passes \in Nat
  BY DEF ConnInv, ConnOK, OneRequest
<1>2. PICK f \in Pushes(w) :
        \/ ~w.open /\ Ended(c)
        \/ Sent(c, CASE f.what = "resync" -> [w EXCEPT !.lagged = FALSE]
                     [] f.what = "changed" -> [w EXCEPT !.backlog = Tail(@)]
                     [] OTHER -> [w EXCEPT !.shown = passes], f)
  BY DEF push
<1>3. UNCHANGED <<world, passes, screens>>
  BY DEF push
<1>4. \/ w.lagged /\ f = Frame(w.sub, "resync", 0)
      \/ ~w.lagged /\ w.backlog # <<>> /\ f = Frame(w.sub, "changed", Head(w.backlog))
      \/ f = Frame(w.sub, "activity", passes)
  BY DEF Pushes, Only
<1>5. CASE Ended(c)
  BY <1>3, <1>5, EndedHolds
<1>6. ASSUME w.lagged, f = Frame(w.sub, "resync", 0), Sent(c, [w EXCEPT !.lagged = FALSE], f) PROVE ConnInv'
  <2> DEFINE w2 == [w EXCEPT !.lagged = FALSE]
  <2>1. f \in Frames /\ f.id = w.sub /\ f.what = "resync"
    BY <1>1, <1>6 DEF Frames, Frame, WireShape
  <2>2. /\ DOMAIN w2 = DOMAIN w /\ w2.up = w.up /\ w2.down = w.down /\ w2.backlog = w.backlog /\ w2.shown = w.shown
        /\ w2.sub = w.sub /\ w2.late = w.late /\ w2.work = w.work
    BY <1>1 DEF WireShape
  <2>3. (w2.open => w.open) /\ (w.serving => w2.serving)
    BY <1>1 DEF WireShape
  <2> HIDE DEF w2
  <2>4. WireShape(w2)
    BY <1>1, <2>2, <2>3 DEF WireShape
  <2> QED
    BY <1>1, <1>3, <1>6, <2>1, <2>2, <2>3, <2>4, SentHolds DEF w2, Reads
<1>7. ASSUME ~w.lagged, w.backlog # <<>>, f = Frame(w.sub, "changed", Head(w.backlog)), Sent(c, [w EXCEPT !.backlog = Tail(@)], f) PROVE ConnInv'
  <2> DEFINE w2 == [w EXCEPT !.backlog = Tail(@)]
  <2>1. Head(w.backlog) \in Parts /\ Tail(w.backlog) \in Seq(Parts)
    BY <1>1, <1>7 DEF WireShape
  <2>2. f \in Frames /\ f.id = w.sub /\ f.what = "changed" /\ f.value = Head(w.backlog)
    BY <1>1, <1>7, <2>1 DEF Frames, Frame, WireShape, Parts
  <2>3. /\ DOMAIN w2 = DOMAIN w /\ w2.up = w.up /\ w2.down = w.down /\ w2.backlog = Tail(w.backlog) /\ w2.shown = w.shown
        /\ w2.sub = w.sub /\ w2.late = w.late /\ w2.work = w.work
    BY <1>1 DEF WireShape
  <2>4. (w2.open => w.open) /\ (w.serving => w2.serving)
    BY <1>1 DEF WireShape
  <2> HIDE DEF w2
  <2>5. WireShape(w2)
    BY <1>1, <2>1, <2>3, <2>4 DEF WireShape
  <2> QED
    BY <1>1, <1>3, <1>7, <2>1, <2>2, <2>3, <2>4, <2>5, SentHolds DEF w2, Reads
<1>8. ASSUME f = Frame(w.sub, "activity", passes), Sent(c, [w EXCEPT !.shown = passes], f) PROVE ConnInv'
  <2> DEFINE w2 == [w EXCEPT !.shown = passes]
  <2>1. f \in Frames /\ f.id = w.sub /\ f.what = "activity" /\ f.value = passes
    BY <1>1, <1>8 DEF Frames, Frame, WireShape
  <2>2. /\ DOMAIN w2 = DOMAIN w /\ w2.up = w.up /\ w2.down = w.down /\ w2.backlog = w.backlog /\ w2.shown = passes
        /\ w2.sub = w.sub /\ w2.late = w.late /\ w2.work = w.work
    BY <1>1 DEF WireShape
  <2>3. (w2.open => w.open) /\ (w.serving => w2.serving) /\ (w.lagged => w2.lagged)
    BY <1>1 DEF WireShape
  <2> HIDE DEF w2
  <2>4. WireShape(w2)
    BY <1>1, <2>2, <2>3 DEF WireShape
  <2> QED
    BY <1>1, <1>3, <1>8, <2>1, <2>2, <2>3, <2>4, SentHolds DEF w2, Reads
<1>9. Frame(w.sub, "resync", 0).what = "resync" /\ (\A x : Frame(w.sub, "changed", x).what = "changed")
      /\ Frame(w.sub, "activity", passes).what = "activity"
  BY DEF Frame
<1> QED
  BY <1>2, <1>4, <1>5, <1>6, <1>7, <1>8, <1>9

\* The answer of the request at work, of one answered late, or progress.
LEMMA AnsweredHolds ==
  ASSUME ConnInv, NEW c \in Peers, send(c) \/ SyncProgress(c) \/ send_late(c) PROVE ConnInv'
<1> DEFINE w == wire[c]  s == screens[c]
<1>1. ConnOK(w, s, world) /\ WireShape(w) /\ OneRequest(w, s)
  BY DEF ConnInv, ConnOK
<1>2. UNCHANGED <<world, passes, screens>>
  BY DEF send, SyncProgress, send_late
<1>3. NoWork.id = 0 /\ NoWork.kind = "none" /\ NoWork.got = 0 /\ DOMAIN NoWork = {"id", "kind", "done", "got"}
  BY DEF NoWork
<1>4. CASE Ended(c)
  BY <1>2, <1>4, EndedHolds
<1>5. ASSUME NEW f \in Frames, f.what \in {"answer", "refused", "progress"}, NEW w2, Sent(c, w2, f),
             DOMAIN w2 = DOMAIN w, w2.up = w.up, w2.down = w.down, w2.backlog = w.backlog, w2.shown = w.shown, w2.sub = w.sub,
             w2.late \subseteq w.late, w2.work = w.work \/ w2.work = NoWork,
             w2.open => w.open, w.serving => w2.serving, w2.lagged => w.lagged, w.lagged => w2.lagged, f.id < s.next,
             f.what = "refused" => \A r \in s.waiting : r.id = f.id => r.kind # "read",
             Reads(s, f) => w.work.done /\ w.work.kind = "read" /\ f.id = w.work.id /\ f.value = w.work.got /\ w2.work = NoWork
      PROVE  ConnInv'
  <2>1. WireShape(w2)
    BY <1>1, <1>3, <1>5 DEF WireShape
  <2> QED
    BY <1>1, <1>2, <1>5, <2>1, SentHolds
<1>6. CASE send(c) /\ Sent(c, [w EXCEPT !.work = NoWork], Frame(w.work.id, What(w.work.kind), w.work.got))
  <2> DEFINE w2 == [w EXCEPT !.work = NoWork]  f == Frame(w.work.id, What(w.work.kind), w.work.got)
  <2>1. w.work.done
    BY <1>6 DEF send
  <2>2. /\ f \in Frames /\ f.what \in {"answer", "refused", "progress"} /\ f.id = w.work.id /\ f.value = w.work.got
        /\ f.what = "refused" => w.work.kind = "unknown"
    BY <1>1 DEF Frames, Frame, WireShape, What
  <2>3. /\ DOMAIN w2 = DOMAIN w /\ w2.up = w.up /\ w2.down = w.down /\ w2.backlog = w.backlog /\ w2.shown = w.shown
        /\ w2.sub = w.sub /\ w2.late = w.late /\ w2.work = NoWork
    BY <1>1 DEF WireShape
  <2>4. (w2.open => w.open) /\ (w.serving => w2.serving) /\ (w2.lagged => w.lagged) /\ (w.lagged => w2.lagged)
    BY <1>1 DEF WireShape
  <2>5. Sent(c, w2, f)
    BY <1>6
  <2> HIDE DEF w2, f
  <2>6. f.what = "refused" => \A r \in s.waiting : r.id = f.id => r.kind # "read"
    BY <1>1, <2>2 DEF OneRequest
  <2>7. Reads(s, f) => w.work.kind = "read"
    BY <1>1, <2>2 DEF OneRequest, Reads
  <2>8. f.id < s.next
    BY <1>1, <2>2 DEF OneRequest
  <2> QED
    BY <1>5, <2>1, <2>2, <2>3, <2>4, <2>5, <2>6, <2>7, <2>8
<1>7. CASE SyncProgress(c) /\ Sent(c, w, Frame(w.work.id, "progress", 0))
  <2> DEFINE f == Frame(w.work.id, "progress", 0)
  <2>1. f \in Frames /\ f.what = "progress" /\ f.id = w.work.id
    BY <1>1 DEF Frames, Frame, WireShape
  <2>2. f.id < s.next
    BY <1>1, <2>1 DEF OneRequest
  <2> HIDE DEF f
  <2>3. Sent(c, w, f)
    BY <1>7 DEF f
  <2> QED
    BY <1>5, <2>1, <2>2, <2>3 DEF Reads
<1>8. ASSUME NEW l \in w.late, Sent(c, [w EXCEPT !.late = @ \ {l}], Frame(l.id, "answer", l.got)) PROVE ConnInv'
  <2> DEFINE w2 == [w EXCEPT !.late = @ \ {l}]  f == Frame(l.id, "answer", l.got)
  <2>1. f \in Frames /\ f.what = "answer" /\ f.id = l.id
    BY <1>1 DEF Frames, Frame, WireShape
  <2>2. /\ DOMAIN w2 = DOMAIN w /\ w2.up = w.up /\ w2.down = w.down /\ w2.backlog = w.backlog /\ w2.shown = w.shown
        /\ w2.sub = w.sub /\ w2.late \subseteq w.late /\ w2.work = w.work
    BY <1>1 DEF WireShape
  <2>3. (w2.open => w.open) /\ (w.serving => w2.serving) /\ (w2.lagged => w.lagged) /\ (w.lagged => w2.lagged)
    BY <1>1 DEF WireShape
  <2>4. Sent(c, w2, f)
    BY <1>8
  <2> HIDE DEF w2, f
  <2>5. f.id < s.next /\ ~Reads(s, f)
    BY <1>1, <2>1 DEF OneRequest, Reads
  <2> QED
    BY <1>5, <2>1, <2>2, <2>3, <2>4, <2>5
<1>9. CASE send(c)
  BY <1>4, <1>6, <1>9 DEF send
<1>10. CASE SyncProgress(c)
  BY <1>4, <1>7, <1>10 DEF SyncProgress
<1>11. CASE send_late(c)
  BY <1>4, <1>8, <1>11 DEF send_late
<1> QED
  BY <1>9, <1>10, <1>11

LEMMA ServeHolds == ASSUME ConnInv, NEW c \in Peers, serve_connection(c) PROVE ConnInv'
<1> DEFINE w == wire[c]  s == screens[c]  r == Head(w.up)
<1>1. ConnOK(w, s, world) /\ WireShape(w) /\ OneRequest(w, s) /\ world \in Nat /\ passes \in Nat
  BY DEF ConnInv, ConnOK
<1>2. /\ w.up # <<>> /\ w.serving /\ UNCHANGED <<world, passes, screens>>
      /\ \/ Ended(c) \/ Subscription(c, r.id)
         \/ wire' = [wire EXCEPT ![c] = Take(c, r)]
  BY DEF serve_connection
<1>3. r \in [id : Nat, kind : Kinds] /\ Tail(w.up) \in Seq([id : Nat, kind : Kinds])
  <2> DEFINE Q == [id : Nat, kind : Kinds]
  <2>1. w.up \in Seq(Q) /\ w.up # <<>>
    BY <1>1, <1>2 DEF WireShape
  <2> HIDE DEF Q
  <2>2. r \in Q /\ Tail(w.up) \in Seq(Q)
    BY <2>1
  <2> QED
    BY <2>2 DEF Q
<1>4. CASE Ended(c)
  BY <1>2, <1>4, EndedHolds
<1>5. CASE Subscription(c, r.id)
  <2> DEFINE ack == Frame(r.id, "ack", 0)  act == Frame(r.id, "activity", passes)
             w2 == [w EXCEPT !.up = Tail(@), !.sub = r.id, !.shown = passes, !.backlog = <<>>, !.down = @ \o <<ack, act>>]
  <2>1. ack \in Frames /\ act \in Frames /\ ack.id = r.id /\ act.id = r.id /\ ack.what = "ack" /\ act.what = "activity" /\ act.value = passes
    BY <1>1, <1>3 DEF Frames, Frame
  <2>2. wire' = [wire EXCEPT ![c] = w2]
    BY <1>5 DEF Subscription
  <2> HIDE DEF ack, act
  <2>3. w.down \in Seq(Frames)
    BY <1>1 DEF WireShape
  <2>5. /\ DOMAIN w2 = DOMAIN w /\ w2.up = Tail(w.up) /\ w2.down = w.down \o <<ack, act>> /\ w2.backlog = <<>> /\ w2.shown = passes
        /\ w2.sub = r.id /\ w2.late = w.late /\ w2.work = w.work
    BY <1>1 DEF WireShape
  <2>6. w.serving => w2.serving
    BY <1>1 DEF WireShape
  <2> HIDE DEF w2
  <2>7. w2.down \in Seq(Frames)
    BY <2>1, <2>3, <2>5
  <2>8. ASSUME NEW i \in 1 .. Len(w2.down), w2.down[i].what = "changed" PROVE w2.down[i].value \in Parts
    <3>1. i \in 1 .. Len(w.down) /\ w2.down[i] = w.down[i]
      BY <2>1, <2>3, <2>5, <2>8
    <3> QED
      BY <1>1, <2>8, <3>1 DEF WireShape
  <2>9. WireShape(w2)
    <3>1. w2.backlog \in Seq(Parts)
      BY <2>5
    <3> QED
      BY <1>1, <1>2, <1>3, <2>5, <2>6, <2>7, <2>8, <3>1 DEF WireShape
  <2>10. ConnOK(w2, s, world)
    BY <1>1, <1>2, <2>1, <2>5, <2>9, SubscribedHolds
  <2> QED
    BY <1>2, <2>2, <2>10, OneMoves
<1>6. CASE wire' = [wire EXCEPT ![c] = Take(c, r)]
  <2> DEFINE b == Begun(r)  w2 == Take(c, r)
  <2>1. /\ DOMAIN b = {"id", "kind", "done", "got"} /\ b.id = r.id /\ b.kind = r.kind /\ b.got = world /\ ~b.done
    BY DEF Begun, NoWork
  <2> HIDE DEF b
  <2>2. w2 = IF r.kind = "suggest" THEN [w EXCEPT !.late = @ \cup {b}, !.up = Tail(@)] ELSE [w EXCEPT !.work = b, !.up = Tail(@)]
    BY DEF Take, answered_out_of_order, b
  <2> HIDE DEF w2
  <2>3. /\ DOMAIN w2 = DOMAIN w /\ w2.up = Tail(w.up) /\ w2.down = w.down /\ w2.backlog = w.backlog /\ w2.shown = w.shown /\ w2.sub = w.sub
        /\ \/ b.kind = "suggest" /\ w2.late = w.late \cup {b} /\ w2.work = w.work
           \/ w2.late = w.late /\ w2.work = b
    BY <1>1, <2>1, <2>2 DEF WireShape
  <2>4. (w2.open => w.open) /\ (w.serving => w2.serving) /\ (w2.lagged => w.lagged) /\ (w.lagged => w2.lagged)
    BY <1>1, <2>2 DEF WireShape
  <2>5. WireShape(w2)
    BY <1>1, <1>3, <2>1, <2>3, <2>4 DEF WireShape
  <2>6. ConnOK(w2, s, world)
    BY <1>1, <1>2, <2>1, <2>3, <2>4, <2>5, TakeHolds
  <2> QED
    BY <1>2, <1>6, <2>6, OneMoves DEF w2
<1> QED
  BY <1>2, <1>4, <1>5, <1>6

\* The daemon does what was asked; a write tells every subscription.
LEMMA HandleHolds == ASSUME ConnInv, NEW c \in Peers, handle(c) PROVE ConnInv'
<1> DEFINE w == wire[c]  g == IF w.work.kind = "write" THEN world + 1 ELSE world
           did == [wire EXCEPT ![c].work.done = TRUE, ![c].work.got = g]
<1>1. ConnOK(w, screens[c], world) /\ WireShape(w) /\ world \in Nat /\ DOMAIN wire = Peers
  BY DEF ConnInv, ConnOK
<1>2. /\ UNCHANGED <<passes, screens>>
      /\ IF w.work.kind = "write" THEN world' = world + 1 /\ wire' = Notified(did) ELSE world' = world /\ wire' = did
  BY DEF handle
<1>3. /\ DOMAIN did = Peers /\ \A d \in Peers \ {c} : did[d] = wire[d]
      /\ did[c] = [w EXCEPT !.work = [w.work EXCEPT !.done = TRUE, !.got = g]]
  BY <1>1 DEF WireShape
<1> DEFINE k == [w.work EXCEPT !.done = TRUE, !.got = g]
<1>4. /\ DOMAIN k = {"id", "kind", "done", "got"} /\ k.id = w.work.id /\ k.kind = w.work.kind /\ k.got = g
  BY <1>1 DEF WireShape
<1>5. g \in Nat /\ (w.work.kind = "read" => g = world)
  BY <1>1
<1> HIDE DEF did, g, k
<1>6. ConnOK(did[c], screens[c], world)
  <2> DEFINE w2 == [w EXCEPT !.work = k]
  <2>1. /\ DOMAIN w2 = DOMAIN w /\ w2.up = w.up /\ w2.down = w.down /\ w2.backlog = w.backlog /\ w2.shown = w.shown
        /\ w2.sub = w.sub /\ w2.late = w.late /\ w2.work = k
    BY <1>1 DEF WireShape
  <2>2. (w2.open => w.open) /\ (w.serving => w2.serving) /\ (w2.lagged => w.lagged) /\ (w.lagged => w2.lagged)
    BY <1>1 DEF WireShape
  <2>3. did[c] = w2
    BY <1>3 DEF k
  <2> HIDE DEF w2
  <2>4. WireShape(w2)
    BY <1>1, <1>4, <1>5, <2>1, <2>2 DEF WireShape
  <2>5. ConnOK(w2, screens[c], world)
    BY <1>1, <1>4, <1>5, <2>1, <2>2, <2>4, DoneHolds
  <2> QED
    BY <2>3, <2>5
<1>7. \A d \in Peers : ConnOK(did[d], screens[d], world)
  BY <1>3, <1>6 DEF ConnInv
<1>8. CASE w.work.kind = "write"
  <2>1. wire' = [d \in Peers |-> IF did[d].sub # 0 /\ did[d].serving THEN Kept(did[d]) ELSE did[d]] /\ world' = world + 1
    BY <1>2, <1>8 DEF Notified
  <2>2. ASSUME NEW d \in Peers PROVE ConnOK(wire'[d], screens[d], world + 1)
    <3> DEFINE x == did[d]  y == wire'[d]  part == (world + 1) % 2
    <3>1. ConnOK(x, screens[d], world) /\ WireShape(x)
      BY <1>7 DEF ConnOK
    <3>2. part \in Parts
      BY <1>1 DEF Parts
    <3>3. y = x \/ y = Kept(x)
      BY <2>1
    <3>4. x.sub # 0 => y = Kept(x)
      BY <2>1, <3>1 DEF WireShape
    <3>5. Kept(x) = IF Len(x.backlog) < Backlog THEN [x EXCEPT !.backlog = Append(x.backlog, part)]
                    ELSE [x EXCEPT !.backlog = Append(Tail(x.backlog), part), !.lagged = TRUE]
      BY <2>1 DEF Kept
    <3> HIDE DEF x, y, part
    <3>6. x.backlog \in Seq(Parts) /\ Backlog \in Nat \ {0}
      BY <3>1, ConnectionAssumption DEF WireShape
    <3>7. ASSUME y = Kept(x), Len(x.backlog) < Backlog
          PROVE  ConnOK(y, screens[d], world + 1)
      <4>1. /\ DOMAIN y = DOMAIN x /\ y.up = x.up /\ y.down = x.down /\ y.backlog = Append(x.backlog, part) /\ y.shown = x.shown
            /\ y.sub = x.sub /\ y.late = x.late /\ y.work = x.work
        BY <3>1, <3>5, <3>7 DEF WireShape
      <4>2. (y.open => x.open) /\ (x.serving => y.serving) /\ (x.lagged => y.lagged)
        BY <3>1, <3>5, <3>7 DEF WireShape
      <4>3. /\ y.backlog \in Seq(Parts) /\ Len(x.backlog) + 1 \in 1 .. Len(y.backlog) /\ y.backlog[Len(x.backlog) + 1] = part
            /\ \A i \in 1 .. Len(x.backlog) : i \in 1 .. Len(y.backlog) /\ y.backlog[i] = x.backlog[i]
        BY <3>2, <3>6, <4>1
      <4>4. WireShape(y)
        BY <3>1, <4>1, <4>2, <4>3 DEF WireShape
      <4>5. Told(y, part) /\ \A p \in Parts : Told(x, p) => Told(y, p)
        BY <4>1, <4>2, <4>3 DEF Told
      <4> QED
        BY <3>1, <4>1, <4>2, <4>4, <4>5, WriteHolds DEF part
    <3>8. ASSUME y = Kept(x), ~(Len(x.backlog) < Backlog)
          PROVE  ConnOK(y, screens[d], world + 1)
      <4>1. /\ DOMAIN y = DOMAIN x /\ y.up = x.up /\ y.down = x.down /\ y.backlog = Append(Tail(x.backlog), part) /\ y.shown = x.shown
            /\ y.sub = x.sub /\ y.late = x.late /\ y.work = x.work
        BY <3>1, <3>5, <3>8 DEF WireShape
      <4>2. (y.open => x.open) /\ (x.serving => y.serving) /\ y.lagged
        BY <3>1, <3>5, <3>8 DEF WireShape
      <4>3. y.backlog \in Seq(Parts)
        <5>1. x.backlog # <<>>
          BY <3>6, <3>8
        <5>2. Tail(x.backlog) \in Seq(Parts)
          BY <3>6, <5>1
        <5> QED
          BY <3>2, <4>1, <5>2
      <4>4. WireShape(y)
        BY <3>1, <4>1, <4>2, <4>3 DEF WireShape
      <4>5. Told(y, part) /\ \A p \in Parts : Told(y, p)
        BY <4>2 DEF Told
      <4> QED
        BY <3>1, <4>1, <4>2, <4>4, <4>5, WriteHolds DEF part
    <3>9. ASSUME y = x, x.sub = 0 PROVE ConnOK(y, screens[d], world + 1)
      BY <3>1, <3>9, WriteHolds
    <3> QED
      BY <3>3, <3>4, <3>7, <3>8, <3>9 DEF y
  <2> QED
    BY <1>2, <2>1, <2>2 DEF ConnInv
<1>9. CASE w.work.kind # "write"
  BY <1>2, <1>3, <1>7, <1>9 DEF ConnInv
<1> QED
  BY <1>8, <1>9

LEMMA AskHolds ==
  ASSUME ConnInv, NEW c \in Peers, NEW kind \in Kinds, NEW of \in SUBSET Parts, NEW b, Emit(c, kind, of, b),
         UNCHANGED <<world, passes>>, DOMAIN b = DOMAIN screens[c],
         b.next = screens[c].next, b.waiting = screens[c].waiting, b.view = screens[c].view, b.activity = screens[c].activity,
         b.stale = screens[c].stale \/ (b.stale = {} /\ kind = "read" /\ of = screens[c].stale)
  PROVE  ConnInv'
<1> DEFINE w == wire[c]  s == screens[c]  r == [id |-> b.next, kind |-> kind, of |-> of]
           s2 == [b EXCEPT !.next = @ + 1, !.waiting = @ \cup {r}]  q == [id |-> b.next, kind |-> kind]
           u == IF w.serving THEN Append(w.up, q) ELSE w.up  w2 == [w EXCEPT !.up = u]
<1>1. ConnOK(w, s, world) /\ WireShape(w) /\ ScreenShape(s) /\ world \in Nat /\ DOMAIN wire = Peers
  BY DEF ConnInv, ConnOK
<1>2. screens' = [screens EXCEPT ![c] = s2] /\ wire' = [wire EXCEPT ![c] = w2]
  BY <1>1 DEF Emit, ConnInv, WireShape
<1>3. r \in [id : Nat, kind : Kinds, of : SUBSET Parts] /\ r.id = s.next /\ r.kind = kind /\ r.of = of
  BY <1>1 DEF ScreenShape
<1>4. q \in [id : Nat, kind : Kinds] /\ q.id = r.id /\ q.kind = r.kind
  BY <1>1 DEF ScreenShape
<1>5. u = w.up \/ u = Append(w.up, q)
  OBVIOUS
<1> HIDE DEF r, q, u
<1>6. /\ DOMAIN s2 = DOMAIN s /\ s2.next = s.next + 1 /\ s2.waiting = s.waiting \cup {r} /\ s2.view = s.view
      /\ s2.activity = s.activity /\ s2.stale = b.stale
  BY <1>1 DEF ScreenShape
<1>7. /\ DOMAIN w2 = DOMAIN w /\ w2.up = u /\ w2.down = w.down /\ w2.backlog = w.backlog /\ w2.shown = w.shown
      /\ w2.sub = w.sub /\ w2.late = w.late /\ w2.work = w.work
  BY <1>1 DEF WireShape
<1>8. (w2.open => w.open) /\ (w.serving => w2.serving) /\ (w2.lagged => w.lagged) /\ (w.lagged => w2.lagged)
  BY <1>1 DEF WireShape
<1> HIDE DEF s2, w2
<1>9. ScreenShape(s2)
  <2>1. s2.stale \subseteq Parts /\ s2.next \in Nat \ {0}
    BY <1>1, <1>6 DEF ScreenShape
  <2> QED
    BY <1>1, <1>3, <1>6, <2>1 DEF ScreenShape
<1>10. WireShape(w2)
  <2> DEFINE Q == [id : Nat, kind : Kinds]
  <2>1. w.up \in Seq(Q) /\ q \in Q
    BY <1>1, <1>4 DEF WireShape
  <2> HIDE DEF Q
  <2>2. u \in Seq(Q)
    <3>1. \A z \in Seq(Q), x \in Q : Append(z, x) \in Seq(Q)
      OBVIOUS
    <3> QED
      BY <1>5, <2>1, <3>1
  <2>3. w2.up \in Seq([id : Nat, kind : Kinds])
    BY <1>7, <2>2 DEF Q
  <2> QED
    BY <1>1, <1>7, <1>8, <2>3 DEF WireShape
<1>11. w2.up = w.up \/ \E x \in [id : Nat, kind : Kinds] : x.id = r.id /\ x.kind = r.kind /\ w2.up = Append(w.up, x)
  BY <1>4, <1>5, <1>7
<1>12. ConnOK(w2, s2, world)
  BY <1>1, <1>3, <1>6, <1>7, <1>8, <1>9, <1>10, <1>11, EmitHolds
<1> QED
  BY <1>2, <1>12, OneMoves

LEMMA AsksHold ==
  ASSUME ConnInv, NEW c \in Peers, AskFor(c) \/ Subscribe(c) \/ ReadAgain(c) PROVE ConnInv'
<1> DEFINE s == screens[c]
<1>1. ScreenShape(s)
  BY DEF ConnInv, ConnOK
<1>2. CASE AskFor(c)
  <2> DEFINE b == [s EXCEPT !.asks = @ + 1]
  <2>1. PICK kind \in Asked : Emit(c, kind, Parts, b)
    BY <1>2 DEF AskFor
  <2>2. DOMAIN b = DOMAIN s /\ b.next = s.next /\ b.waiting = s.waiting /\ b.view = s.view /\ b.activity = s.activity /\ b.stale = s.stale
    BY <1>1 DEF ScreenShape
  <2>3. kind \in Kinds /\ Parts \in SUBSET Parts /\ UNCHANGED <<world, passes>>
    BY <1>2 DEF Kinds, AskFor
  <2> HIDE DEF b
  <2> QED
    BY <2>1, <2>2, <2>3, AskHolds
<1>3. CASE Subscribe(c)
  <2>1. Emit(c, "subscribe", {}, s) /\ UNCHANGED <<world, passes>> /\ "subscribe" \in Kinds /\ {} \in SUBSET Parts
    BY <1>3 DEF Kinds, Subscribe
  <2> QED
    BY <2>1, AskHolds
<1>4. CASE ReadAgain(c)
  <2> DEFINE b == [s EXCEPT !.stale = {}]
  <2>1. Emit(c, "read", s.stale, b) /\ UNCHANGED <<world, passes>> /\ "read" \in Kinds /\ s.stale \in SUBSET Parts
    BY <1>1, <1>4 DEF Kinds, ReadAgain, Asked, ScreenShape
  <2>2. DOMAIN b = DOMAIN s /\ b.next = s.next /\ b.waiting = s.waiting /\ b.view = s.view /\ b.activity = s.activity /\ b.stale = {}
    BY <1>1 DEF ScreenShape
  <2> HIDE DEF b
  <2> QED
    BY <2>1, <2>2, AskHolds
<1> QED
  BY <1>2, <1>3, <1>4

LEMMA TakenHolds == ASSUME ConnInv, NEW c \in Peers, take_reply(c) PROVE ConnInv'
<1> DEFINE w == wire[c]  s == screens[c]  f == Head(w.down)  w2 == [w EXCEPT !.down = Tail(@)]
<1>1. ConnOK(w, s, world) /\ WireShape(w) /\ ScreenShape(s) /\ OneRequest(w, s) /\ DOMAIN wire = Peers
  BY DEF ConnInv, ConnOK
<1>2. /\ w.down # <<>> /\ UNCHANGED <<world, passes>>
      /\ screens' = [screens EXCEPT ![c] = Learnt(c, f)] /\ wire' = [wire EXCEPT ![c] = w2]
  BY <1>1 DEF take_reply, WireShape
<1>3. /\ DOMAIN w2 = DOMAIN w /\ w2.up = w.up /\ w2.down = Tail(w.down) /\ w2.backlog = w.backlog /\ w2.shown = w.shown
      /\ w2.sub = w.sub /\ w2.late = w.late /\ w2.work = w.work
  BY <1>1 DEF WireShape
<1>4. (w2.open => w.open) /\ (w.serving => w2.serving) /\ (w2.lagged => w.lagged) /\ (w.lagged => w2.lagged)
  BY <1>1 DEF WireShape
<1> HIDE DEF w2
<1>5. /\ w.down \in Seq(Frames) /\ Len(w.down) \in Nat /\ f \in Frames /\ 1 \in 1 .. Len(w.down) /\ f = w.down[1]
      /\ w2.down \in Seq(Frames)
      /\ \A i \in 1 .. Len(w2.down) : i + 1 \in 1 .. Len(w.down) /\ w2.down[i] = w.down[i + 1]
  <2>1. w.down \in Seq(Frames)
    BY <1>1 DEF WireShape
  <2> QED
    BY <1>2, <1>3, <2>1
<1>6. WireShape(w2)
  <2>1. \A i \in 1 .. Len(w2.down) : w2.down[i].what = "changed" => w2.down[i].value \in Parts
    BY <1>1, <1>5 DEF WireShape
  <2> QED
    BY <1>1, <1>3, <1>4, <1>5, <2>1 DEF WireShape
<1> DEFINE s2 == Learnt(c, f)
<1>7. f.value \in Nat /\ f.id \in Nat /\ (f.what = "changed" => f.value \in Parts)
  <2>1. \A x \in Frames : x.value \in Nat /\ x.id \in Nat
    BY DEF Frames
  <2> QED
    BY <1>1, <1>5, <2>1 DEF WireShape
<1>a. world \in Nat /\ \A p \in Parts : Latest(p, f.value) \in Nat
  BY <1>1, <1>7, LatestGrows DEF ConnOK
<1> SUFFICES ConnOK(w2, s2, world)
  BY <1>2, OneMoves
<1>8. CASE f.what \in {"answer", "refused"} /\ Waited(c, f.id) # {}
  <2> DEFINE r == CHOOSE x \in Waited(c, f.id) : TRUE
  <2>1. r \in s.waiting /\ r.id = f.id
    BY <1>8 DEF Waited
  <2>2. s2 = Answer(s, r, f)
    BY <1>8 DEF Learnt
  <2> HIDE DEF r, s2
  <2> DEFINE sight == IF r.kind = "read" THEN [p \in Parts |-> IF p \in r.of THEN Latest(p, f.value) ELSE s.view[p]] ELSE s.view
  <2>3. /\ DOMAIN s2 = DOMAIN s /\ s2.next = s.next /\ s2.waiting = s.waiting \ {r} /\ s2.stale = s.stale /\ s2.activity = s.activity
        /\ s2.view = sight
    BY <1>1, <2>2 DEF Answer, ScreenShape
  <2>4. sight \in [Parts -> Nat]
    BY <1>1, <1>a DEF ScreenShape
  <2>5. ScreenShape(s2)
    BY <1>1, <2>3, <2>4 DEF ScreenShape
  <2>6. r.kind = "read" => f.what = "answer"
    BY <1>1, <1>5, <1>8, <2>1 DEF OneRequest
  <2>7. \A p \in Parts : s2.view[p] = s.view[p] \/ (Reads(s, f) /\ s2.view[p] = Latest(p, f.value))
    BY <2>1, <2>3, <2>6 DEF Reads
  <2>8. r.kind = "read" => \A p \in r.of \cap Parts : s2.view[p] = Latest(p, f.value)
    BY <2>3
  <2>9. \A p \in Parts : ~TellsOf(f, p)
    BY <1>8 DEF TellsOf
  <2>10. \A x \in s.waiting : x \in s2.waiting \/ x = r
    BY <2>3
  <2> QED
    BY <1>1, <1>2, <1>3, <1>4, <1>6, <1>8, <2>1, <2>3, <2>5, <2>6, <2>7, <2>8, <2>9, <2>10, ReplyHolds
<1>9. CASE f.what = "ack"
  <2>1. s2 = [s EXCEPT !.waiting = @ \ Waited(c, f.id), !.stale = Parts]
    BY <1>9 DEF Learnt
  <2> HIDE DEF s2
  <2>2. /\ DOMAIN s2 = DOMAIN s /\ s2.next = s.next /\ s2.waiting \subseteq s.waiting /\ s2.stale = Parts /\ s2.activity = s.activity
        /\ s2.view = s.view
    BY <1>1, <2>1 DEF ScreenShape
  <2>3. ScreenShape(s2)
    BY <1>1, <2>2 DEF ScreenShape
  <2>4. s.stale \subseteq s2.stale
    BY <1>1, <2>2 DEF ScreenShape
  <2> QED
    BY <1>1, <1>2, <1>3, <1>4, <1>6, <1>9, <2>2, <2>3, <2>4, ReplyHolds
<1>10. CASE f.what \in {"resync", "changed", "activity"}
  <2>1. s2 = [s EXCEPT !.stale = IF f.what = "resync" THEN Parts ELSE IF f.what = "changed" THEN @ \cup {f.value} ELSE @,
                       !.activity = IF f.what = "activity" THEN f.value ELSE @]
    <3>1. CASE f.what = "resync"
      BY <1>1, <3>1 DEF Learnt, ScreenShape
    <3>2. CASE f.what = "changed"
      BY <1>1, <3>2 DEF Learnt, ScreenShape
    <3>3. CASE f.what = "activity"
      BY <1>1, <3>3 DEF Learnt, ScreenShape
    <3> QED
      BY <1>10, <3>1, <3>2, <3>3
  <2> HIDE DEF s2
  <2>2. /\ DOMAIN s2 = DOMAIN s /\ s2.next = s.next /\ s2.waiting = s.waiting /\ s2.view = s.view
        /\ s2.stale = IF f.what = "resync" THEN Parts ELSE IF f.what = "changed" THEN s.stale \cup {f.value} ELSE s.stale
        /\ s2.activity = IF f.what = "activity" THEN f.value ELSE s.activity
    BY <1>1, <2>1 DEF ScreenShape
  <2>3. ScreenShape(s2)
    BY <1>1, <1>7, <2>2 DEF ScreenShape
  <2>4. s.stale \subseteq s2.stale /\ \A p \in Parts : TellsOf(f, p) => p \in s2.stale
    BY <1>1, <1>10, <2>2 DEF ScreenShape, TellsOf
  <2> QED
    BY <1>1, <1>2, <1>3, <1>4, <1>6, <1>10, <2>2, <2>3, <2>4, ReplyHolds
<1>11. CASE /\ ~(f.what \in {"answer", "refused"} /\ Waited(c, f.id) # {})
            /\ f.what \notin {"ack", "resync", "changed", "activity"}
  <2>1. s2 = s
    BY <1>11 DEF Learnt
  <2> HIDE DEF s2
  <2>2. \A p \in Parts : ~TellsOf(f, p)
    BY <1>11 DEF TellsOf
  <2> QED
    BY <1>1, <1>2, <1>3, <1>4, <1>6, <1>11, <2>1, <2>2, ReplyHolds
<1> QED
  BY <1>8, <1>9, <1>10, <1>11

LEMMA UnansweredHolds == ASSUME ConnInv, NEW c \in Peers, Unanswered(c) PROVE ConnInv'
<1> DEFINE w == wire[c]  s == screens[c]  w2 == [w EXCEPT !.open = FALSE, !.down = <<>>]
           all == s.said \cup {[id |-> r.id, what |-> lost(r.kind), kind |-> r.kind] : r \in s.waiting}
           s2 == [s EXCEPT !.waiting = {}, !.said = all]
<1>1. ConnOK(w, s, world) /\ WireShape(w) /\ ScreenShape(s)
  BY DEF ConnInv, ConnOK
<1>2. wire' = [wire EXCEPT ![c] = w2] /\ screens' = [screens EXCEPT ![c] = s2] /\ UNCHANGED <<world, passes>>
  BY <1>1 DEF Unanswered, ConnInv
<1>3. /\ DOMAIN w2 = DOMAIN w /\ w2.up = w.up /\ w2.down = <<>> /\ w2.backlog = w.backlog /\ w2.shown = w.shown
      /\ w2.sub = w.sub /\ w2.late = w.late /\ w2.work = w.work
  BY <1>1 DEF WireShape
<1>4. ~w2.open /\ (w.serving => w2.serving)
  BY <1>1 DEF WireShape
<1> HIDE DEF all
<1>5. /\ DOMAIN s2 = DOMAIN s /\ s2.next = s.next /\ s2.waiting = {} /\ s2.view = s.view
      /\ s2.activity = s.activity /\ s2.stale = s.stale
  BY <1>1 DEF ScreenShape
<1> HIDE DEF w2, s2
<1>6. WireShape(w2)
  BY <1>1, <1>3, <1>4 DEF WireShape
<1>7. ScreenShape(s2)
  BY <1>1, <1>5 DEF ScreenShape
<1> QED
  BY <1>1, <1>2, <1>3, <1>4, <1>5, <1>6, <1>7, BrokenHolds, OneMoves

LEMMA ConnKept == ConnInv /\ [ConnNext]_connVars => ConnInv'
<1> SUFFICES ASSUME ConnInv, [ConnNext]_connVars PROVE ConnInv'
  OBVIOUS
<1>1. CASE Pass
  BY <1>1 DEF Pass, ConnInv
<1>2. CASE UNCHANGED connVars
  BY <1>2 DEF connVars, ConnInv
<1>3. ASSUME NEW c \in Peers, DaemonSide(c) \/ SyncProgress(c) \/ ClientSide(c) \/ AskFor(c) \/ Subscribe(c) \/ Unanswered(c)
      PROVE  ConnInv'
  BY <1>3, ServeHolds, HandleHolds, AnsweredHolds, PushHolds, AsksHold, TakenHolds, UnansweredHolds DEF DaemonSide, ClientSide
<1> QED
  BY <1>1, <1>2, <1>3 DEF ConnNext

\* A subscriber with nothing on its way shows the cache as it is (server.rs
\* Subscription, events.rs): subscribed before the Ack, told of what a full
\* backlog dropped, and answered in order, whatever the other connections
\* write and however long the backlog and the socket are.
THEOREM SubscribersUpToDate == ConnSpec => []NothingMissed
<1>1. ConnInv => NothingMissed
  <2> SUFFICES ASSUME ConnInv, NEW c \in Subscribers, Still(c)
               PROVE  Current(c) /\ (wire[c].shown = passes => screens[c].activity = passes)
    BY DEF NothingMissed
  <2> DEFINE w == wire[c]  s == screens[c]
  <2>1. ConnOK(w, s, world)
    BY ConnectionAssumption DEF ConnInv
  <2>2. w.open /\ w.sub # 0 /\ w.down = <<>> /\ w.backlog = <<>> /\ ~w.lagged /\ s.stale = {} /\ s.waiting = {}
    BY DEF Still
  <2>3. LastWord(w, s) /\ \A p \in Parts : Followed(w, s, world, p)
    BY <2>1, <2>2 DEF ConnOK
  <2>4. \A p \in Parts : ~Told(w, p)
    BY <2>2 DEF Told
  <2>5. Current(c)
    BY <2>2, <2>3, <2>4 DEF Current, Followed
  <2>6. s.activity = w.shown
    BY <2>2, <2>3 DEF LastWord
  <2> QED
    BY <2>5, <2>6
<1> QED
  BY ConnStarts, ConnKept, <1>1, PTL DEF ConnSpec
=============================================================================
