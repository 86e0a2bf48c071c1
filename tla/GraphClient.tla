----------------------------- MODULE GraphClient -----------------------------
(***************************************************************************)
(* The Graph client's calls and the credential they share.  A call takes a *)
(* token, sends, and resends only what the answer proves didn't run or     *)
(* what may run twice.  The credential is a file several processes read    *)
(* and replace: Microsoft spends a refresh token when it issues the next,  *)
(* so a refresh is a compare-and-swap under a lock.                        *)
(*                                                                         *)
(* Tokens are numbered in the order Microsoft issues them; a credential is *)
(* its number, for its access token and its refresh token alike.           *)
(***************************************************************************)
EXTENDS Integers, FiniteSets

CONSTANTS
  Callers,     \* requests under way, of the daemon and of the command line
  MaxRetries,  \* MAX_RETRIES: resends after a 429, 5xx, 408 or network failure
  MaxTokens,   \* bound: credentials issued
  MaxTroubles  \* bound: answers other than success or a token's refusal

ASSUME ClientAssumption ==
  /\ IsFiniteSet(Callers) /\ "nobody" \notin Callers
  /\ MaxRetries \in Nat /\ MaxTokens \in Nat \ {0} /\ MaxTroubles \in Nat

SignedOut == 0          \* no credential file
Nobody == "nobody"      \* the lock is free

VARIABLES
  file,      \* the stored credential
  lock,      \* who holds token.lock
  issued,    \* Microsoft: the last credential issued
  spent,     \* the refresh tokens already used
  refused,   \* the access tokens Graph no longer takes
  broken,    \* history: a refresh's answer was lost, or its process killed
  request,   \* what each call asks for
  step,      \* where it is
  token,     \* the credential it sends
  answered,    \* the credential its refresh was answered with
  attempt,   \* the resends it made
  refreshed, \* whether Graph refused its token before
  ran,       \* how often Graph ran its request
  outcome,   \* what the call returned
  troubles

credential == <<file, lock, issued, spent, refused, broken>>
calls      == <<request, step, token, answered, attempt, refreshed, ran, outcome>>
clientVars == <<credential, calls, troubles>>

(***************************************************************************)
(* The requests: what running one does, and whether the code says it may   *)
(* run twice.  "adds" makes one more thing each time, "sets" and "removes" *)
(* leave the same state however often they run, and so does a read.        *)
(***************************************************************************)
Request(effect, idempotent) == [effect |-> effect, idempotent |-> idempotent]

get_task          == Request("sets", TRUE)
create_task       == Request("adds", FALSE)
update_task(recurring) == Request(IF recurring THEN "adds" ELSE "sets", ~recurring)
delete_task       == Request("removes", TRUE)
create_list       == Request("adds", FALSE)
update_list       == Request("sets", TRUE)
delete_list       == Request("removes", TRUE)
create_category   == Request("adds", FALSE)
update_category   == Request("sets", TRUE)
delete_category   == Request("removes", TRUE)
create_extension  == Request("sets", TRUE)  \* a POST, but Graph upserts by name
replace_extension == Request("sets", TRUE)
delete_extension  == Request("removes", TRUE)
create_child_resent == Request("adds", TRUE) \* mutant
create_child      == Request("adds", FALSE)
update_child      == Request("sets", TRUE)
delete_child      == Request("removes", TRUE)
write_raw         == Request("adds", FALSE)  \* whatever it is, taken for a create

GraphRequests == {get_task, create_task, update_task(TRUE), update_task(FALSE), delete_task,
                  create_list, update_list, delete_list, create_category, update_category,
                  delete_category, create_extension, replace_extension, delete_extension,
                  create_child, update_child, delete_child, write_raw}

Idempotent(c) == request[c].idempotent

ClientInit ==
  /\ file = 1 /\ lock = Nobody /\ issued = 1 /\ spent = {} /\ refused = {} /\ broken = FALSE
  /\ request = [c \in Callers |-> get_task]
  /\ step = [c \in Callers |-> "idle"] /\ token = [c \in Callers |-> SignedOut]
  /\ answered = [c \in Callers |-> SignedOut] /\ attempt = [c \in Callers |-> 0]
  /\ refreshed = [c \in Callers |-> FALSE] /\ ran = [c \in Callers |-> 0]
  /\ outcome = [c \in Callers |-> "none"]
  /\ troubles = 0

Trouble == troubles < MaxTroubles /\ troubles' = troubles + 1
Calm    == UNCHANGED troubles

Return(c, how) == outcome' = [outcome EXCEPT ![c] = how] /\ step' = [step EXCEPT ![c] = "over"]
Go(c, s) == step' = [step EXCEPT ![c] = s] /\ UNCHANGED outcome

-----------------------------------------------------------------------------
(* Taking a token.                                                         *)

\* valid_token: near its expiry the credential is refreshed before it's used.
BeginRequest(c) ==
  /\ step[c] = "idle"
  /\ \E r \in GraphRequests : request' = [request EXCEPT ![c] = r]
  /\ token' = [token EXCEPT ![c] = file]
  /\ \/ file = SignedOut /\ Return(c, "auth")
     \/ file # SignedOut /\ (Go(c, "send") \/ Go(c, "lock"))
  /\ Calm
  /\ UNCHANGED <<credential, answered, attempt, refreshed, ran>>

\* The lock is waited for 15 seconds, by polling.
TakeLock(c) ==
  /\ step[c] = "lock"
  /\ \/ lock = Nobody /\ lock' = c /\ Go(c, "compare")
     \/ lock # Nobody /\ UNCHANGED lock /\ Return(c, "auth")
  /\ Calm
  /\ UNCHANGED <<file, issued, spent, refused, broken, request, token, answered, attempt, refreshed, ran>>

\* Under the lock the file is read again: another process may have been first.
Swap(c) == file = token[c]

CompareTokens(c) ==
  /\ step[c] = "compare"
  /\ \/ file = SignedOut /\ Return(c, "auth") /\ lock' = Nobody /\ UNCHANGED token
     \/ /\ file # SignedOut /\ ~Swap(c)
        /\ token' = [token EXCEPT ![c] = file]
        /\ lock' = Nobody /\ Go(c, "send")
     \/ file # SignedOut /\ Swap(c) /\ Go(c, "spend") /\ UNCHANGED <<token, lock>>
  /\ Calm
  /\ UNCHANGED <<file, issued, spent, refused, broken, request, answered, attempt, refreshed, ran>>

\* Microsoft answers a refresh with the next credential, or refuses one already spent.
Issue == issued < MaxTokens /\ issued' = issued + 1 /\ spent' = spent \cup {file}

Spend(c) ==
  /\ step[c] = "spend"
  /\ \/ /\ file \notin spent /\ Issue
        /\ answered' = [answered EXCEPT ![c] = issued + 1]
        /\ Go(c, "save") /\ Calm /\ UNCHANGED <<file, lock, broken>>
     \/ \* the answer is lost, after Microsoft issued it or before
        /\ Trouble /\ lock' = Nobody /\ Return(c, "network")
        /\ \/ file \notin spent /\ Issue /\ broken' = TRUE
           \/ UNCHANGED <<issued, spent, broken>>
        /\ UNCHANGED <<file, answered>>
     \/ \* invalid_grant: this credential is deleted
        /\ file \in spent /\ file' = SignedOut
        /\ lock' = Nobody /\ Return(c, "auth") /\ Calm
        /\ UNCHANGED <<issued, spent, broken, answered>>
  /\ UNCHANGED <<refused, request, token, attempt, refreshed, ran>>

Saved(c) == answered[c]

SaveToken(c) ==
  /\ step[c] = "save"
  /\ file' = Saved(c)
  /\ token' = [token EXCEPT ![c] = answered[c]]
  /\ lock' = Nobody
  /\ Go(c, "send") /\ Calm
  /\ UNCHANGED <<issued, spent, refused, broken, request, answered, attempt, refreshed, ran>>

\* `auth login` and `auth logout`, of another process, under the same lock.
LockIgnored == TRUE \* mutant
LockFree == lock = Nobody

SignIn ==
  /\ LockFree /\ issued < MaxTokens
  /\ issued' = issued + 1 /\ file' = issued + 1
  /\ UNCHANGED <<lock, spent, refused, broken, calls, troubles>>

SignOut ==
  /\ LockFree /\ file # SignedOut
  /\ file' = SignedOut
  /\ UNCHANGED <<lock, issued, spent, refused, broken, calls, troubles>>

-----------------------------------------------------------------------------
(* Sending.                                                                *)

Ran(c)    == ran' = [ran EXCEPT ![c] = @ + 1]
DidntRun(c) == UNCHANGED ran
Again(c)  == attempt' = [attempt EXCEPT ![c] = @ + 1] /\ Go(c, "send")
GiveUp(c, how) == Return(c, how) /\ UNCHANGED attempt

MayResend(c) == attempt[c] < MaxRetries

\* 2xx, with a body that can be read or not: what isn't JSON is an unknown outcome of what may
\* not run twice (send), JSON that's no object is not (entity).
Succeeds(c) ==
  /\ Ran(c)
  /\ \/ GiveUp(c, "ok") /\ Calm
     \/ Trouble /\ (GiveUp(c, "decode") \/ (~Idempotent(c) /\ GiveUp(c, "unknown")))
  /\ UNCHANGED <<refused, refreshed>>

\* 401: Graph takes this token no more; the call refreshes it once.
Unauthorized(c) ==
  /\ IF token[c] \in refused THEN Calm /\ UNCHANGED refused
     ELSE Trouble /\ refused' = refused \cup {token[c]}
  /\ DidntRun(c) /\ UNCHANGED attempt
  /\ \/ /\ ~refreshed[c] /\ refreshed' = [refreshed EXCEPT ![c] = TRUE]
        /\ Go(c, "lock")
     \/ refreshed[c] /\ UNCHANGED refreshed /\ Return(c, "auth")

\* 429: never run, so always safe to resend, after a wait of up to 30 seconds.
Throttled(c) ==
  /\ Trouble /\ DidntRun(c)
  /\ \/ MayResend(c) /\ Again(c)
     \/ GiveUp(c, "failed")
  /\ UNCHANGED <<refused, refreshed>>

\* 5xx or 408: it may have run.
TransientAgain(c) == Idempotent(c) /\ MayResend(c) /\ Again(c)

Transient(c) ==
  /\ Trouble /\ (Ran(c) \/ DidntRun(c))
  /\ \/ TransientAgain(c)
     \/ ~Idempotent(c) /\ GiveUp(c, "unknown")
     \/ Idempotent(c) /\ ~MayResend(c) /\ GiveUp(c, "failed")
  /\ UNCHANGED <<refused, refreshed>>

\* Any other status; a 404 means what was to be removed is gone.
Rejected(c) ==
  /\ Trouble /\ DidntRun(c)
  /\ GiveUp(c, "failed") \/ (request[c].effect = "removes" /\ GiveUp(c, "ok"))
  /\ UNCHANGED <<refused, refreshed>>

\* No answer: a failed connect never reached Graph, anything later might have.
NoConnect(c) ==
  /\ Trouble /\ DidntRun(c)
  /\ IF MayResend(c) THEN Again(c) ELSE GiveUp(c, "failed")
  /\ UNCHANGED <<refused, refreshed>>

LostAnswer(c) == IF Idempotent(c) THEN "failed" ELSE "unknown"

NoAnswer(c) ==
  /\ Trouble /\ (Ran(c) \/ DidntRun(c))
  /\ IF Idempotent(c) /\ MayResend(c) THEN Again(c) ELSE GiveUp(c, LostAnswer(c))
  /\ UNCHANGED <<refused, refreshed>>

SendCall(c) ==
  /\ step[c] = "send"
  /\ \/ token[c] \notin refused /\ (Succeeds(c) \/ Throttled(c) \/ Transient(c) \/ Rejected(c))
     \/ Unauthorized(c) \/ NoConnect(c) \/ NoAnswer(c)
  /\ UNCHANGED <<file, lock, issued, spent, broken, request, token, answered>>

\* The caller's process is killed: the operating system releases its lock.
Killed(c) ==
  /\ step[c] \notin {"idle", "over"} /\ Trouble
  /\ lock' = IF lock = c THEN Nobody ELSE lock
  /\ broken' = (broken \/ step[c] = "save")
  /\ Return(c, "killed")
  /\ UNCHANGED <<file, issued, spent, refused, request, token, answered, attempt, refreshed, ran>>

CallNext(c) == BeginRequest(c) \/ TakeLock(c) \/ CompareTokens(c) \/ Spend(c) \/ SaveToken(c) \/ SendCall(c)

ClientNext == SignIn \/ SignOut \/ \E c \in Callers : CallNext(c) \/ Killed(c)

ClientSpec == ClientInit /\ [][ClientNext]_clientVars

-----------------------------------------------------------------------------
(* Properties.                                                             *)

\* Every variable has its type; a call is resent at most MAX_RETRIES times.
ClientTypeOK ==
  /\ file \in 0..MaxTokens /\ issued \in 1..MaxTokens
  /\ spent \subseteq 1..MaxTokens /\ refused \subseteq 1..MaxTokens /\ broken \in BOOLEAN
  /\ lock \in Callers \cup {Nobody}
  /\ request \in [Callers -> GraphRequests]
  /\ step \in [Callers -> {"idle", "lock", "compare", "spend", "save", "send", "over"}]
  /\ token \in [Callers -> 0..MaxTokens] /\ answered \in [Callers -> 0..MaxTokens]
  /\ attempt \in [Callers -> 0..MaxRetries] /\ refreshed \in [Callers -> BOOLEAN]
  /\ ran \in [Callers -> Nat] /\ troubles \in 0..MaxTroubles

Adds(c) == request[c].effect = "adds"

\* A request that makes something new each time it runs is never run twice by the client's
\* own resends, whatever is lost, throttled or refused on the way (decide_retry, send_full,
\* and the flag each request is sent with).
RunAtMostOnce == \A c \in Callers : Adds(c) => ran[c] <= 1

\* Signing in and out is the user's alone.  Once signed out, no refresh that was under way
\* brings the credential back (sign_out takes the same lock); and as long as no refresh's
\* answer was lost between Microsoft and the file, no refresh that raced another loses the
\* credential: what's stored stays usable (refresh_compare_and_swap).
UserSignsInAndOut ==
  [][/\ file = SignedOut /\ file' # SignedOut => issued' = issued + 1 /\ calls' = calls
     /\ file # SignedOut /\ file' = SignedOut => broken \/ calls' = calls]_clientVars
=============================================================================
