----------------------------- MODULE Idempotency -----------------------------
(***************************************************************************)
(* Idempotency keys: a request that changes something is run at most once  *)
(* per key, however often its client sends it, and a repeat gets the first *)
(* answer.  A request queues its writes in one transaction, or, for a      *)
(* category or an extension, changes Graph directly.  Its connection may   *)
(* break and its handler be dropped at any await, and the daemon may stop. *)
(*                                                                         *)
(* Each request is one sending, with an op_id of its own; a fingerprint    *)
(* says which of them ask for the same.  Time is whether 24 hours (the     *)
(* window) have passed.                                                    *)
(***************************************************************************)
EXTENDS Integers, FiniteSets

CONSTANTS
  Keys,         \* idempotency keys
  Requests,     \* sendings of requests
  Prints,       \* fingerprints
  Remote,       \* those of requests that change Graph directly
  MaxCrashes,   \* bound: times the daemon stops without warning
  MaxDays,      \* bound: windows that pass
  StoreFaults   \* whether a write to SQLite after the operation may fail

None == "none"

ASSUME KeysAssumption ==
  /\ None \notin Keys \cup Requests \cup Prints
  /\ Remote \subseteq Prints
  /\ MaxCrashes \in Nat /\ MaxDays \in Nat /\ StoreFaults \in BOOLEAN

VARIABLES
  held,      \* idempotency_keys: the request each key is held for
  print,     \* its fingerprint
  result,    \* the result stored with it
  closed     \* how long ago that was: new, or past the window

VARIABLES
  at,        \* each request: not sent, claimed, changed, failed, or over
  under,     \* the key it carries
  asks,      \* and what it asks for
  said,      \* what it was answered
  about,     \* the request whose result that answer is
  made,      \* the requests whose change took effect
  outbox,    \* its operations: none, unresolved, done, old, or discarded
  up, crashes, days

keyVars  == <<held, print, result, closed>>
sendings == <<at, under, asks, said, about>>
effects  == <<made, outbox>>
vars     == <<keyVars, sendings, effects, up, crashes, days>>

Results == {"ok", "unknown"}
Answers == Results \cup {"error", "running", "mismatch"}

Init ==
  /\ held = [k \in Keys |-> None] /\ print = [k \in Keys |-> None]
  /\ result = [k \in Keys |-> None] /\ closed = [k \in Keys |-> None]
  /\ at = [r \in Requests |-> "unsent"] /\ under = [r \in Requests |-> None]
  /\ asks = [r \in Requests |-> None]
  /\ said = [r \in Requests |-> None] /\ about = [r \in Requests |-> None]
  /\ made = {} /\ outbox = [r \in Requests |-> "none"]
  /\ up = TRUE /\ crashes = 0 /\ days = 0

-----------------------------------------------------------------------------
(* The keys.                                                               *)

\* Variants like ExpiredByAge are what a mistake in the code would make of
\* the definition that follows; no action uses them.
ExpiredByAge(k) == result[k] # None /\ closed[k] = "old"

\* A key goes once its result is older than the window, and so is the end
\* of its operations.
Expired(k) ==
  /\ result[k] # None /\ closed[k] = "old"
  /\ held[k] # None => outbox[held[k]] \notin {"unresolved", "done"}

Answered(r, answer, of) ==
  /\ at'    = [at EXCEPT ![r] = "over"]
  /\ said'  = [said EXCEPT ![r] = answer]
  /\ about' = [about EXCEPT ![r] = of]

ClaimByKey(r, k, f) ==
  /\ up
  /\ at[r] = "unsent"
  /\ under' = [under EXCEPT ![r] = k]
  /\ asks'  = [asks EXCEPT ![r] = f]
  /\ IF held[k] = None
     THEN /\ held'  = [held EXCEPT ![k] = r]
          /\ print' = [print EXCEPT ![k] = f]
          /\ at'    = [at EXCEPT ![r] = "claimed"]
          /\ UNCHANGED <<said, about>>
     ELSE /\ Answered(r, IF result[k] = None THEN "running" ELSE result[k], held[k])
          /\ UNCHANGED <<held, print>>
  /\ UNCHANGED <<result, closed, effects, up, crashes, days>>

\* The claim: expired keys are deleted, then the key is held for r if it is
\* free, or says what r is answered.
Claim(r, k, f) ==
  LET kept   == {x \in Keys : held[x] # None /\ ~Expired(x)}
      free   == k \notin kept
      holder == IF free THEN r ELSE held[k]
  IN  /\ up
      /\ at[r] = "unsent"
      /\ under'  = [under EXCEPT ![r] = k]
      /\ asks'   = [asks EXCEPT ![r] = f]
      /\ held'   = [x \in Keys |-> IF x = k THEN holder ELSE IF x \in kept THEN held[x] ELSE None]
      /\ print'  = [x \in Keys |-> IF x = k /\ free THEN f ELSE IF x \in kept THEN print[x] ELSE None]
      /\ result' = [x \in Keys |-> IF x \in kept THEN result[x] ELSE None]
      /\ closed' = [x \in Keys |-> IF x \in kept THEN closed[x] ELSE None]
      /\ \/ free /\ at' = [at EXCEPT ![r] = "claimed"] /\ UNCHANGED <<said, about>>
         \/ ~free /\ print[k] # f /\ Answered(r, "mismatch", None)
         \/ ~free /\ print[k] = f /\ result[k] # None /\ Answered(r, result[k], held[k])
         \/ ~free /\ print[k] = f /\ result[k] = None /\ Answered(r, "running", held[k])
      /\ UNCHANGED <<effects, up, crashes, days>>

-----------------------------------------------------------------------------
(* The operation under the key.                                            *)

\* The writes are queued, in one transaction.
Queue(r) ==
  /\ up
  /\ at[r] = "claimed" /\ asks[r] \notin Remote
  /\ at'     = [at EXCEPT ![r] = "changed"]
  /\ made'   = made \cup {r}
  /\ outbox' = [outbox EXCEPT ![r] = "unresolved"]
  /\ UNCHANGED <<keyVars, under, asks, said, about, up, crashes, days>>

\* Graph makes the change; the record of it for undo may fail.
Change(r) ==
  /\ up
  /\ at[r] = "claimed" /\ asks[r] \in Remote
  /\ at'     = [at EXCEPT ![r] = "changed"]
  /\ made'   = made \cup {r}
  /\ \/ outbox' = [outbox EXCEPT ![r] = "done"]
     \/ StoreFaults /\ UNCHANGED outbox
  /\ UNCHANGED <<keyVars, under, asks, said, about, up, crashes, days>>

\* The request is refused or fails.  A queued one has changed nothing; one
\* sent to Graph may have been made, its answer lost.
Fail(r) ==
  /\ up
  /\ at[r] = "claimed"
  /\ at'   = [at EXCEPT ![r] = "failed"]
  /\ made' \in {made} \cup (IF asks[r] \in Remote THEN {made \cup {r}} ELSE {})
  /\ UNCHANGED <<keyVars, under, asks, said, about, outbox, up, crashes, days>>

\* The result is stored with the key, unless that fails.
FinishKey(r) ==
  /\ up
  /\ at[r] = "changed"
  /\ \/ /\ result' = [result EXCEPT ![under[r]] = "ok"]
        /\ closed' = [closed EXCEPT ![under[r]] = "new"]
     \/ StoreFaults /\ UNCHANGED <<result, closed>>
  /\ Answered(r, "ok", r)
  /\ UNCHANGED <<held, print, under, asks, effects, up, crashes, days>>

Freed(k) ==
  /\ held'   = [held EXCEPT ![k] = None]
  /\ print'  = [print EXCEPT ![k] = None]
  /\ result' = [result EXCEPT ![k] = None]
  /\ closed' = [closed EXCEPT ![k] = None]

\* The key is freed, unless that fails.
ReleaseKey(r) ==
  /\ up
  /\ at[r] = "failed"
  /\ Freed(under[r]) \/ (StoreFaults /\ UNCHANGED keyVars)
  /\ Answered(r, "error", r)
  /\ UNCHANGED <<under, asks, effects, up, crashes, days>>

\* The connection breaks: the handler is dropped where it is.
Drop(r) ==
  /\ up
  /\ at[r] \in {"claimed", "changed", "failed"}
  /\ at' = [at EXCEPT ![r] = "over"]
  /\ UNCHANGED <<keyVars, under, asks, said, about, effects, up, crashes, days>>

-----------------------------------------------------------------------------
(* The outbox, time and the daemon.                                        *)

Resolve(r) ==
  /\ up
  /\ outbox[r] = "unresolved"
  /\ outbox' = [outbox EXCEPT ![r] = "done"]
  /\ UNCHANGED <<keyVars, sendings, made, up, crashes, days>>

\* A discarded operation's row is deleted.
Discard(r) ==
  /\ up
  /\ outbox[r] = "unresolved"
  /\ outbox' = [outbox EXCEPT ![r] = "discarded"]
  /\ UNCHANGED <<keyVars, sendings, made, up, crashes, days>>

WindowPasses ==
  /\ days < MaxDays
  /\ days'   = days + 1
  /\ closed' = [k \in Keys |-> IF closed[k] = "new" THEN "old" ELSE closed[k]]
  /\ outbox' = [r \in Requests |-> IF outbox[r] = "done" THEN "old" ELSE outbox[r]]
  /\ UNCHANGED <<held, print, result, sendings, made, up, crashes>>

Crash ==
  /\ up
  /\ crashes < MaxCrashes
  /\ crashes' = crashes + 1
  /\ up' = FALSE
  /\ at' = [r \in Requests |-> IF at[r] \in {"claimed", "changed", "failed"} THEN "over" ELSE at[r]]
  /\ UNCHANGED <<keyVars, under, asks, said, about, effects, days>>

\* Before connections are accepted, what never finished is settled as
\* unknown.
Start ==
  /\ ~up
  /\ up' = TRUE
  /\ result' = [k \in Keys |-> IF held[k] # None /\ result[k] = None THEN "unknown" ELSE result[k]]
  /\ closed' = [k \in Keys |-> IF held[k] # None /\ result[k] = None THEN "new" ELSE closed[k]]
  /\ UNCHANGED <<held, print, sendings, effects, crashes, days>>

-----------------------------------------------------------------------------

Handler(r) == Queue(r) \/ Change(r) \/ Fail(r) \/ FinishKey(r) \/ ReleaseKey(r)

Next ==
  \/ \E r \in Requests :
       \/ \E k \in Keys, f \in Prints : Claim(r, k, f)
       \/ Handler(r) \/ Drop(r) \/ Resolve(r) \/ Discard(r)
  \/ WindowPasses \/ Crash \/ Start

Spec == Init /\ [][Next]_vars

-----------------------------------------------------------------------------
(* What must hold.                                                         *)

\* Every variable keeps its type.
TypeOK ==
  /\ held \in [Keys -> Requests \cup {None}]
  /\ print \in [Keys -> Prints \cup {None}]
  /\ result \in [Keys -> Results \cup {None}]
  /\ closed \in [Keys -> {None, "new", "old"}]
  /\ at \in [Requests -> {"unsent", "claimed", "changed", "failed", "over"}]
  /\ under \in [Requests -> Keys \cup {None}]
  /\ asks \in [Requests -> Prints \cup {None}]
  /\ said \in [Requests -> Answers \cup {None}]
  /\ about \in [Requests -> Requests \cup {None}]
  /\ made \subseteq Requests
  /\ outbox \in [Requests -> {"none", "unresolved", "done", "old", "discarded"}]
  /\ up \in BOOLEAN /\ crashes \in 0 .. MaxCrashes /\ days \in 0 .. MaxDays

\* One change per key: while the operations a key's request queued are
\* unresolved, and for the window after, no other request under the key is
\* run, whatever its client, its connection or the daemon does.
OneChangePerKey ==
  [][\A r \in made' \ made, s \in made :
       under[r] = under[s] => outbox[s] \notin {"unresolved", "done"}]_vars

\* An answer under a key is about a request that asked for the same, and ok
\* means its change was made.
AnswersTrue ==
  \A r \in Requests :
    /\ about[r] # None => asks[about[r]] = asks[r] /\ under[about[r]] = under[r]
    /\ said[r] = "ok" => about[r] \in made

\* A key is in use by one handler at most, the one it is held for, and as
\* long as that hasn't ended it has no result.
KeyHeldByOne ==
  \A r \in Requests :
    at[r] \in {"claimed", "changed", "failed"} => held[under[r]] = r /\ result[under[r]] = None

\* Why these hold.  A key in use names the request that claimed it, and has
\* a result only once that has run.
KeyOK(k) ==
  /\ held[k] # None =>
       under[held[k]] = k /\ asks[held[k]] = print[k] /\ at[held[k]] # "unsent"
  /\ result[k] # None => held[k] # None
  /\ result[k] = "ok" => held[k] \in made

\* A handler that hasn't ended holds its key.
HandlerOK(r) ==
  at[r] \in {"claimed", "changed", "failed"} =>
    /\ up /\ under[r] \in Keys /\ held[under[r]] = r /\ result[under[r]] = None
    /\ at[r] = "changed" <=> r \in made /\ at[r] # "failed"
    /\ outbox[r] # "none" => at[r] = "changed"

\* And so does a request whose operations are open, until the window after
\* them has passed.
OpenOK(r) ==
  /\ outbox[r] \in {"unresolved", "done"} => under[r] \in Keys /\ held[under[r]] = r
  /\ at[r] = "unsent" => outbox[r] = "none" /\ r \notin made

AnswerOK(r) ==
  /\ about[r] # None =>
       /\ asks[about[r]] = asks[r] /\ under[about[r]] = under[r]
       /\ at[about[r]] # "unsent" /\ at[r] # "unsent"
  /\ said[r] = "ok" => about[r] \in made

KeysOK == (\A k \in Keys : KeyOK(k)) /\ \A r \in Requests : HandlerOK(r) /\ OpenOK(r) /\ AnswerOK(r)

=============================================================================
