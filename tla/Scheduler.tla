------------------------------ MODULE Scheduler ------------------------------
(***************************************************************************)
(* When sync passes run, and who waits for them: the daemon's Syncer.  One *)
(* loop runs passes, by the clock or when it is woken; requests on other   *)
(* threads ask for a pass that starts after them, or for the cache to have *)
(* been filled once, and wait.                                             *)
(*                                                                         *)
(* The code numbers the passes and compares the numbers; only differences  *)
(* matter, so a request's number is kept as the passes still to finish     *)
(* before it, and the counters as whether a pass is running.  Time since   *)
(* the last pass is kept in steps: under 10 s, under 20 s (ACTIVE_INTERVAL *)
(* and twice FOCUS_STALE_SECS), under 5 min (IDLE_INTERVAL), and beyond.   *)
(***************************************************************************)
EXTENDS Integers

CONSTANTS
  Clients,   \* connections, and the daemon's own workers
  Lists      \* lists the terminal interface may have on screen

ActiveStep == 2      \* age at which ACTIVE_INTERVAL has passed
IdleStep   == 3      \* age at which IDLE_INTERVAL has passed
StaleStep  == 1      \* age at which FOCUS_STALE_SECS have passed
NoList     == "none"

ASSUME ListsAssumption == NoList \notin Lists

VARIABLES
  loop,       \* the loop: in a pass, asleep, or about to start the next
  permit,     \* the wake-up stored in Notify
  age,        \* time since the last pass finished
  armed,      \* the age the loop sleeps until
  changed,    \* whether activity has changed since the loop looked
  ready,      \* whether a pass has filled the cache

  connected,  \* activity: the connections open
  recent,     \* and whether a request came in the last ten minutes
  focus,      \* the list on screen

  at,         \* each request: where it is
  wants,      \* and what it is for
  left,       \* its number, less the passes finished
  saw         \* what has happened since it took its number: nothing, a pass
              \* that will do for it began, or has finished

loopVars == <<loop, permit, age, armed, changed, ready>>
activity == <<connected, recent, focus>>
requests == <<at, wants, left, saw>>
vars     == <<loopVars, activity, requests>>

Running == loop = "pass"
Active  == connected # {} \/ recent

\* The first pass counts as started from the beginning.
Init ==
  /\ loop = "pass" /\ permit = FALSE /\ age = 0 /\ armed = IdleStep /\ changed = FALSE
  /\ ready = FALSE
  /\ connected = {} /\ recent = FALSE /\ focus = NoList
  /\ at = [c \in Clients |-> "idle"] /\ wants = [c \in Clients |-> "none"]
  /\ left = [c \in Clients |-> 0] /\ saw = [c \in Clients |-> "nothing"]

-----------------------------------------------------------------------------
(* The loop.                                                               *)

Interval == IF Active THEN ActiveStep ELSE IdleStep

\* One pass fewer to finish, for everyone with a number.
Fewer == [c \in Clients |-> IF left[c] > 0 THEN left[c] - 1 ELSE 0]

Served == [c \in Clients |-> IF saw[c] = "begun" THEN "finished" ELSE saw[c]]

\* The pass is over, whether or not it filled the cache; the loop looks at
\* the activity and sleeps.
PassEnds ==
  /\ loop = "pass"
  /\ loop'    = "asleep"
  /\ left'    = Fewer
  /\ saw'     = Served
  /\ ready'   \in {ready, TRUE}
  /\ age'     = 0
  /\ armed'   = Interval
  /\ changed' = FALSE
  /\ UNCHANGED <<permit, activity, at, wants>>

\* Activity changed while it sleeps: it looks again.
LooksAgain ==
  /\ loop = "asleep"
  /\ changed
  /\ armed'   = Interval
  /\ changed' = FALSE
  /\ UNCHANGED <<loop, permit, age, ready, activity, requests>>

Elapsed ==
  /\ loop = "asleep"
  /\ age >= armed
  /\ loop' = "starting"
  /\ UNCHANGED <<permit, age, armed, changed, ready, activity, requests>>

Woken ==
  /\ loop = "asleep"
  /\ permit
  /\ permit' = FALSE
  /\ loop'   = "starting"
  /\ UNCHANGED <<age, armed, changed, ready, activity, requests>>

Starts ==
  /\ loop = "starting"
  /\ loop' = "pass"
  /\ saw'  = [c \in Clients |-> IF at[c] \in {"waking", "waiting"} /\ saw[c] = "nothing" THEN "begun" ELSE saw[c]]
  /\ UNCHANGED <<permit, age, armed, changed, ready, activity, at, wants, left>>

-----------------------------------------------------------------------------
(* Requests.                                                               *)

Connect(c) ==
  /\ c \notin connected
  /\ connected' = connected \cup {c}
  /\ changed'   = TRUE
  /\ UNCHANGED <<loop, permit, age, armed, ready, recent, focus, requests>>

\* Its next answer or progress can't be sent: the request is dropped where
\* it awaits something.
Leave(c) ==
  /\ c \in connected
  /\ at[c] \in {"idle", "settling", "waiting"}
  /\ connected' = connected \ {c}
  /\ changed'   = TRUE
  /\ at'        = [at EXCEPT ![c] = "idle"]
  /\ left'      = [left EXCEPT ![c] = 0]
  /\ wants'     = [wants EXCEPT ![c] = "none"]
  /\ saw'       = [saw EXCEPT ![c] = "nothing"]
  /\ UNCHANGED <<loop, permit, age, armed, ready, recent, focus>>

\* A request comes: a sync to wait for, one not to wait for, or a write or
\* read that needs the cache filled.
Arrives(c, what) ==
  /\ c \in connected
  /\ at[c] = "idle"
  /\ what = "ready" => ~ready
  /\ at'      = [at EXCEPT ![c] = IF what = "ready" THEN "settling" ELSE "requesting"]
  /\ wants'   = [wants EXCEPT ![c] = what]
  /\ recent'  = TRUE
  /\ changed' = TRUE
  /\ UNCHANGED <<loop, permit, age, armed, ready, connected, focus, left, saw>>

RequestRunning(c) ==
  /\ at[c] = "requesting"
  /\ left' = [left EXCEPT ![c] = 1]
  /\ saw'  = [saw EXCEPT ![c] = "nothing"]
  /\ at'   = [at EXCEPT ![c] = "waking"]
  /\ UNCHANGED <<loopVars, activity, wants>>

\* The number of the next pass to start.
Request(c) ==
  /\ at[c] = "requesting"
  /\ left' = [left EXCEPT ![c] = IF Running THEN 2 ELSE 1]
  /\ saw'  = [saw EXCEPT ![c] = "nothing"]
  /\ at'   = [at EXCEPT ![c] = "waking"]
  /\ UNCHANGED <<loopVars, activity, wants>>

\* A handler that doesn't wait is over.
Over(c) ==
  /\ at'    = [at EXCEPT ![c] = "idle"]
  /\ wants' = [wants EXCEPT ![c] = "none"]
  /\ left'  = [left EXCEPT ![c] = 0]
  /\ saw'   = [saw EXCEPT ![c] = "nothing"]

\* notify_one: the loop is woken, or will be when it next sleeps.
Wake(c) ==
  /\ at[c] = "waking"
  /\ permit' = TRUE
  /\ IF wants[c] = "poke" THEN Over(c) ELSE at' = [at EXCEPT ![c] = "waiting"] /\ UNCHANGED <<wants, left, saw>>
  /\ UNCHANGED <<loop, age, armed, changed, ready, activity>>

\* settle: the running pass will do; with none running, one is requested.
Settle(c) ==
  /\ at[c] = "settling"
  /\ IF Running
     THEN /\ at'   = [at EXCEPT ![c] = "waiting"]
          /\ left' = [left EXCEPT ![c] = 1]
          /\ saw'  = [saw EXCEPT ![c] = "begun"]
     ELSE at' = [at EXCEPT ![c] = "requesting"] /\ UNCHANGED <<left, saw>>
  /\ UNCHANGED <<loopVars, activity, wants>>

AnswerAtRest(c) ==
  /\ at[c] = "waiting"
  /\ left[c] = 0 /\ ~Running
  /\ Over(c)
  /\ UNCHANGED <<loopVars, activity>>

\* wait_for returns.
Answer(c) ==
  /\ at[c] = "waiting"
  /\ left[c] = 0
  /\ Over(c)
  /\ UNCHANGED <<loopVars, activity>>

\* The focus hint: another list on screen starts a pass when none is
\* running and the last is ten seconds old.
Focus(c, l) ==
  /\ c \in connected
  /\ at[c] = "idle"
  /\ l # focus
  /\ focus'   = l
  /\ recent'  = TRUE
  /\ changed' = TRUE
  /\ IF l # NoList /\ ~Running /\ age >= StaleStep
     THEN at' = [at EXCEPT ![c] = "requesting"] /\ wants' = [wants EXCEPT ![c] = "poke"]
     ELSE UNCHANGED <<at, wants>>
  /\ UNCHANGED <<loop, permit, age, armed, ready, connected, left, saw>>

-----------------------------------------------------------------------------
(* The clock.  The loop reacts before the next step of time.               *)

Due == changed \/ permit \/ age >= armed

Tick ==
  /\ loop = "asleep"
  /\ ~Due
  /\ age < IdleStep
  /\ age' = age + 1
  /\ UNCHANGED <<loop, permit, armed, changed, ready, activity, requests>>

\* Ten minutes without a request.
Quiet ==
  /\ recent
  /\ recent' = FALSE
  /\ UNCHANGED <<loopVars, connected, focus, requests>>

-----------------------------------------------------------------------------

Loop == PassEnds \/ LooksAgain \/ Elapsed \/ Woken \/ Starts

Handler(c) == Request(c) \/ Wake(c) \/ Settle(c) \/ Answer(c)

Next ==
  \/ Loop \/ Tick \/ Quiet
  \/ \E c \in Clients :
       \/ Connect(c) \/ Leave(c) \/ Handler(c)
       \/ \E what \in {"sync", "poke", "ready"} : Arrives(c, what)
       \/ \E l \in Lists \cup {NoList} : Focus(c, l)

Spec == Init /\ [][Next]_vars

\* A pass ends (its requests have timeouts and limited retries), the loop
\* and every handler go on.
FairSpec ==
  /\ Spec
  /\ WF_vars(PassEnds) /\ WF_vars(Elapsed \/ Woken) /\ WF_vars(Starts)
  /\ \A c \in Clients : WF_vars(Handler(c))

-----------------------------------------------------------------------------
(* What must hold.                                                         *)

LoopTypes ==
  /\ loop \in {"pass", "asleep", "starting"}
  /\ permit \in BOOLEAN /\ changed \in BOOLEAN /\ ready \in BOOLEAN
  /\ age \in 0 .. IdleStep /\ armed \in {ActiveStep, IdleStep}

ActivityTypes ==
  /\ connected \subseteq Clients /\ recent \in BOOLEAN /\ focus \in Lists \cup {NoList}

RequestTypes ==
  /\ at \in [Clients -> {"idle", "settling", "requesting", "waking", "waiting"}]
  /\ wants \in [Clients -> {"none", "sync", "poke", "ready"}]
  /\ left \in [Clients -> 0 .. 2]
  /\ saw \in [Clients -> {"nothing", "begun", "finished"}]

\* Every variable keeps its type.
TypeOK == LoopTypes /\ ActivityTypes /\ RequestTypes

\* Whoever waits is answered by the right pass and the first one that
\* is: for a sync, one that began after it was asked for; for a cache to
\* be filled, the one that was running, or else such a one.
OwnPass ==
  \A c \in Clients : at[c] = "waiting" => (left[c] = 0 <=> saw[c] = "finished")

\* A wake-up is never lost: whoever waits while the loop sleeps has left a
\* permit, so it doesn't wait for the clock.
NoLostWake ==
  (loop = "asleep" /\ \E c \in Clients : at[c] = "waiting" /\ left[c] > 0) => permit

\* Why the two hold: a number counts the passes still to finish before
\* the first that will do, and what the loop won't get to by itself has
\* left a permit.
RequestOK(c) ==
  /\ at[c] \in {"waking", "waiting"} =>
       \/ saw[c] = "finished" /\ left[c] = 0
       \/ saw[c] = "begun" /\ left[c] = 1 /\ Running
       \/ saw[c] = "nothing" /\ left[c] = IF Running THEN 2 ELSE 1
  /\ at[c] = "waiting" /\ left[c] > 0 /\ (loop = "asleep" \/ left[c] = 2) => permit

\* The loop sleeps by the idle interval only while nobody is active, or
\* until it looks again.
ArmedOK == loop = "asleep" /\ armed = IdleStep /\ ~changed => ~Active

\* Someone using ms-todo never gets the idle cadence: no more than the
\* active interval passes between the end of a pass and the next.
ActiveCadence == [][age' = IdleStep /\ age # IdleStep => ~Active]_vars

\* Every request that waits for a pass is answered in the end, unless its
\* client leaves.
WaitsEnd == \A c \in Clients : at[c] # "idle" ~> at[c] = "idle"
=============================================================================
