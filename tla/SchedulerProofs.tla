--------------------------- MODULE SchedulerProofs ---------------------------
(***************************************************************************)
(* Proofs about what runs in the background, for any number of clients,    *)
(* lists and tasks.  The scheduler: who waits is answered by the right     *)
(* pass, no wake-up is lost, and nobody active gets the idle cadence.  The *)
(* index of semantic search: at rest it is the cache's.                    *)
(***************************************************************************)
EXTENDS Scheduler, Semantic, TLAPS

\* Every step keeps the types.
LEMMA LoopTypesStep == LoopTypes /\ [Next]_vars => LoopTypes'
<1> SUFFICES ASSUME LoopTypes, [Next]_vars PROVE LoopTypes'
  OBVIOUS
<1> USE DEF LoopTypes, loopVars, ActiveStep, IdleStep
<1>1. CASE PassEnds
  <2>1. ready' \in BOOLEAN
    <3>1. ready \in BOOLEAN /\ ready' \in {ready, TRUE}
      BY <1>1 DEF PassEnds
    <3> QED
      BY <3>1, Zenon
  <2>2. armed' \in {2, 3}
    BY <1>1 DEF PassEnds, Interval
  <2>3. loop' = "asleep" /\ permit' = permit /\ changed' = FALSE
    BY <1>1 DEF PassEnds
  <2>4. age' \in 0 .. 3
    BY <1>1 DEF PassEnds
  <2> QED
    BY <2>1, <2>2, <2>3, <2>4, Zenon
<1>2. CASE LooksAgain
  BY <1>2 DEF LooksAgain, Interval
<1>3. CASE Elapsed \/ Woken \/ Starts
  BY <1>3 DEF Elapsed, Woken, Starts
<1>4. CASE Tick
  BY <1>4 DEF Tick
<1>5. CASE Quiet \/ UNCHANGED vars
  BY <1>5 DEF Quiet, vars
<1>6. ASSUME NEW c \in Clients, Connect(c) \/ Leave(c) PROVE LoopTypes'
  BY <1>6 DEF Connect, Leave
<1>7. ASSUME NEW c \in Clients, Handler(c) PROVE LoopTypes'
  BY <1>7 DEF Handler, Request, Wake, Settle, Answer
<1>8. ASSUME NEW c \in Clients, NEW what \in {"sync", "poke", "ready"}, Arrives(c, what) PROVE LoopTypes'
  BY <1>8 DEF Arrives
<1>9. ASSUME NEW c \in Clients, NEW l \in Lists \cup {NoList}, Focus(c, l) PROVE LoopTypes'
  BY <1>9 DEF Focus
<1> QED
  BY <1>1, <1>2, <1>3, <1>4, <1>5, <1>6, <1>7, <1>8, <1>9 DEF Next, Loop

LEMMA ActivityTypesStep == ActivityTypes /\ [Next]_vars => ActivityTypes'
<1> SUFFICES ASSUME ActivityTypes, [Next]_vars PROVE ActivityTypes'
  OBVIOUS
<1> USE DEF ActivityTypes, activity
<1>1. CASE Loop \/ Tick
  BY <1>1 DEF Loop, PassEnds, LooksAgain, Elapsed, Woken, Starts, Tick
<1>2. CASE Quiet \/ UNCHANGED vars
  BY <1>2 DEF Quiet, vars
<1>3. ASSUME NEW c \in Clients, Connect(c) \/ Leave(c) PROVE ActivityTypes'
  BY <1>3 DEF Connect, Leave
<1>4. ASSUME NEW c \in Clients, Handler(c) PROVE ActivityTypes'
  BY <1>4 DEF Handler, Request, Wake, Settle, Answer
<1>5. ASSUME NEW c \in Clients, NEW what \in {"sync", "poke", "ready"}, Arrives(c, what) PROVE ActivityTypes'
  BY <1>5 DEF Arrives
<1>6. ASSUME NEW c \in Clients, NEW l \in Lists \cup {NoList}, Focus(c, l) PROVE ActivityTypes'
  BY <1>6 DEF Focus
<1> QED
  BY <1>1, <1>2, <1>3, <1>4, <1>5, <1>6 DEF Next

LEMMA RequestTypesStep == RequestTypes /\ [Next]_vars => RequestTypes'
<1> SUFFICES ASSUME RequestTypes, [Next]_vars PROVE RequestTypes'
  OBVIOUS
<1> USE DEF RequestTypes, requests
<1>1. CASE PassEnds
  BY <1>1 DEF PassEnds, Fewer, Served
<1>2. CASE LooksAgain \/ Elapsed \/ Woken \/ Tick \/ Quiet \/ UNCHANGED vars
  BY <1>2 DEF LooksAgain, Elapsed, Woken, Tick, Quiet, vars
<1>3. CASE Starts
  BY <1>3 DEF Starts
<1>4. ASSUME NEW c \in Clients, Connect(c) \/ Leave(c) PROVE RequestTypes'
  BY <1>4 DEF Connect, Leave
<1>5. ASSUME NEW c \in Clients, Handler(c) PROVE RequestTypes'
  BY <1>5 DEF Handler, Request, Wake, Settle, Answer, Over, Running
<1>6. ASSUME NEW c \in Clients, NEW what \in {"sync", "poke", "ready"}, Arrives(c, what) PROVE RequestTypes'
  BY <1>6 DEF Arrives
<1>7. ASSUME NEW c \in Clients, NEW l \in Lists \cup {NoList}, Focus(c, l) PROVE RequestTypes'
  BY <1>7 DEF Focus
<1> QED
  BY <1>1, <1>2, <1>3, <1>4, <1>5, <1>6, <1>7 DEF Next, Loop

\* The types of the scheduler's variables hold throughout (TypeOK).
THEOREM SchedulerTypes == Spec => []TypeOK
<1>1. Init => LoopTypes /\ ActivityTypes
  <2>1. ASSUME Init PROVE LoopTypes
    <3>1. age \in 0 .. IdleStep
      BY <2>1 DEF Init, IdleStep
    <3> QED
      BY <2>1, <3>1, Zenon DEF Init, LoopTypes
  <2>2. ASSUME Init PROVE ActivityTypes
    BY <2>2 DEF Init, ActivityTypes
  <2> QED
    BY <2>1, <2>2
<1>2. Init => RequestTypes
  BY DEF Init, RequestTypes
<1> QED
  BY <1>1, <1>2, LoopTypesStep, ActivityTypesStep, RequestTypesStep, PTL DEF Spec, TypeOK

-----------------------------------------------------------------------------

RequestsOK == \A c \in Clients : RequestOK(c)

\* Every step keeps what a request's number means and its wake-up.
LEMMA RequestsStep == TypeOK /\ RequestsOK /\ [Next]_vars => RequestsOK'
<1> SUFFICES ASSUME TypeOK, RequestsOK, [Next]_vars, NEW d \in Clients PROVE RequestOK(d)'
  BY DEF RequestsOK
<1>0. RequestOK(d)
  BY DEF RequestsOK
<1> USE <1>0 DEF TypeOK, LoopTypes, RequestTypes, RequestOK, Running, activity, requests, loopVars
<1>1. CASE PassEnds
  BY <1>1 DEF PassEnds, Fewer, Served
<1>2. CASE LooksAgain
  BY <1>2 DEF LooksAgain
<1>3. CASE Elapsed
  BY <1>3 DEF Elapsed
<1>4. CASE Woken
  BY <1>4 DEF Woken
<1>5. CASE Starts
  BY <1>5 DEF Starts
<1>6. CASE Tick \/ Quiet
  BY <1>6 DEF Tick, Quiet
<1>7. ASSUME NEW c \in Clients, Connect(c) \/ Leave(c) PROVE RequestOK(d)'
  BY <1>7 DEF Connect, Leave
<1>8. ASSUME NEW c \in Clients, Handler(c) PROVE RequestOK(d)'
  <2>1. CASE Request(c)
    BY <2>1 DEF Request
  <2>2. CASE Wake(c)
    BY <2>2 DEF Wake, Over
  <2>3. CASE Settle(c)
    BY <2>3 DEF Settle
  <2>4. CASE Answer(c)
    BY <2>4 DEF Answer, Over
  <2> QED
    BY <1>8, <2>1, <2>2, <2>3, <2>4 DEF Handler
<1>9. ASSUME NEW c \in Clients, NEW what \in {"sync", "poke", "ready"}, Arrives(c, what) PROVE RequestOK(d)'
  BY <1>9 DEF Arrives
<1>10. ASSUME NEW c \in Clients, NEW l \in Lists \cup {NoList}, Focus(c, l) PROVE RequestOK(d)'
  BY <1>10 DEF Focus
<1>11. CASE UNCHANGED vars
  BY <1>11 DEF vars
<1> QED
  BY <1>1, <1>2, <1>3, <1>4, <1>5, <1>6, <1>7, <1>8, <1>9, <1>10, <1>11 DEF Next, Loop

\* Whoever waits for a pass is answered by one that will do for it, and by
\* the first (OwnPass: request, settle and wait_for).
THEOREM RightPass == Spec => []OwnPass
<1>1. Init => RequestsOK
  BY DEF Init, RequestsOK, RequestOK
<1>2. RequestsOK => OwnPass
  BY DEF RequestsOK, RequestOK, OwnPass
<1> QED
  BY <1>1, <1>2, SchedulerTypes, RequestsStep, PTL DEF Spec

\* A request's wake-up is never lost: while the loop sleeps and someone
\* waits there is a permit (NoLostWake: notify_one and notified).
THEOREM WakesKept == Spec => []NoLostWake
<1>1. Init => RequestsOK
  BY DEF Init, RequestsOK, RequestOK
<1>2. RequestsOK => NoLostWake
  BY DEF RequestsOK, RequestOK, NoLostWake
<1> QED
  BY <1>1, <1>2, SchedulerTypes, RequestsStep, PTL DEF Spec

-----------------------------------------------------------------------------

\* Every step keeps the interval the loop sleeps by in step with activity.
LEMMA ArmedStep == TypeOK /\ ArmedOK /\ [Next]_vars => ArmedOK'
<1> SUFFICES ASSUME TypeOK, ArmedOK, [Next]_vars PROVE ArmedOK'
  OBVIOUS
<1> USE DEF TypeOK, LoopTypes, ArmedOK, Active, activity, requests, loopVars, ActiveStep, IdleStep
<1>1. CASE Loop
  <2>1. CASE PassEnds \/ LooksAgain
    <3>1. armed' = Interval /\ UNCHANGED <<connected, recent>>
      BY <2>1 DEF PassEnds, LooksAgain
    <3>2. CASE Active
      BY <3>1, <3>2 DEF Interval
    <3>3. CASE ~Active
      BY <3>1, <3>3 DEF Interval
    <3> QED
      BY <3>2, <3>3
  <2>2. CASE Elapsed \/ Woken \/ Starts
    BY <2>2 DEF Elapsed, Woken, Starts
  <2> QED
    BY <1>1, <2>1, <2>2 DEF Loop
<1>2. CASE Tick \/ Quiet
  BY <1>2 DEF Tick, Quiet
<1>3. ASSUME NEW c \in Clients, Connect(c) \/ Leave(c) PROVE ArmedOK'
  BY <1>3 DEF Connect, Leave
<1>4. ASSUME NEW c \in Clients, Handler(c) PROVE ArmedOK'
  BY <1>4 DEF Handler, Request, Wake, Settle, Answer
<1>5. ASSUME NEW c \in Clients, NEW what \in {"sync", "poke", "ready"}, Arrives(c, what) PROVE ArmedOK'
  BY <1>5 DEF Arrives
<1>6. ASSUME NEW c \in Clients, NEW l \in Lists \cup {NoList}, Focus(c, l) PROVE ArmedOK'
  BY <1>6 DEF Focus
<1>7. CASE UNCHANGED vars
  BY <1>7 DEF vars
<1> QED
  BY <1>1, <1>2, <1>3, <1>4, <1>5, <1>6, <1>7 DEF Next

\* Only Tick lets time pass, and not beyond the interval that is due.
LEMMA TimeStep == TypeOK /\ ArmedOK /\ [Next]_vars => (age' = IdleStep /\ age # IdleStep => ~Active)
<1> SUFFICES ASSUME TypeOK, ArmedOK, [Next]_vars, age' = IdleStep, age # IdleStep PROVE ~Active
  OBVIOUS
<1>1. Tick
  BY DEF Next, Loop, PassEnds, LooksAgain, Elapsed, Woken, Starts, Quiet, Connect, Leave, Handler, Request,
         Wake, Settle, Answer, Arrives, Focus, vars, loopVars, IdleStep
<1> QED
  BY <1>1 DEF Tick, Due, TypeOK, LoopTypes, ArmedOK, ActiveStep, IdleStep

\* While a client is connected or was lately active, the next pass comes
\* after the active interval (ActiveCadence: Activity::interval, run_with).
THEOREM CadenceKept == Spec => ActiveCadence
<1>1. Init => ArmedOK
  BY DEF Init, ArmedOK
<1> QED
  BY <1>1, SchedulerTypes, ArmedStep, TimeStep, PTL DEF Spec, ActiveCadence

-----------------------------------------------------------------------------
(* The index of semantic search.                                           *)

Passing == {"load", "prune", "read", "save"}
OwnPassAt == {"prune", "read", "save"}

\* Who may be where: whoever holds the lock loads the model and runs the
\* first pass, a search runs no other, and the indexer runs its own once the
\* model is there.
PlacesOK ==
  /\ holder # Free => ~loaded /\ works[holder].at \in Passing
  /\ \A s \in Searches : /\ works[s].at \in {"idle", "start", "rank"} \cup Passing
                         /\ works[s].at \in Passing => holder = s
  /\ works[Indexer].at \notin {"idle", "rank"}
  /\ works[Indexer].at = "load" => holder = Indexer
  /\ works[Indexer].at \in OwnPassAt => holder = Indexer \/ loaded
  /\ works[Indexer].at = "wait" => loaded

\* A row that is gone for good has no vector.
RowsOK == \A t \in Texts : cached[t].is = "none" => vector[t] = NoVector

\* Where the indexer is in its own pass, or waits after it, a task is as the
\* index has it, will be once the pass has saved, or its change is on the way.
OnItsWay(t) == t \in untold \/ unread
Covered(t) ==
  loaded =>
    /\ works[Indexer].at = "read" => Live(t) \/ Indexed(t) \/ OnItsWay(t)
    /\ works[Indexer].at = "save" =>
         \/ OnItsWay(t)
         \/ IF t \in DOMAIN works[Indexer].jobs
              THEN Live(t) /\ works[Indexer].jobs[t] = cached[t].text
              ELSE Indexed(t)
    /\ works[Indexer].at = "wait" => Indexed(t) \/ OnItsWay(t) \/ failedPass

IndexInv == SemanticTypeOK /\ PlacesOK /\ RowsOK /\ \A t \in Texts : Covered(t)

LEMMA SemanticStarts == SemanticInit => IndexInv
<1> SUFFICES ASSUME SemanticInit PROVE IndexInv
  OBVIOUS
<1> USE SemanticAssumption DEF SemanticAssumption
<1>1. NoJobs \in UNION {[T -> 1 .. MaxTexts] : T \in SUBSET Texts}
  <2>1. NoJobs \in [{} -> 1 .. MaxTexts]
    BY DEF NoJobs
  <2> QED
    BY <2>1
<1>2. works \in [Users -> UserTypes]
  BY <1>1 DEF SemanticInit, UserTypes
<1>3. SemanticTypeOK
  <2>1. cached \in [Texts -> [is : {"none", "live", "dead"}, text : 1 .. MaxTexts]]
    BY DEF SemanticInit
  <2>2. vector \in [Texts -> [model : 0 .. MaxModels, text : 0 .. MaxTexts]]
    BY DEF SemanticInit, NoVector
  <2>3. loaded \in BOOLEAN /\ unread \in BOOLEAN /\ failedPass \in BOOLEAN
    BY DEF SemanticInit
  <2>4. modelId \in 1 .. MaxModels /\ hitches \in 0 .. MaxHitches
    BY DEF SemanticInit
  <2> QED
    BY <1>2, <2>1, <2>2, <2>3, <2>4 DEF SemanticInit, SemanticTypeOK
<1>4. PlacesOK
  BY DEF SemanticInit, PlacesOK, Users, Passing, OwnPassAt
<1> QED
  BY <1>3, <1>4 DEF SemanticInit, IndexInv, RowsOK, Covered

\* A user's place and jobs stay of their types where only those of u change.
LEMMA PlaceTyped ==
  ASSUME SemanticTypeOK, NEW u \in Users,
         NEW place \in {"idle", "start", "load", "prune", "read", "save", "rank", "wait", "settle", "doze"},
         GoTo(u, place)
  PROVE  /\ works' \in [Users -> UserTypes]
         /\ works'[u].at = place
         /\ \A v \in Users \ {u} : works'[v] = works[v]
<1>1. NoJobs \in UNION {[T -> 1 .. MaxTexts] : T \in SUBSET Texts}
  <2>1. NoJobs \in [{} -> 1 .. MaxTexts]
    BY DEF NoJobs
  <2> QED
    BY <2>1
<1> QED
  BY <1>1 DEF SemanticTypeOK, GoTo, UserTypes

\* Changes to the cache, and what tells of them.
LEMMA ChangeKeeps ==
  ASSUME IndexInv, NEW t \in Texts, Change(t)
  PROVE  IndexInv'
<1> USE SemanticAssumption DEF SemanticAssumption, IndexInv
<1>1. /\ UNCHANGED <<modelId, onDisk, loaded, holder, works, failedPass, hitches>>
      /\ \A x \in Texts \ {t} : cached'[x] = cached[x] /\ vector'[x] = vector[x]
      /\ untold \subseteq untold' \cup {t}
      /\ unread => unread'
      /\ OnItsWay(t)'
  BY DEF Change, WriteTask, Tombstone, HardDelete, TellChange, Write, SemanticTypeOK, OnItsWay
<1>2. SemanticTypeOK'
  <2>1. CASE TellChange(t)
    BY <2>1 DEF TellChange, SemanticTypeOK
  <2>2. CASE WriteTask(t)
    BY <2>2 DEF WriteTask, Write, SemanticTypeOK
  <2>3. CASE Tombstone(t)
    BY <2>3 DEF Tombstone, Write, SemanticTypeOK
  <2>4. CASE HardDelete(t)
    BY <2>4 DEF HardDelete, Write, SemanticTypeOK, NoVector
  <2> QED
    BY <2>1, <2>2, <2>3, <2>4 DEF Change
<1>3. PlacesOK'
  BY <1>1 DEF PlacesOK
<1>4. RowsOK'
  <2>1. cached'[t].is = "none" => vector'[t] = NoVector
    BY DEF Change, WriteTask, Tombstone, HardDelete, TellChange, Write, SemanticTypeOK, RowsOK
  <2> QED
    BY <1>1, <2>1 DEF RowsOK
<1>5. ASSUME NEW x \in Texts PROVE Covered(x)'
  <2>1. CASE x = t
    BY <1>1, <2>1 DEF Covered
  <2>2. CASE x # t
    <3>1. /\ Indexed(x)' = Indexed(x) /\ Live(x)' = Live(x) /\ cached'[x] = cached[x]
      BY <1>1, <2>2 DEF Indexed, Live, VectorOf
    <3>2. OnItsWay(x) => OnItsWay(x)'
      BY <1>1, <2>2 DEF OnItsWay
    <3> QED
      BY <1>1, <3>1, <3>2 DEF Covered
  <2> QED
    BY <2>1, <2>2
<1> QED
  BY <1>2, <1>3, <1>4, <1>5

\* The model and its loading touch neither the cache nor the index.
LEMMA UseModelKeeps ==
  ASSUME IndexInv, NEW u \in Users, UseModel(u)
  PROVE  IndexInv'
<1> USE SemanticAssumption DEF SemanticAssumption, IndexInv
<1>1. UNCHANGED <<cached, vector, modelId, loaded, untold, unread, failedPass>>
  BY DEF UseModel, AskModel, EnsureFile, LoadWorks, LoadFails
<1>2. CASE EnsureFile(u)
  BY <1>1, <1>2 DEF EnsureFile, SemanticTypeOK, PlacesOK, RowsOK, Covered, Live, Indexed, VectorOf, OnItsWay
<1>3. CASE ~EnsureFile(u)
  <2>1. PICK place \in {"prune", "rank", "load", "doze", "idle"} : GoTo(u, place)
    BY <1>3 DEF UseModel, AskModel, LoadWorks, LoadFails
  <2>2. /\ works' \in [Users -> UserTypes] /\ works'[u].at = place
        /\ \A v \in Users \ {u} : works'[v] = works[v]
    BY <2>1, PlaceTyped
  <2>3. hitches' \in 0 .. MaxHitches /\ onDisk' = onDisk /\ holder' \in Users \cup {Free}
    BY <1>3 DEF UseModel, AskModel, LoadWorks, LoadFails, SemanticTypeOK
  <2>4. SemanticTypeOK'
    BY <1>1, <2>2, <2>3 DEF SemanticTypeOK
  <2>5. PlacesOK'
    <3>1. CASE AskModel(u) /\ loaded
      <4>1. works'[u].at = IF u = Indexer THEN "prune" ELSE "rank"
        BY <3>1 DEF AskModel, GoTo, SemanticTypeOK
      <4>2. holder' = holder /\ holder = Free
        BY <3>1 DEF AskModel
      <4> QED
        BY <1>1, <2>2, <3>1, <4>1, <4>2 DEF PlacesOK, Users, Passing, OwnPassAt
    <3>4. CASE AskModel(u) /\ ~loaded
      <4>1. works'[u].at = "load"
        BY <3>4 DEF AskModel, GoTo, SemanticTypeOK
      <4>2. holder' = u /\ holder = Free /\ ~loaded'
        BY <1>1, <3>4 DEF AskModel
      <4>3. ASSUME NEW s \in Searches
            PROVE  /\ works'[s].at \in {"idle", "start", "rank"} \cup Passing
                   /\ works'[s].at \in Passing => holder' = s
        <5>1. CASE s = u
          BY <2>2, <4>1, <4>2, <5>1 DEF Passing
        <5>2. CASE s # u
          <6>1. works'[s] = works[s] /\ holder # s
            BY <2>2, <4>2, <5>2 DEF Users
          <6> QED
            BY <6>1 DEF PlacesOK
        <5> QED
          BY <5>1, <5>2
      <4>4. CASE u = Indexer
        BY <2>2, <4>1, <4>2, <4>3, <4>4 DEF PlacesOK, Passing, OwnPassAt
      <4>5. CASE u # Indexer
        <5>1. works'[Indexer] = works[Indexer] /\ holder # Indexer
          BY <2>2, <4>2, <4>5 DEF Users, Free, Indexer
        <5>2. works[Indexer].at \notin {"load", "prune", "read", "save", "wait", "idle", "rank"}
          BY <3>4, <4>2, <5>1 DEF PlacesOK, OwnPassAt
        <5> QED
          BY <2>2, <4>1, <4>2, <4>3, <5>1, <5>2 DEF PlacesOK, Passing, OwnPassAt
      <4> QED
        BY <4>4, <4>5
    <3>2. CASE LoadWorks(u)
      BY <1>1, <2>2, <3>2 DEF LoadWorks, GoTo, PlacesOK, SemanticTypeOK, Users, Passing, OwnPassAt
    <3>3. CASE LoadFails(u)
      BY <1>1, <2>2, <3>3 DEF LoadFails, GoTo, PlacesOK, SemanticTypeOK, Users, Passing, OwnPassAt
    <3> QED
      BY <1>3, <3>1, <3>2, <3>3, <3>4 DEF UseModel
  <2>6. ASSUME NEW x \in Texts PROVE Covered(x)'
    <3>1. works[u].at \in {"start", "load"}
      BY <1>3 DEF UseModel, AskModel, LoadWorks, LoadFails
    <3>2. u = Indexer => works'[Indexer].at \notin {"read", "save", "wait"}
      BY <2>2
    <3>3. u # Indexer => works'[Indexer] = works[Indexer]
      BY <2>2 DEF Users
    <3> QED
      BY <1>1, <3>2, <3>3 DEF Covered, Live, Indexed, VectorOf, OnItsWay
  <2> QED
    BY <1>1, <2>4, <2>5, <2>6 DEF RowsOK
<1> QED
  BY <1>2, <1>3

\* A pass's steps.  While a search runs one, the indexer is in none of its own.
LEMMA Alone ==
  ASSUME PlacesOK, NEW u \in Users, works[u].at \in OwnPassAt, u # Indexer
  PROVE  holder = u /\ ~loaded /\ works[Indexer].at \notin OwnPassAt \cup {"wait"}
BY SemanticAssumption DEF SemanticAssumption, PlacesOK, Users, Passing, OwnPassAt

LEMMA PruneKeeps ==
  ASSUME IndexInv, NEW u \in Users, PruneIndex(u)
  PROVE  IndexInv'
<1> USE SemanticAssumption DEF SemanticAssumption, IndexInv
<1>1. /\ works' \in [Users -> UserTypes] /\ works'[u].at = "read"
      /\ \A v \in Users \ {u} : works'[v] = works[v]
  BY PlaceTyped DEF PruneIndex
<1>2. /\ UNCHANGED <<cached, modelId, onDisk, loaded, holder, untold, unread, failedPass, hitches>>
      /\ works[u].at = "prune"
  BY DEF PruneIndex
<1>3. vector' \in [Texts -> [model : 0 .. MaxModels, text : 0 .. MaxTexts]]
  BY DEF PruneIndex, SemanticTypeOK, NoVector
<1>4. SemanticTypeOK'
  BY <1>1, <1>2, <1>3 DEF SemanticTypeOK
<1>5. PlacesOK'
  BY <1>1, <1>2 DEF PlacesOK, Users, Passing, OwnPassAt, SemanticTypeOK
<1>6. RowsOK'
  BY <1>2 DEF PruneIndex, RowsOK
<1>7. ASSUME NEW x \in Texts PROVE Covered(x)'
  <2>1. CASE u = Indexer
    <3>1. cached[x].is \in {"none", "live", "dead"}
      BY DEF SemanticTypeOK
    <3>2. ~Live(x) => vector'[x] = NoVector
      BY <3>1 DEF PruneIndex, RowsOK, Live
    <3>3. Live(x)' \/ Indexed(x)'
      BY <1>2, <3>2 DEF Live, Indexed
    <3> QED
      BY <1>1, <2>1, <3>3 DEF Covered
  <2>2. CASE u # Indexer
    BY <1>2, <2>2, Alone DEF Covered, OwnPassAt
  <2> QED
    BY <2>1, <2>2
<1> QED
  BY <1>4, <1>5, <1>6, <1>7

LEMMA ReadKeeps ==
  ASSUME IndexInv, NEW u \in Users, ReadJobs(u)
  PROVE  IndexInv'
<1> USE SemanticAssumption DEF SemanticAssumption, IndexInv
<1> DEFINE jobs == [t \in StaleTasks |-> cached[t].text]
<1>1. /\ UNCHANGED <<cached, vector, modelId, onDisk, loaded, holder, untold, unread, failedPass, hitches>>
      /\ works[u].at = "read"
      /\ works' = [works EXCEPT ![u] = [at |-> "save", jobs |-> jobs]]
  BY DEF ReadJobs
<1>2. jobs \in UNION {[T -> 1 .. MaxTexts] : T \in SUBSET Texts}
  <2>1. StaleTasks \in SUBSET Texts /\ jobs \in [StaleTasks -> 1 .. MaxTexts]
    BY DEF StaleTasks, SemanticTypeOK
  <2> QED
    BY <2>1
<1>3. DOMAIN jobs = StaleTasks /\ \A t \in StaleTasks : jobs[t] = cached[t].text
  OBVIOUS
<1> HIDE DEF jobs
<1>4. /\ works' \in [Users -> UserTypes] /\ works'[u] = [at |-> "save", jobs |-> jobs]
      /\ \A v \in Users \ {u} : works'[v] = works[v]
  BY <1>1, <1>2 DEF SemanticTypeOK, UserTypes
<1>5. SemanticTypeOK'
  BY <1>1, <1>4 DEF SemanticTypeOK
<1>6. PlacesOK'
  BY <1>1, <1>4 DEF PlacesOK, Users, Passing, OwnPassAt, SemanticTypeOK
<1>7. ASSUME NEW x \in Texts PROVE Covered(x)'
  <2>1. CASE u = Indexer
    <3>1. /\ Live(x)' = Live(x) /\ Indexed(x)' = Indexed(x) /\ OnItsWay(x)' = OnItsWay(x)
      BY <1>1 DEF Live, Indexed, VectorOf, OnItsWay
    <3>2. loaded => Live(x) \/ Indexed(x) \/ OnItsWay(x)
      BY <1>1, <2>1 DEF Covered
    <3>3. x \in StaleTasks <=> Live(x) /\ ~Indexed(x)
      BY DEF StaleTasks, Indexed
    <3> QED
      BY <1>1, <1>3, <1>4, <2>1, <3>1, <3>2, <3>3 DEF Covered
  <2>2. CASE u # Indexer
    BY <1>1, <2>2, Alone DEF Covered, OwnPassAt
  <2> QED
    BY <2>1, <2>2
<1> QED
  BY <1>1, <1>5, <1>6, <1>7 DEF RowsOK

LEMMA SaveKeeps ==
  ASSUME IndexInv, NEW u \in Users, SaveBatch(u)
  PROVE  IndexInv'
<1> USE SemanticAssumption DEF SemanticAssumption, IndexInv
<1> DEFINE jobs == works[u].jobs
<1>1. PICK batch \in SUBSET DOMAIN jobs :
        /\ works[u].at = "save"
        /\ vector' = [t \in Texts |-> IF t \in batch /\ Live(t)
                                        THEN [model |-> modelId, text |-> jobs[t]] ELSE vector[t]]
        /\ works' = [works EXCEPT ![u] = [at |-> "save", jobs |-> [t \in DOMAIN jobs \ batch |-> jobs[t]]]]
        /\ UNCHANGED <<cached, modelId, onDisk, loaded, holder, untold, unread, failedPass, hitches>>
  BY DEF SaveBatch
<1> DEFINE still == [t \in DOMAIN jobs \ batch |-> jobs[t]]
<1>2. /\ DOMAIN jobs \subseteq Texts /\ \A t \in DOMAIN jobs : jobs[t] \in 1 .. MaxTexts
  BY DEF SemanticTypeOK, UserTypes
<1>3. still \in UNION {[T -> 1 .. MaxTexts] : T \in SUBSET Texts}
  <2>1. still \in [DOMAIN jobs \ batch -> 1 .. MaxTexts] /\ DOMAIN jobs \ batch \in SUBSET Texts
    BY <1>2
  <2> HIDE DEF still
  <2> QED
    BY <2>1
<1>4. DOMAIN still = DOMAIN jobs \ batch /\ \A t \in DOMAIN still : still[t] = jobs[t]
  OBVIOUS
<1>5. works' = [works EXCEPT ![u] = [at |-> "save", jobs |-> still]]
  BY <1>1
<1> HIDE DEF still
<1>6. /\ works' \in [Users -> UserTypes] /\ works'[u] = [at |-> "save", jobs |-> still]
      /\ \A v \in Users \ {u} : works'[v] = works[v]
  BY <1>3, <1>5 DEF SemanticTypeOK, UserTypes
<1>7. vector' \in [Texts -> [model : 0 .. MaxModels, text : 0 .. MaxTexts]]
  BY <1>1, <1>2 DEF SemanticTypeOK
<1>8. SemanticTypeOK'
  BY <1>1, <1>6, <1>7 DEF SemanticTypeOK
<1>9. PlacesOK'
  BY <1>1, <1>6 DEF PlacesOK, Users, Passing, OwnPassAt, SemanticTypeOK
<1>10. RowsOK'
  BY <1>1 DEF RowsOK, Live
<1>11. ASSUME NEW x \in Texts PROVE Covered(x)'
  <2>1. CASE u = Indexer
    <3>1. /\ Live(x)' = Live(x) /\ OnItsWay(x)' = OnItsWay(x) /\ VectorOf(x)' = VectorOf(x)
      BY <1>1 DEF Live, VectorOf, OnItsWay
    <3>2. SUFFICES ASSUME loaded, ~OnItsWay(x)
                   PROVE  IF x \in DOMAIN still THEN Live(x) /\ still[x] = cached[x].text
                                                ELSE Indexed(x)'
      BY <1>1, <1>6, <2>1, <3>1 DEF Covered
    <3>3. IF x \in DOMAIN jobs THEN Live(x) /\ jobs[x] = cached[x].text ELSE Indexed(x)
      BY <1>1, <2>1, <3>2 DEF Covered
    <3>4. CASE x \in DOMAIN still
      BY <1>4, <3>3, <3>4
    <3>5. CASE x \in batch
      <4>1. Live(x) /\ jobs[x] = cached[x].text
        BY <3>3, <3>5
      <4>2. vector'[x] = [model |-> modelId, text |-> jobs[x]]
        BY <1>1, <3>5, <4>1
      <4>3. Live(x)' /\ VectorOf(x)' = [model |-> modelId, text |-> cached[x].text]
        BY <3>1, <4>1 DEF VectorOf
      <4>4. x \notin DOMAIN still
        BY <1>4, <3>5
      <4> QED
        BY <4>1, <4>2, <4>3, <4>4 DEF Indexed
    <3>6. CASE x \notin DOMAIN jobs
      <4>1. vector'[x] = vector[x] /\ Indexed(x)
        BY <1>1, <3>3, <3>6
      <4>2. x \notin DOMAIN still
        BY <1>4, <3>6
      <4>3. NoVector' = NoVector
        BY DEF NoVector
      <4> QED
        BY <3>1, <4>1, <4>2, <4>3 DEF Indexed
    <3> QED
      BY <1>4, <3>4, <3>5, <3>6
  <2>2. CASE u # Indexer
    BY <1>1, <2>2, Alone DEF Covered, OwnPassAt
  <2> QED
    BY <2>1, <2>2
<1> QED
  BY <1>8, <1>9, <1>10, <1>11

\* A pass that ends, well or not.
LEMMA EndKeeps ==
  ASSUME IndexInv, NEW u \in Users, PassDone(u) \/ PassFails(u)
  PROVE  IndexInv'
<1> USE SemanticAssumption DEF SemanticAssumption, IndexInv
<1>1. PICK failed \in BOOLEAN :
        /\ EndPass(u, failed) /\ vector' = vector /\ works[u].at \in OwnPassAt
        /\ ~failed => works[u].at = "save" /\ DOMAIN works[u].jobs = {}
        /\ hitches' \in 0 .. MaxHitches
  <2>1. CASE PassDone(u)
    <3>1. EndPass(u, FALSE) /\ vector' = vector /\ hitches' = hitches
          /\ works[u].at = "save" /\ DOMAIN works[u].jobs = {}
      BY <2>1 DEF PassDone
    <3> QED
      BY <3>1 DEF OwnPassAt, SemanticTypeOK
  <2>2. CASE PassFails(u)
    <3>1. EndPass(u, TRUE) /\ vector' = vector /\ hitches < MaxHitches /\ hitches' = hitches + 1
          /\ works[u].at \in OwnPassAt
      BY <2>2 DEF PassFails, OwnPassAt
    <3>2. hitches' \in 0 .. MaxHitches
      BY <3>1 DEF SemanticTypeOK
    <3> QED
      BY <3>1, <3>2
  <2> QED
    BY <2>1, <2>2
<1>2. /\ UNCHANGED <<cached, vector, modelId, onDisk, untold, unread>> /\ loaded' = TRUE
      /\ holder' = IF holder = u THEN Free ELSE holder
      /\ failedPass' = IF u = Indexer THEN failed ELSE failedPass
      /\ GoTo(u, NextPlace(u))
  BY <1>1 DEF EndPass
<1>3. /\ works' \in [Users -> UserTypes] /\ works'[u].at = NextPlace(u)
      /\ \A v \in Users \ {u} : works'[v] = works[v]
  <2>1. NextPlace(u) \in {"idle", "start", "load", "prune", "read", "save", "rank", "wait", "settle", "doze"}
    BY DEF NextPlace
  <2> QED
    BY <1>2, <2>1, PlaceTyped
<1>4. SemanticTypeOK'
  BY <1>1, <1>2, <1>3 DEF SemanticTypeOK
<1>5. holder \in {u, Free} /\ holder' = Free
  <2>1. u = Indexer => holder = Indexer \/ loaded
    BY <1>1 DEF PlacesOK
  <2>2. u # Indexer => holder = u
    BY <1>1, Alone
  <2> QED
    BY <1>2, <2>1, <2>2 DEF PlacesOK
<1>6. PlacesOK'
  <2>1. ASSUME NEW s \in Searches PROVE works'[s].at \in {"idle", "start", "rank"}
    <3>1. CASE s = u
      BY <1>3, <3>1 DEF NextPlace
    <3>2. CASE s # u
      <4>1. works'[s] = works[s] /\ holder # s
        BY <1>3, <1>5, <3>2 DEF Users
      <4> QED
        BY <4>1 DEF PlacesOK
    <3> QED
      BY <3>1, <3>2
  <2>2. works'[Indexer].at \notin {"idle", "rank", "load"}
    <3>1. CASE u = Indexer
      BY <1>3, <3>1 DEF NextPlace
    <3>2. CASE u # Indexer
      <4>1. works'[Indexer] = works[Indexer] /\ holder # Indexer
        BY <1>3, <1>5, <3>2 DEF Users, Free, Indexer
      <4> QED
        BY <4>1 DEF PlacesOK
    <3> QED
      BY <3>1, <3>2
  <2> QED
    BY <1>2, <1>5, <2>1, <2>2 DEF PlacesOK, Passing, OwnPassAt
<1>7. ASSUME NEW x \in Texts PROVE Covered(x)'
  <2>1. /\ Live(x)' = Live(x) /\ Indexed(x)' = Indexed(x) /\ OnItsWay(x)' = OnItsWay(x)
    BY <1>2 DEF Live, Indexed, VectorOf, OnItsWay
  <2>2. CASE u # Indexer
    BY <1>1, <1>3, <2>2, Alone DEF Covered, OwnPassAt, Users
  <2>3. CASE u = Indexer /\ holder = u
    BY <1>3, <2>3 DEF Covered, NextPlace
  <2>4. CASE u = Indexer /\ holder # u
    <3>1. works'[Indexer].at = "wait" /\ loaded
      BY <1>1, <1>3, <2>4 DEF NextPlace, PlacesOK
    <3>2. ~failed => Indexed(x) \/ OnItsWay(x)
      BY <1>1, <2>4, <3>1 DEF Covered
    <3> QED
      BY <1>2, <2>1, <2>4, <3>1, <3>2 DEF Covered
  <2> QED
    BY <2>2, <2>3, <2>4
<1> QED
  BY <1>2, <1>4, <1>6, <1>7 DEF RowsOK

\* The indexer between its passes, and a search outside of one.
LEMMA RestKeeps ==
  ASSUME IndexInv, Wakes \/ Drain \/ \E s \in Searches : AskSearch(s) \/ Rank(s)
  PROVE  IndexInv'
<1> USE SemanticAssumption DEF SemanticAssumption, IndexInv
<1>1. PICK u \in Users, place \in {"settle", "start", "idle"} :
        /\ GoTo(u, place)
        /\ u = Indexer => place \in {"settle", "start"}
        /\ u # Indexer => place \in {"idle", "start"} /\ unread' = unread
        /\ works[u].at \in {"wait", "doze", "settle", "idle", "rank"}
        /\ unread' \in {unread, FALSE}
        /\ UNCHANGED <<cached, vector, modelId, onDisk, loaded, holder, untold, failedPass, hitches>>
  <2>1. CASE Wakes \/ Drain
    BY <2>1 DEF Wakes, Drain, Users
  <2>2. CASE \E s \in Searches : AskSearch(s) \/ Rank(s)
    BY <2>2 DEF AskSearch, Rank, Users
  <2> QED
    BY <2>1, <2>2
<1>2. /\ works' \in [Users -> UserTypes] /\ works'[u].at = place
      /\ \A v \in Users \ {u} : works'[v] = works[v]
  BY <1>1, PlaceTyped
<1>3. SemanticTypeOK'
  BY <1>1, <1>2 DEF SemanticTypeOK
<1>4. PlacesOK'
  <2>1. holder # u
    <3>1. holder = u => works[u].at \in Passing
      <4>1. u # Free
        BY DEF Users, Indexer, Free
      <4> QED
        BY <4>1 DEF PlacesOK
    <3> QED
      BY <1>1, <3>1 DEF Passing
  <2> QED
    BY <1>1, <1>2, <2>1 DEF PlacesOK, Users, Passing, OwnPassAt, SemanticTypeOK
<1>5. ASSUME NEW x \in Texts PROVE Covered(x)'
  <2>1. CASE u = Indexer
    BY <1>1, <1>2, <2>1 DEF Covered
  <2>2. CASE u # Indexer
    BY <1>1, <1>2, <2>2 DEF Covered, Live, Indexed, VectorOf, OnItsWay, Users
  <2> QED
    BY <2>1, <2>2
<1> QED
  BY <1>1, <1>3, <1>4, <1>5 DEF RowsOK

LEMMA RestartKeeps ==
  ASSUME IndexInv, RestartDaemon
  PROVE  IndexInv'
<1> USE SemanticAssumption DEF SemanticAssumption, IndexInv
<1>1. PICK id \in modelId .. MaxModels :
        /\ modelId' = id /\ hitches' = hitches + 1 /\ hitches < MaxHitches
        /\ onDisk' \in {onDisk, "damaged", "missing"}
        /\ loaded' = FALSE /\ holder' = Free /\ untold' = {} /\ unread' = FALSE /\ failedPass' = FALSE
        /\ works' = [u \in Users |-> [at |-> IF u = Indexer THEN "start" ELSE "idle", jobs |-> NoJobs]]
        /\ UNCHANGED <<cached, vector>>
  BY DEF RestartDaemon
<1>2. NoJobs \in UNION {[T -> 1 .. MaxTexts] : T \in SUBSET Texts}
  <2>1. NoJobs \in [{} -> 1 .. MaxTexts]
    BY DEF NoJobs
  <2> QED
    BY <2>1
<1>3. works' \in [Users -> UserTypes]
  BY <1>1, <1>2 DEF UserTypes
<1>4. modelId' \in 1 .. MaxModels
  BY <1>1 DEF SemanticTypeOK
<1>5. SemanticTypeOK'
  <2>1. loaded' \in BOOLEAN /\ unread' \in BOOLEAN /\ failedPass' \in BOOLEAN
    BY <1>1
  <2>2. hitches' \in 0 .. MaxHitches
    BY <1>1 DEF SemanticTypeOK
  <2>3. onDisk' \in {"missing", "damaged", "whole"}
    BY <1>1 DEF SemanticTypeOK
  <2>4. /\ cached' \in [Texts -> [is : {"none", "live", "dead"}, text : 1 .. MaxTexts]]
        /\ vector' \in [Texts -> [model : 0 .. MaxModels, text : 0 .. MaxTexts]]
    BY <1>1 DEF SemanticTypeOK
  <2> QED
    BY <1>1, <1>3, <1>4, <2>1, <2>2, <2>3, <2>4 DEF SemanticTypeOK
<1>6. PlacesOK'
  BY <1>1 DEF PlacesOK, Users, Passing, OwnPassAt
<1> QED
  BY <1>1, <1>5, <1>6 DEF RowsOK, Covered

LEMMA SemanticStep == IndexInv /\ [SemanticNext]_semVars => IndexInv'
<1> SUFFICES ASSUME IndexInv, [SemanticNext]_semVars PROVE IndexInv'
  OBVIOUS
<1>1. CASE UNCHANGED semVars
  BY <1>1 DEF semVars, IndexInv, SemanticTypeOK, PlacesOK, RowsOK, Covered, Live, Indexed, VectorOf, OnItsWay
<1>2. CASE SemanticNext
  BY <1>2, ChangeKeeps, UseModelKeeps, PruneKeeps, ReadKeeps, SaveKeeps, EndKeeps, RestKeeps, RestartKeeps
     DEF SemanticNext, MakePass
<1> QED
  BY <1>1, <1>2

\* Once the indexer is at rest the index is the cache's, whatever changed
\* during its passes and whoever ran them.
THEOREM IndexKept == SemanticSpec => []IndexedAtRest
<1>1. IndexInv => IndexedAtRest
  BY DEF IndexInv, PlacesOK, Covered, IndexedAtRest, IndexAtRest, OnItsWay
<1> QED
  BY <1>1, SemanticStarts, SemanticStep, PTL DEF SemanticSpec

\* No two passes over the index run at once, so none saves over another's
\* vectors (Semantic::embedder holds the lock while it loads and catches up).
THEOREM OnePassKept == SemanticSpec => []OnePass
<1>1. IndexInv => OnePass
  <2> SUFFICES ASSUME IndexInv, NEW u \in Users, NEW v \in Users,
                      works[u].at \in Passing, works[v].at \in Passing
               PROVE  u = v
    BY DEF OnePass, Passing
  <2> USE SemanticAssumption DEF SemanticAssumption, IndexInv
  <2>1. ASSUME NEW s \in Searches, works[s].at \in Passing
        PROVE  holder = s /\ ~loaded
    <3>1. holder = s /\ s # Free
      BY <2>1 DEF PlacesOK
    <3> QED
      BY <3>1 DEF PlacesOK
  <2>2. works[Indexer].at \in Passing => holder = Indexer \/ loaded
    BY DEF PlacesOK, Passing, OwnPassAt
  <2> QED
    BY <2>1, <2>2 DEF Users
<1> QED
  BY <1>1, SemanticStarts, SemanticStep, PTL DEF SemanticSpec
=============================================================================
