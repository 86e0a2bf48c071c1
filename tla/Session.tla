------------------------------- MODULE Session -------------------------------
(***************************************************************************)
(* How a client finds, starts and stops the daemon                         *)
(* (crates/cli/src/daemon_client.rs) and how a daemon comes up and goes    *)
(* down (crates/daemon/src/server.rs): processes that share only a lock, a *)
(* socket and a PID file.  A daemon process, with the launcher that        *)
(* started it and relays its exit, is a number, its PID.                   *)
(*                                                                         *)
(* The operating system frees a dead process's lock and refuses            *)
(* connections to its socket; the files stay.                              *)
(***************************************************************************)
EXTENDS Naturals, FiniteSets

CONSTANTS Clients,          \* processes that run one command each
          Builds,           \* the builds the clients may be, each starting daemons of its own
          ServiceBuild,     \* the build the login item runs
          Commands,         \* what a client may be run for
          Pids,             \* 1..n: bound on the daemon processes
          MaxStarts,        \* bound: daemons the login item starts
          MaxDaemonTrouble  \* bound: kills, failures to start, hangs and PIDs used again

Nobody == 0

ASSUME SessionAssumption ==
  /\ Builds \subseteq [Clients -> Nat \ {0}] /\ ServiceBuild \in Nat \ {0}
  /\ Commands \subseteq {"run", "stop", "restart"}
  /\ Nobody \notin Pids
  /\ Cardinality(Pids) >= Cardinality(Clients) + MaxStarts

VARIABLES daemons,   \* each process: how far it is, its build, the code it exited with
          lock,      \* who holds the lock
          socket,    \* who bound the socket file
          pidFile,   \* the PID in the PID file
          database,  \* the newest build that has migrated the database
          clients,   \* each client: how far it is
          service,   \* the login item's process
          others,    \* PIDs that are another program's now
          struck,    \* history: those of them that were sent SIGTERM
          stopped,   \* history: what for, and by which build, a daemon of which was asked to stop
          woe        \* troubles and starts so far

sessionVars == <<daemons, lock, socket, pidFile, database, clients, service, others, struck, stopped, woe>>

Unused == [at |-> "unused", build |-> 0, code |-> 0]
NewClient == [at |-> "idle", for |-> "run", why |-> "connect", pid |-> 0, mine |-> 0, said |-> "nothing", build |-> 0]

SessionInit ==
  /\ daemons = [p \in Pids |-> Unused]
  /\ lock = Nobody /\ socket = Nobody /\ pidFile = Nobody
  /\ database = 1
  /\ \E b \in Builds : clients = [c \in Clients |-> [NewClient EXCEPT !.build = b[c]]]
  /\ service = Nobody /\ others = {} /\ struck = {} /\ stopped = {}
  /\ woe = [trouble |-> 0, starts |-> 0]

At(p) == daemons[p].at
Alive(p) == At(p) \notin {"unused", "dead"}
Accepts(p) == p # Nobody /\ At(p) \in {"bound", "serving", "hung"}
Reachable == Accepts(socket)

Unspent == /\ woe.trouble < MaxDaemonTrouble /\ woe' = [woe EXCEPT !.trouble = @ + 1]
Move(p, at) == daemons' = [daemons EXCEPT ![p].at = at]
\* The process ends; the system frees its lock, and its files stay.
Dead(p, code) == [daemons EXCEPT ![p].at = "dead", ![p].code = code]
Released(p) == IF lock = p THEN Nobody ELSE lock

-----------------------------------------------------------------------------
(* A daemon process.                                                       *)

FreshPid == CHOOSE p \in Pids : At(p) = "unused"
Launch(build) ==
  /\ \E p \in Pids : At(p) = "unused"
  /\ daemons' = [daemons EXCEPT ![FreshPid] = [Unused EXCEPT !.at = "begun", !.build = build]]

\* mutant: a second daemon tidies up
MutantTidies(p) == daemons' = Dead(p, 0) /\ pidFile' = Nobody /\ UNCHANGED lock
Second(p) == daemons' = Dead(p, 0) /\ UNCHANGED <<lock, pidFile>>

\* A client that looks whether the lock is held shares it for that moment, and a daemon that
\* tries it then takes the client for another daemon (daemon_lock_held).
Looked == \E c \in Clients : clients[c].at = "look"

take_singleton_lock(p) ==
  IF lock = Nobody /\ ~Looked THEN lock' = p /\ Move(p, "locked") /\ UNCHANGED pidFile ELSE Second(p)

TakeLock(p) ==
  /\ At(p) = "begun" /\ take_singleton_lock(p)
  /\ UNCHANGED <<socket, database, clients, service, others, struck, stopped, woe>>

\* Any socket file left is a dead daemon's.
ClaimFiles(p) ==
  /\ At(p) = "locked" /\ socket' = Nobody /\ pidFile' = p /\ Move(p, "building")
  /\ UNCHANGED <<lock, database, clients, service, others, struck, stopped, woe>>

build_state(p) ==
  /\ At(p) = "building"
  /\ IF daemons[p].build < database
     THEN daemons' = Dead(p, 3) /\ lock' = Released(p) /\ pidFile' = Nobody /\ UNCHANGED <<database, woe>>
     ELSE \/ Move(p, "ready") /\ database' = daemons[p].build /\ UNCHANGED <<lock, pidFile, woe>>
          \/ Unspent /\ daemons' = Dead(p, 1) /\ lock' = Released(p) /\ pidFile' = Nobody /\ UNCHANGED database
  /\ UNCHANGED <<socket, clients, service, others, struck, stopped>>

Bind(p) ==
  /\ At(p) = "ready" /\ socket' = p /\ Move(p, "bound")
  /\ UNCHANGED <<lock, pidFile, database, clients, service, others, struck, stopped, woe>>

\* What was left over is settled; now it answers, and SIGTERM is caught.
Listen(p) ==
  /\ At(p) = "bound" /\ Move(p, "serving")
  /\ UNCHANGED <<lock, socket, pidFile, database, clients, service, others, struck, stopped, woe>>

Teardown(p) ==
  \/ At(p) = "closing" /\ Move(p, "cleared") /\ socket' = Nobody /\ pidFile' = Nobody /\ UNCHANGED lock
  \/ At(p) = "cleared" /\ daemons' = Dead(p, 0) /\ lock' = Released(p) /\ UNCHANGED <<socket, pidFile>>
GoDown(p) ==
  /\ Teardown(p)
  /\ UNCHANGED <<database, clients, service, others, struck, stopped, woe>>

\* SIGTERM: caught once it serves, deadly before, and a PID may be another's.
terminate(p) ==
  IF p \in others \/ At(p) \in {"unused", "dead", "hung", "closing", "cleared"} THEN UNCHANGED <<daemons, lock>>
  ELSE IF At(p) = "serving" THEN Move(p, "closing") /\ UNCHANGED lock
  ELSE daemons' = Dead(p, 9) /\ lock' = Released(p)

Kill(p) ==
  /\ Alive(p) /\ Unspent /\ daemons' = Dead(p, 9) /\ lock' = Released(p)
  /\ UNCHANGED <<socket, pidFile, database, clients, service, others, struck, stopped>>

Hang(p) ==
  /\ At(p) \in {"bound", "serving"} /\ Unspent /\ Move(p, "hung")
  /\ UNCHANGED <<lock, socket, pidFile, database, clients, service, others, struck, stopped>>

UsedAgain(p) ==
  /\ At(p) = "dead" /\ p \notin others /\ Unspent /\ others' = others \cup {p}
  /\ UNCHANGED <<daemons, lock, socket, pidFile, database, clients, service, struck, stopped>>

\* The login item: at login, and again after any exit but success.
KeepAlive ==
  /\ woe.starts < MaxStarts
  /\ service # Nobody => At(service) = "dead" /\ daemons[service].code # 0
  /\ Launch(ServiceBuild) /\ service' = FreshPid
  /\ woe' = [woe EXCEPT !.starts = @ + 1]
  /\ UNCHANGED <<lock, socket, pidFile, database, clients, others, struck, stopped>>

-----------------------------------------------------------------------------
(* A client.                                                               *)

Keep(c, f) == clients' = [clients EXCEPT ![c] = [k \in DOMAIN @ |-> IF k \in DOMAIN f THEN f[k] ELSE @[k]]]
Say(c, what) == Keep(c, [at |-> "done", said |-> what])

spawn(c) ==
  /\ Keep(c, [at |-> "probe", why |-> "wait", mine |-> FreshPid, pid |-> Nobody])
  /\ Launch(clients[c].build)

Ask(c) ==
  /\ clients[c].at = "idle"
  /\ \E for \in Commands : Keep(c, [at |-> "probe", for |-> for, why |-> IF for = "run" THEN "connect" ELSE "stop"])
  /\ UNCHANGED <<daemons, lock, socket, pidFile, database, service, others, struck, stopped, woe>>

Launched(c) == daemons[clients[c].mine]

\* A connection that's refused: nobody listens.
probe(c) ==
  /\ clients[c].at = "probe"
  /\ IF Reachable THEN Keep(c, [at |-> "asked", pid |-> socket]) /\ UNCHANGED daemons
     ELSE CASE clients[c].why = "connect" -> spawn(c)
            [] clients[c].why = "stop" -> Keep(c, [at |-> "lock"]) /\ UNCHANGED daemons
            [] OTHER -> /\ Launched(c).at = "dead" /\ Launched(c).code # 0
                        /\ Say(c, IF Launched(c).code = 3 THEN "too new" ELSE "failed") /\ UNCHANGED daemons
  /\ UNCHANGED <<lock, socket, pidFile, database, service, others, struck, stopped, woe>>

\* The answer to Status on that connection, or that none came.
Ready(c) == LET p == clients[c].pid IN At(p) = "serving" /\ daemons[p].build = clients[c].build
Incompatible(c) ==
  LET p == clients[c].pid IN At(p) # "bound" /\ ~Ready(c)

connect(c) ==
  /\ clients[c].at = "asked" /\ clients[c].why # "stop"
  /\ \/ Ready(c) /\ Say(c, "ready")
     \/ Incompatible(c) /\ IF clients[c].why = "wait" THEN Say(c, "another answered")
                           ELSE Keep(c, [at |-> "probe", why |-> "stop"])
  /\ UNCHANGED <<daemons, lock, socket, pidFile, database, service, others, struck, stopped, woe>>

\* Shutdown: the daemon answers, then closes.
Shutdown(c) ==
  /\ clients[c].at = "asked" /\ clients[c].why = "stop"
  /\ \/ /\ Ready(c) /\ Keep(c, [at |-> "gone"]) /\ Move(clients[c].pid, "closing")
        /\ stopped' = stopped \cup {[for |-> clients[c].for, build |-> clients[c].build, theirs |-> daemons[clients[c].pid].build]}
     \/ Incompatible(c) /\ Keep(c, [at |-> "lock"]) /\ UNCHANGED <<daemons, stopped>>
  /\ UNCHANGED <<lock, socket, pidFile, database, service, others, struck, woe>>

\* After a stop: done, or on to the start.
Onward(c, said) ==
  CASE clients[c].for = "stop" -> Say(c, said) /\ UNCHANGED daemons
    [] clients[c].for = "restart" -> Keep(c, [at |-> "probe", for |-> "start", why |-> "connect"]) /\ UNCHANGED daemons
    [] OTHER -> spawn(c)

\* The lock is tried for sharing, and let go of at once.
daemon_lock_held(c) ==
  /\ \/ /\ clients[c].at = "lock" /\ UNCHANGED daemons
        /\ Keep(c, [at |-> IF lock # Nobody THEN "signal" ELSE "look"])
     \/ clients[c].at = "look" /\ Onward(c, "none ran")
  /\ UNCHANGED <<lock, socket, pidFile, database, service, others, struck, stopped, woe>>

stop(c) ==
  /\ clients[c].at = "signal"
  /\ IF pidFile = Nobody THEN Say(c, "no PID") /\ UNCHANGED <<daemons, lock, struck>>
     ELSE /\ Keep(c, [at |-> "gone", pid |-> pidFile]) /\ terminate(pidFile)
          /\ struck' = struck \cup (others \cap {pidFile})
  /\ UNCHANGED <<socket, pidFile, database, service, others, stopped, woe>>

pid_alive(p) == Alive(p) \/ p \in others

Gone(c) == ~Reachable /\ ~pid_alive(clients[c].pid)

wait_until_gone(c) ==
  /\ clients[c].at \in {"gone", "going"} /\ Gone(c) /\ Onward(c, "stopped")
  /\ UNCHANGED <<lock, socket, pidFile, database, service, others, struck, stopped, woe>>

\* Ten seconds pass: the process isn't about to exit by itself.
Overdue(c) ==
  /\ clients[c].at \in {"gone", "going"} /\ ~Gone(c) /\ At(clients[c].pid) \in {"dead", "hung"}
  /\ \/ /\ clients[c].at = "gone" /\ Keep(c, [at |-> "going"]) /\ terminate(clients[c].pid)
     \/ clients[c].at = "going" /\ Say(c, "didn't exit") /\ UNCHANGED <<daemons, lock>>
  /\ UNCHANGED <<socket, pidFile, database, service, others, struck, stopped, woe>>

\* mutant: a client waits as long as its launcher runs or exited well
MutantPatience(c) == FALSE
\* Fifteen seconds pass: nothing is still coming up or going down.
OutOfPatience(c) == \A p \in Pids : At(p) \in {"unused", "dead", "hung"}

wait_until_ready(c) ==
  /\ clients[c].at = "probe" /\ clients[c].why = "wait" /\ ~Reachable
  /\ OutOfPatience(c) /\ Launched(c).code = 0 /\ Say(c, "not ready")
  /\ UNCHANGED <<daemons, lock, socket, pidFile, database, service, others, struck, stopped, woe>>

-----------------------------------------------------------------------------
DaemonStep(p) == TakeLock(p) \/ ClaimFiles(p) \/ build_state(p) \/ Bind(p) \/ Listen(p) \/ GoDown(p)
ClientStep(c) ==
  \/ probe(c) \/ connect(c) \/ Shutdown(c) \/ daemon_lock_held(c) \/ stop(c)
  \/ wait_until_gone(c) \/ Overdue(c) \/ wait_until_ready(c)

SessionNext ==
  \/ \E p \in Pids : DaemonStep(p) \/ Kill(p) \/ Hang(p) \/ UsedAgain(p)
  \/ KeepAlive
  \/ \E c \in Clients : Ask(c) \/ ClientStep(c)

SessionSpec == SessionInit /\ [][SessionNext]_sessionVars

\* Every process that can take a step takes one in the end.
SessionFairness ==
  /\ \A p \in Pids : WF_sessionVars(DaemonStep(p))
  /\ \A c \in Clients : WF_sessionVars(ClientStep(c))

-----------------------------------------------------------------------------
(* Properties.                                                             *)

Serves(p) == At(p) \in {"serving", "hung"}

\* A daemon that serves can be found: the socket, the PID file and the lock
\* are its own, and no daemon on its way up or down took one from it
\* (server.rs serve: "we still hold the lock, so both files are ours").
Findable == \A p \in Pids : Serves(p) => socket = p /\ pidFile = p /\ lock = p

\* Every command ends, whatever its daemons do (the time limits in
\* daemon_client.rs).
CommandEnds == \A c \in Clients : clients[c].at = "probe" ~> clients[c].at = "done"

=============================================================================
