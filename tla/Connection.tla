------------------------------ MODULE Connection ------------------------------
(***************************************************************************)
(* One connection between a client and the daemon                          *)
(* (crates/daemon/src/server.rs serve_connection, crates/protocol): the    *)
(* requests one way, the answers and the subscription's events the other,  *)
(* and what each side makes of them.  The cache is a version that each     *)
(* write raises; the syncer is the number of passes started and finished.  *)
(***************************************************************************)
EXTENDS Naturals, Sequences, FiniteSets

CONSTANTS Peers,        \* the connections
          Subscribers,  \* those of the terminal interface: they subscribe
          Room,         \* bound: frames the socket holds on their way to a client
          Backlog,      \* events kept for a subscriber that falls behind
          MaxAsks,      \* bound: requests a client chooses to send
          MaxPasses,    \* bound: starts and ends of sync passes
          MaxBreaks     \* bound: connections that break

ASSUME ConnectionAssumption == /\ Subscribers \subseteq Peers
                               /\ {Room, Backlog} \subseteq Nat \ {0}

VARIABLES world,    \* the cache's version
          passes,   \* how often a pass started or finished
          wire,     \* per connection: frames both ways, and what the daemon does on it
          screens,  \* per client: what it waits for and what it knows
          ranWrites,      \* history: per client, the writes that ran
          breaks

connVars == <<world, passes, wire, screens, ranWrites, breaks>>

\* What a client can ask for, told apart as the daemon tells it apart.
Asked == {"read", "write", "suggest", "sync", "unknown"}
answered_out_of_order(kind) == kind = "suggest"

NoWork == [id |-> 0, kind |-> "none", done |-> FALSE, got |-> 0]
Fresh == [open |-> TRUE, up |-> <<>>, down |-> <<>>, sub |-> 0, backlog |-> <<>>, lagged |-> FALSE,
          shown |-> 0, work |-> NoWork, late |-> {}, serving |-> TRUE]
\* Each write changes the one part of the cache or the other, in turn.
Parts == {0, 1}
Latest(part, version) == IF version % 2 = part THEN version ELSE IF version = 0 THEN 0 ELSE version - 1
NewScreen == [next |-> 1, asks |-> 0, waiting |-> {}, stale |-> {}, view |-> [p \in Parts |-> 0], activity |-> 0, said |-> {}]

ConnInit ==
  /\ world = 0 /\ passes = 0 /\ breaks = 0
  /\ wire = [c \in Peers |-> Fresh]
  /\ screens = [c \in Peers |-> NewScreen]
  /\ ranWrites = [c \in Peers |-> {}]

Frame(id, what, value) == [id |-> id, what |-> what, value |-> value]

-----------------------------------------------------------------------------
(* Events.                                                                 *)

\* mutant: the oldest event goes, and nobody hears of it
MutantKept(w) ==
  IF Len(w.backlog) < Backlog THEN [w EXCEPT !.backlog = Append(@, world' % 2)]
  ELSE [w EXCEPT !.backlog = Append(Tail(@), world' % 2)]
\* What a subscriber's receiver keeps: the oldest event goes when it's full.
Kept(w) ==
  IF Len(w.backlog) < Backlog THEN [w EXCEPT !.backlog = Append(@, world' % 2)]
  ELSE [w EXCEPT !.backlog = Append(Tail(@), world' % 2), !.lagged = TRUE]

Notified(ws) == [c \in Peers |-> IF ws[c].sub # 0 /\ ws[c].serving THEN Kept(ws[c]) ELSE ws[c]]

Only(frame, if) == IF if THEN {frame} ELSE {}

\* The subscription's next event: what it missed, what changed, or that a
\* pass started or finished since the last it was told.
Pushes(w) ==
  Only(Frame(w.sub, "resync", 0), w.lagged)
  \cup Only(Frame(w.sub, "changed", Head(w.backlog)), ~w.lagged /\ w.backlog # <<>>)
  \cup Only(Frame(w.sub, "activity", passes), w.shown # passes)

CanSend(w) == w.open /\ Len(w.down) < Room
Sent(c, w, frame) == wire' = [wire EXCEPT ![c] = [w EXCEPT !.down = Append(@, frame)]]
\* The client went away: the connection's task ends, and its work with it.
Ended(c) ==
  wire' = [wire EXCEPT ![c] = [@ EXCEPT !.serving = FALSE, !.work = NoWork, !.late = {}, !.sub = 0, !.up = <<>>]]

push(c) ==
  /\ wire[c].serving /\ wire[c].sub # 0
  /\ \E frame \in Pushes(wire[c]) :
       \/ ~wire[c].open /\ Ended(c)
       \/ CanSend(wire[c]) /\
          Sent(c, CASE frame.what = "resync" -> [wire[c] EXCEPT !.lagged = FALSE]
                    [] frame.what = "changed" -> [wire[c] EXCEPT !.backlog = Tail(@)]
                    [] OTHER -> [wire[c] EXCEPT !.shown = passes], frame)
  /\ UNCHANGED <<world, passes, screens, ranWrites, breaks>>

\* A pass starts or finishes.
Pass ==
  /\ passes < MaxPasses /\ passes' = passes + 1
  /\ UNCHANGED <<world, wire, screens, ranWrites, breaks>>

-----------------------------------------------------------------------------
(* The daemon's side: requests one at a time, except those answered out of *)
(* order.                                                                  *)

\* Subscribed before answering, and what the syncer does now comes first.
Subscription(c, id) ==
  wire' = [wire EXCEPT ![c] = [wire[c] EXCEPT
             !.up = Tail(@), !.sub = id, !.shown = passes, !.backlog = <<>>,
             !.down = @ \o <<Frame(id, "ack", 0), Frame(id, "activity", passes)>>]]
Begun(r) == [NoWork EXCEPT !.id = r.id, !.kind = r.kind, !.got = world]

Take(c, r) ==
  IF answered_out_of_order(r.kind) THEN [wire[c] EXCEPT !.late = @ \cup {Begun(r)}, !.up = Tail(@)]
  ELSE [wire[c] EXCEPT !.work = Begun(r), !.up = Tail(@)]

serve_connection(c) ==
  /\ wire[c].serving /\ wire[c].work = NoWork /\ wire[c].up # <<>>
  /\ LET r == Head(wire[c].up) IN
       IF r.kind = "subscribe" THEN IF wire[c].open THEN Subscription(c, r.id) ELSE Ended(c)
       ELSE wire' = [wire EXCEPT ![c] = Take(c, r)]
  /\ UNCHANGED <<world, passes, screens, ranWrites, breaks>>

\* The daemon does what it was asked: only a write changes anything.
handle(c) ==
  /\ wire[c].serving /\ wire[c].work # NoWork /\ ~wire[c].work.done
  /\ LET done == [wire EXCEPT ![c].work.done = TRUE, ![c].work.got = IF wire[c].work.kind = "write" THEN world + 1 ELSE world] IN
       IF wire[c].work.kind = "write"
       THEN world' = world + 1 /\ ranWrites' = [ranWrites EXCEPT ![c] = @ \cup {wire[c].work.id}] /\ wire' = Notified(done)
       ELSE wire' = done /\ UNCHANGED <<world, ranWrites>>
  /\ UNCHANGED <<passes, screens, breaks>>

What(kind) == IF kind = "unknown" THEN "refused" ELSE "answer"

send(c) ==
  /\ wire[c].serving /\ wire[c].work.done
  /\ \/ ~wire[c].open /\ Ended(c)
     \/ CanSend(wire[c]) /\ Sent(c, [wire[c] EXCEPT !.work = NoWork], Frame(wire[c].work.id, What(wire[c].work.kind), wire[c].work.got))
  /\ UNCHANGED <<world, passes, screens, ranWrites, breaks>>

\* Progress of the pass a request waits for, with the request's ID.
SyncProgress(c) ==
  /\ wire[c].serving /\ wire[c].work.kind = "sync" /\ ~wire[c].work.done
  /\ \A n \in DOMAIN wire[c].down : wire[c].down[n].what # "progress"
  /\ \/ ~wire[c].open /\ Ended(c)
     \/ CanSend(wire[c]) /\ Sent(c, wire[c], Frame(wire[c].work.id, "progress", 0))
  /\ UNCHANGED <<world, passes, screens, ranWrites, breaks>>

send_late(c) ==
  /\ wire[c].serving
  /\ \E r \in wire[c].late :
       \/ ~wire[c].open /\ Ended(c)
       \/ CanSend(wire[c]) /\ Sent(c, [wire[c] EXCEPT !.late = @ \ {r}], Frame(r.id, "answer", r.got))
  /\ UNCHANGED <<world, passes, screens, ranWrites, breaks>>

-----------------------------------------------------------------------------
(* The client's side.                                                      *)

Emit(c, kind, of, s) ==
  /\ screens' = [screens EXCEPT ![c] = [s EXCEPT !.next = @ + 1, !.waiting = @ \cup {[id |-> s.next, kind |-> kind, of |-> of]}]]
  /\ wire' = [wire EXCEPT ![c].up = IF wire[c].serving THEN Append(@, [id |-> s.next, kind |-> kind]) ELSE @]

AskFor(c) ==
  /\ wire[c].open /\ screens[c].asks < MaxAsks
  /\ c \in Subscribers => screens[c].next > 1
  /\ c \notin Subscribers => screens[c].waiting = {}
  /\ \E kind \in Asked : Emit(c, kind, Parts, [screens[c] EXCEPT !.asks = @ + 1])
  /\ UNCHANGED <<world, passes, ranWrites, breaks>>

Subscribe(c) ==
  /\ c \in Subscribers /\ wire[c].open /\ screens[c].next = 1
  /\ Emit(c, "subscribe", {}, screens[c])
  /\ UNCHANGED <<world, passes, ranWrites, breaks>>

ReadAgain(c) ==
  /\ wire[c].open /\ screens[c].stale # {}
  /\ Emit(c, "read", screens[c].stale, [screens[c] EXCEPT !.stale = {}])
  /\ UNCHANGED <<world, passes, ranWrites, breaks>>

Waited(c, id) == {r \in screens[c].waiting : r.id = id}

\* The answer to request r.
Answer(s, r, f) ==
  [s EXCEPT !.waiting = @ \ {r},
            !.view = IF r.kind = "read" THEN [p \in Parts |-> IF p \in r.of THEN Latest(p, f.value) ELSE @[p]] ELSE @,
            !.said = @ \cup {[id |-> r.id, what |-> f.what, kind |-> r.kind]}]

\* The tags, and what the frame is worth to the client that reads it.
Learnt(c, f) ==
  LET s == screens[c] IN
    CASE f.what \in {"answer", "refused"} /\ Waited(c, f.id) # {} -> Answer(s, CHOOSE r \in Waited(c, f.id) : TRUE, f)
      [] f.what = "ack" -> [s EXCEPT !.waiting = @ \ Waited(c, f.id), !.stale = Parts]
      [] f.what = "resync" -> [s EXCEPT !.stale = Parts]
      [] f.what = "changed" -> [s EXCEPT !.stale = @ \cup {f.value}]
      [] f.what = "activity" -> [s EXCEPT !.activity = f.value]
      [] OTHER -> s

take_reply(c) ==
  /\ wire[c].down # <<>>
  /\ screens' = [screens EXCEPT ![c] = Learnt(c, Head(wire[c].down))]
  /\ wire' = [wire EXCEPT ![c].down = Tail(@)]
  /\ UNCHANGED <<world, passes, ranWrites, breaks>>

lost(kind) == IF kind = "write" THEN "outcome unknown" ELSE "unavailable"

\* The answer doesn't come: the connection broke, or nothing came for too long.
Unanswered(c) ==
  /\ wire[c].open /\ screens[c].waiting # {} /\ breaks < MaxBreaks /\ breaks' = breaks + 1
  /\ wire' = [wire EXCEPT ![c].open = FALSE, ![c].down = <<>>]
  /\ screens' = [screens EXCEPT ![c].waiting = {}, ![c].said = @ \cup
       {[id |-> r.id, what |-> lost(r.kind), kind |-> r.kind] : r \in screens[c].waiting}]
  /\ UNCHANGED <<world, passes, ranWrites>>

-----------------------------------------------------------------------------
DaemonSide(c) == serve_connection(c) \/ handle(c) \/ send(c) \/ send_late(c) \/ push(c)
ClientSide(c) == ReadAgain(c) \/ take_reply(c)

ConnNext ==
  \/ Pass
  \/ \E c \in Peers : DaemonSide(c) \/ SyncProgress(c) \/ ClientSide(c) \/ AskFor(c) \/ Subscribe(c) \/ Unanswered(c)

ConnSpec == ConnInit /\ [][ConnNext]_connVars

\* Both ends run on: the daemon's task, and the client's loop.
ConnFairness == \A c \in Peers : WF_connVars(DaemonSide(c)) /\ WF_connVars(ClientSide(c))

-----------------------------------------------------------------------------
(* Properties.                                                             *)

Current(c) == \A p \in Parts : screens[c].view[p] = Latest(p, world)
Still(c) ==
  /\ wire[c].open /\ wire[c].sub # 0 /\ wire[c].down = <<>> /\ wire[c].up = <<>> /\ wire[c].work = NoWork
  /\ wire[c].backlog = <<>> /\ ~wire[c].lagged /\ screens[c].stale = {} /\ screens[c].waiting = {}

\* A subscriber with nothing on its way to it shows the cache as it is and
\* what the syncer does: no change after its Ack is missed, even one that a
\* full backlog dropped (server.rs Subscription).
NothingMissed ==
  \A c \in Subscribers : Still(c) => /\ Current(c)
                                     /\ wire[c].shown = passes => screens[c].activity = passes

=============================================================================
