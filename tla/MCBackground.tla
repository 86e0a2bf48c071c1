---------------------------- MODULE MCBackground ----------------------------
(***************************************************************************)
(* What the daemon does unasked: a sync pass, and the loop that starts the *)
(* passes.  The loop knows a pass only by its start and its end, so each   *)
(* runs on its own: `part` says which, and the other stays where it        *)
(* started.                                                                *)
(***************************************************************************)
EXTENDS SyncPass, Scheduler

CONSTANTS t1, t2, c1, c2, l1
VARIABLE part

MCInit == part \in {"pass", "scheduler"} /\ SyncInit /\ Init

MCNext ==
  /\ UNCHANGED part
  /\ \/ part = "pass" /\ SyncNext /\ UNCHANGED vars
     \/ part = "scheduler" /\ Next /\ UNCHANGED syncVars

\* The fairness of SyncFairSpec and of FairSpec, each in its own part.
MCSpec ==
  /\ MCInit /\ [][MCNext]_<<part, syncVars, vars>>
  /\ WF_syncVars(part = "pass" /\ PassStep) /\ WF_syncVars(part = "pass" /\ Outbox)
  /\ SF_syncVars(part = "pass" /\ Get) /\ SF_syncVars(part = "pass" /\ (Advance \/ Apply))
  /\ \A t \in Tasks : SF_syncVars(part = "pass" /\ Fetched(t))
  /\ WF_vars(part = "scheduler" /\ PassEnds) /\ WF_vars(part = "scheduler" /\ (Elapsed \/ Woken))
  /\ WF_vars(part = "scheduler" /\ Starts)
  /\ \A c \in Clients : WF_vars(part = "scheduler" /\ Handler(c))

\* The cache comes to match Graph and stays so, where passes run
\* (Converges; pass.rs sync_list).
PassesConverge == part = "pass" => Converges
=============================================================================
