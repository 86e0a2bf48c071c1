---------------------------- MODULE MCUnattended ----------------------------
(***************************************************************************)
(* What the daemon sees through with nobody looking: a move from one list  *)
(* to another, the nags that are owed, and the index of semantic search.   *)
(* `part` says which one runs, and the others stay where they started.     *)
(***************************************************************************)
EXTENDS MoveJob, Nag, Semantic

CONSTANT f1
VARIABLE part

TwoTasks == {1, 2}
OneSearch == {"cli"}
Times == {-1, 1}
SomeSetups == {[file |-> f, system |-> "notifier"] : f \in {"none", "off", "noquiet"}}
              \cup {[file |-> "bad", system |-> "neither"]}
AskedMinutes == {1, 2}

MCInit ==
  /\ part \in {"move", "nag", "index"}
  /\ Init /\ NagInit /\ SemanticInit
  /\ part # "nag" => setup.file = "off" /\ nrow = [t \in NagTasks |-> [open |-> TRUE, nag |-> 2, rem |-> 1, hidden |-> FALSE]]
  /\ part # "index" => \A t \in Texts : cached[t].is = "none"

MCNext ==
  /\ UNCHANGED part
  /\ \/ part = "move" /\ Next /\ UNCHANGED <<nagVars, semVars>>
     \/ part = "nag" /\ NagNext /\ UNCHANGED <<vars, semVars>>
     \/ part = "index" /\ SemanticNext /\ UNCHANGED <<vars, nagVars>>

\* The fairness of FairSpec and of NagSpec, each in its own part.
MCSpec ==
  /\ MCInit /\ [][MCNext]_<<part, vars, nagVars, semVars>>
  /\ WF_vars(part = "move" /\ Attempt)
  /\ WF_vars(part = "move" /\ GraphDeletes)
  /\ WF_vars(part = "move" /\ \E v \in 1..(MaxEdits + 1) : GraphCompares(v))
  /\ WF_nagVars(part = "nag" /\ NextLoop)

=============================================================================
