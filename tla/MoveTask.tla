------------------------------ MODULE MoveTask ------------------------------
(***************************************************************************)
(* What a move between lists promises, without saying how: the move only   *)
(* removes the original while it is at a version some copy was found to    *)
(* hold, and "done" is only said once the original is gone and such a copy *)
(* was found.  Graph has no compare-and-delete of its own, so the daemon's *)
(* batch compares first and deletes next: an edit that lands between the   *)
(* two is lost, and the specification admits exactly that.                 *)
(***************************************************************************)
EXTENDS Naturals

VARIABLES
  version,  \* the original's last edit
  removed,  \* who removed the original: nobody, the phone, or the move
  checked,  \* the versions a copy was compared with and found to hold
  aimed,    \* whether Graph has compared the original and is about to delete it
  said      \* what the queue says of the move

vars == <<version, removed, checked, aimed, said>>

Init == version = 1 /\ removed = "no" /\ checked = {} /\ ~aimed /\ said = "moving"

\* The phone edits or deletes the original, at any time.
Edit   == removed = "no" /\ version' > version /\ UNCHANGED <<removed, checked, aimed, said>>
Delete == removed = "no" /\ removed' = "phone" /\ UNCHANGED <<version, checked, aimed, said>>

Check  == /\ said = "moving"
          /\ \E v \in 1..version : checked' = checked \cup {v}
          /\ UNCHANGED <<version, removed, aimed, said>>
Aim    == /\ removed = "no" /\ version \in checked /\ aimed' = TRUE
          /\ UNCHANGED <<version, removed, checked, said>>
Remove == /\ aimed /\ removed = "no" /\ removed' = "move" /\ aimed' = FALSE
          /\ UNCHANGED <<version, checked, said>>
Miss   == aimed /\ removed # "no" /\ aimed' = FALSE /\ UNCHANGED <<version, removed, checked, said>>

Finish == /\ said = "moving" /\ removed # "no" /\ checked # {}
          /\ said' = "done"
          /\ UNCHANGED <<version, removed, checked, aimed>>
Stop   == /\ said \in {"moving", "asks", "failed"}
          /\ said' \in {"asks", "failed", "dropped"}
          /\ UNCHANGED <<version, removed, checked, aimed>>
Resume == /\ said \in {"asks", "failed"}
          /\ said' = "moving"
          /\ UNCHANGED <<version, removed, checked, aimed>>

Next == Edit \/ Delete \/ Check \/ Aim \/ Remove \/ Miss \/ Finish \/ Stop \/ Resume

Spec == Init /\ [][Next]_vars
=============================================================================
