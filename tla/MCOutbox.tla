------------------------------ MODULE MCOutbox ------------------------------
(* Small instances of the outbox for TLC.                                  *)
EXTENDS Outbox, TLC

CONSTANTS t1, t2, l1, l2

HomeOne == [t \in {t1} |-> l1]
=============================================================================
