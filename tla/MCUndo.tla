------------------------------- MODULE MCUndo -------------------------------
(* Small instances of Undo for TLC. *)
EXTENDS Undo

AllAsks   == AskNames
PhoneDoes == {<<"due", "d3">>, <<"who", "kim">>, <<"at", "later">>, <<"step", "yes">>}
=============================================================================
