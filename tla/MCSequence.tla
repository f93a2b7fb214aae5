----------------------------- MODULE MCSequence -----------------------------
(***************************************************************************)
(* Sequence with a counter of five values and three goroutines, which all  *)
(* can stand at the end of its range at once, one of them for a whole lap. *)
(***************************************************************************)
EXTENDS Sequence
=============================================================================
