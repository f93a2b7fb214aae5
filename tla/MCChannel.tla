----------------------------- MODULE MCChannel -----------------------------
(***************************************************************************)
(* Channel with two pushers.  The run checks progress along with safety,   *)
(* so it does not use the pushers' symmetry.                               *)
(***************************************************************************)
EXTENDS Channel
=============================================================================
