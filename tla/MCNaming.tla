----------------------------- MODULE MCNaming -----------------------------
(***************************************************************************)
(* Naming with few instances, watches and indexes.                         *)
(***************************************************************************)
EXTENDS Naming
=============================================================================
