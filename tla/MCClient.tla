------------------------------ MODULE MCClient ------------------------------
(***************************************************************************)
(* Client with two connections, one after the other.                       *)
(***************************************************************************)
EXTENDS Client

CONSTANTS s1, s2
=============================================================================
