----------------------------- MODULE MCSession -----------------------------
(***************************************************************************)
(* Session with few accounts, channels and packets.                        *)
(***************************************************************************)
EXTENDS Session, TLC

Symmetry == Permutations(Request) \cup Permutations(Channel)
=============================================================================
