--------------------------- MODULE MCClientPool ---------------------------
(***************************************************************************)
(* ClientPool with two services, Find's answer and one call of the         *)
(* callback: each service is built twice if its connection fails between.  *)
(***************************************************************************)
EXTENDS ClientPool
=============================================================================
