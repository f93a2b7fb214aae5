---------------------------- MODULE MCContainer ----------------------------
(***************************************************************************)
(* Container with few connections and clients.                             *)
(***************************************************************************)
EXTENDS Container

CONSTANTS i1, i2
OneOrBoth == {<<i1>>, <<i1, i2>>}
=============================================================================
