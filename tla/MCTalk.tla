------------------------------- MODULE MCTalk -------------------------------
(***************************************************************************)
(* Talk with few accounts, of which two are members of the only group, on  *)
(* channels of two gateways.                                               *)
(***************************************************************************)
EXTENDS Talk

CONSTANTS a1, a2, c1, c2, c3, g1, w1, w2

Both == [g \in {g1} |-> {a1, a2}]
Gates == [c \in Channel |-> IF c = c3 THEN w2 ELSE w1]
AllRoutes == Commands \cup {"members"}
=============================================================================
