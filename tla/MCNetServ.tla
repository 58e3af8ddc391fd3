----------------------------- MODULE MCNetServ -----------------------------
(* Instances of NetServ for TLC. *)
EXTENDS NetServ, TLC

CONSTANTS n1, n2, k1, k2

Conns == {n1, n2}
Clients == {k1, k2}
Reqs == {k1 :> 4 @@ k2 :> 0, k1 :> 3 @@ k2 :> 1}
=============================================================================
