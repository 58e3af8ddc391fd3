----------------------------- MODULE MCCowFork -----------------------------
(* Instances of CowFork for TLC. *)
EXTENDS CowFork, TLC

CONSTANTS e1, e2, e3, p1, p2, p3

ThreeEnvs == {e1, e2, e3}
Pages3 == {p1, p2, p3}
Symm == Permutations(Pages3) \cup Permutations({e2, e3})
=============================================================================
