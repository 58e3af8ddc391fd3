------------------------------ MODULE MCPages ------------------------------
(* Small instances of module Pages. *)
EXTENDS Pages, TLC

CONSTANTS p1, p2, p3, p4, p5, e1, e2, c1, c2

Pages5 == {p1, p2, p3, p4, p5}
Envs == {e1, e2}
CPUs == {c1, c2}
Symm == Permutations(Page) \cup Permutations(CPU)
=============================================================================
