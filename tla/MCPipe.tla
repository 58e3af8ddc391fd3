------------------------------- MODULE MCPipe -------------------------------
(* Small instances of module Pipe. *)
EXTENDS Pipe, TLC

CONSTANTS a, b, d, c1, c2

Two == {a, b}
Three == {a, b, d}
OneCPU == {c1}
TwoCPUs == {c1, c2}
Symm == Permutations(Proc) \cup Permutations(CPU)
=============================================================================
