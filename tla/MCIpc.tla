------------------------------- MODULE MCIpc -------------------------------
(* Small instances of module Ipc. *)
EXTENDS Ipc, TLC

CONSTANTS a, b, s, v1, v2

Three == {a, b, s}
Two == {a, b}
Servers == {s}
Values == {v1, v2}
Symm == Permutations(Value) \cup Permutations(Two)
=============================================================================
