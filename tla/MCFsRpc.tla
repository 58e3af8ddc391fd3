------------------------------ MODULE MCFsRpc ------------------------------
(* Small instances of module FsRpc. *)
EXTENDS FsRpc

CONSTANTS a, b, s, v1, v2

Two == {a, b, s}
Servers == {s}
Requests == {v1, v2}
Values == Requests \cup (Requests \X BOOLEAN)
OpenV1 == {v1}
=============================================================================
