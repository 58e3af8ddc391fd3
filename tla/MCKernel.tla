------------------------------ MODULE MCKernel ------------------------------
(* Small instances of module Kernel. *)
EXTENDS Kernel

BootFsUser == <<"FS", "USER">>
BootUser == <<"USER">>
=============================================================================
