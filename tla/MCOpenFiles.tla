---------------------------- MODULE MCOpenFiles ----------------------------
(* Instances of OpenFiles for TLC. *)
EXTENDS OpenFiles, TLC

CONSTANTS e1, e2

TwoEnvs == {e1, e2}
OneEnv == {e1}
M(access, creat, excl, trunc) == [access |-> access, creat |-> creat, excl |-> excl, trunc |-> trunc]
FewModes == {M("RDONLY", FALSE, FALSE, FALSE), M("RDWR", TRUE, FALSE, TRUE)}
=============================================================================
