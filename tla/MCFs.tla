-------------------------------- MODULE MCFs --------------------------------
(* Instances of FsBlocks for TLC. *)
EXTENDS FsBlocks, TLC

CONSTANTS f1, f2, f3

Names == {f1, f2, f3}
Bytes == {<<1, 2>>, <<3>>}
Counts == {3}
Sizes == {0, 3, 7}
Offsets == {1, 4}
Symm == Permutations(Names)
=============================================================================
