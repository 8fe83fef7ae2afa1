-------------------------------- MODULE MCLog --------------------------------
(***************************************************************************)
(* Instances of Log for TLC.                                               *)
(***************************************************************************)
EXTENDS Log, TLC

CONSTANTS p1, p2, b1, b2, b3, b4, zero, one

TwoProcs == {p1, p2}
FourBlocks == {b1, b2, b3, b4}
BlockSymmetry == Permutations(FourBlocks)
TwoValues == {zero, one}
=============================================================================
