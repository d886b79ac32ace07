---------------------------- MODULE MCWritePath ----------------------------
(* Small instances of the write path.                                       *)
EXTENDS WritePath, TLC

GroupSymmetry == Permutations(Group)
============================================================================
