--------------------------- MODULE MCCommitChain ---------------------------
(* Small instances of the commit chain.                                     *)
EXTENDS CommitChain, TLC

NodeSymmetry == Permutations(Node)
============================================================================
