------------------------------- MODULE MCSkipList -------------------------------
(* Small instances of SkipList for TLC. *)
EXTENDS SkipList_proofs, TLC

NodeSymmetry == Permutations(Nodes)
===============================================================================
