------------------------------- MODULE MCFLock ------------------------------
(* Small instances of FLock for TLC.                                       *)
EXTENDS FLock, TLC

MCSymmetry == Permutations(States) \cup Permutations(Inodes)
=============================================================================
