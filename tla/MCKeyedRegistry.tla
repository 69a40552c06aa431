--------------------------- MODULE MCKeyedRegistry --------------------------
(* Small instances of KeyedRegistry for TLC.                               *)
EXTENDS KeyedRegistry, TLC

MCSymmetry == Permutations(Users) \cup Permutations(Cells)
=============================================================================
