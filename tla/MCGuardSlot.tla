----------------------------- MODULE MCGuardSlot ----------------------------
(* Small instances of GuardSlot for TLC.                                   *)
EXTENDS GuardSlot, TLC

CONSTANTS a, b, c

MCSymmetry == Permutations(Callers)
=============================================================================
