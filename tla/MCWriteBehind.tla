---------------------------- MODULE MCWriteBehind ---------------------------
(* Small instances of WriteBehind for TLC.                                 *)
EXTENDS WriteBehind, TLC

CONSTANTS c1, c2, k1, k2

MCCalls == c1 :> 3 @@ c2 :> 1
=============================================================================
