---------------------------- MODULE MCSandboxGate ---------------------------
(* Small instances of SandboxGate for TLC.                                 *)
EXTENDS SandboxGate, TLC

CONSTANTS a, b, c

MCSymmetry == Permutations(Runs)
=============================================================================
