------------------------------ MODULE MCTaskCell -----------------------------
(* Small instances of TaskCell for TLC.                                    *)
EXTENDS TaskCell, TLC

MCSettings == {<<TRUE, TRUE>>, <<FALSE, FALSE>>}
MCSteady == {<<TRUE, FALSE>>, <<FALSE, FALSE>>}

MCSymmetry == Permutations(Callers)
=============================================================================
