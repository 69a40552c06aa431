---------------------------- MODULE MCResultLock ----------------------------
(* A small instance of ResultLock for TLC.                                 *)
EXTENDS ResultLock, TLC

CONSTANTS t1, t2, t3

MCTasks == {t1, t2, t3}
MCOps == t1 :> 2 @@ t2 :> 1 @@ t3 :> 1
=============================================================================
