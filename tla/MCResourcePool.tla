---------------------------- MODULE MCResourcePool ---------------------------
(* Small instances of ResourcePool for TLC.                                *)
EXTENDS ResourcePool, TLC

CONSTANTS t1, t2, t3, cpu, mem, tok, gpu

MCTasks == {t1, t2, t3}
MCPools == {cpu, mem, tok, gpu}

(* Two bounded pools and one unbounded that saturates; one unset.          *)
MCCapacity == cpu :> 2 @@ mem :> 1 @@ tok :> Unbounded @@ gpu :> 0
MCDemands ==
  { << >>,                          \* one CPU by default
    cpu :> 3 @@ mem :> 1,           \* clamped: runs alone
    gpu :> 0,                       \* a pool this run did not set: an error
    cpu :> 0 @@ tok :> 2 }          \* unbounded only: never queues
=============================================================================
