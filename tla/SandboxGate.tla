----------------------------- MODULE SandboxGate ----------------------------
(***************************************************************************)
(* A target's sandbox directory, reused run after run, against the         *)
(* removals that runs leave behind them                                    *)
(* (crates/engine/src/engine/sandbox_cleaner.rs; execute.rs).  One         *)
(* directory of one process.  A run claims the directory's next            *)
(* generation, has the old tree removed, runs and caches its outputs, all  *)
(* under the execute lock; it may fail or be cancelled at any of these.    *)
(* A removal, once queued, is detached from its run.                       *)
(***************************************************************************)
EXTENDS Naturals

CONSTANTS
  Runs,      \* the runs of the target
  Material,  \* those a credential source makes, for the material they output
  None       \* no run

ASSUME GateAssumption == Material \subseteq Runs /\ None \notin Runs

VARIABLES
  generation,  \* the directory's claim counter
  claimed,     \* per run: the generation it claimed, 0 before
  tree,        \* the generation whose files are in the directory, 0: none
  holder,      \* who holds the execute lock
  pc,          \* per run: where it is
  cleanup,     \* the runs whose bridge handed over a cleanup job
  pre,         \* per run: its stale removal, on the blocking pool
  post,        \* per run: its cleanup or reclaim, on the cleaner's lane
  walk         \* who holds the directory's walk lock: a job, or None

gateVars == <<generation, claimed, tree, holder, pc, cleanup, pre, post, walk>>

Active == {"claimed", "preparing", "running", "caching"}
Ended == {"done", "failed", "cancelled"}
Jobs == {"none", "queued", "walking", "removed", "error"}

GateInit ==
  /\ generation = 0 /\ claimed = [r \in Runs |-> 0]
  /\ tree = 0 /\ holder = None
  /\ pc = [r \in Runs |-> "idle"] /\ cleanup = {}
  /\ pre = [r \in Runs |-> "none"] /\ post = [r \in Runs |-> "none"]
  /\ walk = None

-----------------------------------------------------------------------------
Goto(r, l) == pc' = [pc EXCEPT ![r] = l]
ToPre(r, s) == pre' = [pre EXCEPT ![r] = s]
ToPost(r, s) == post' = [post EXCEPT ![r] = s]

(* The execute lock, then claim, which takes no walk lock.                 *)
Claim(r) ==
  /\ pc[r] = "idle" /\ holder = None
  /\ holder' = r /\ Goto(r, "claimed")
  /\ generation' = generation + 1
  /\ claimed' = [claimed EXCEPT ![r] = generation + 1]
  /\ UNCHANGED <<tree, cleanup, pre, post, walk>>

(* SandboxLease::prepare queues the stale removal and awaits it.           *)
Prepare(r) ==
  /\ pc[r] = "claimed" /\ Goto(r, "preparing")
  /\ ToPre(r, "queued")
  /\ UNCHANGED <<generation, claimed, tree, holder, cleanup, post, walk>>

(* Only then the bridge creates the directory, and the driver runs.        *)
Create(r) ==
  /\ pc[r] = "preparing" /\ pre[r] = "removed"
  /\ Goto(r, "running") /\ tree' = claimed[r]
  /\ UNCHANGED <<generation, claimed, holder, cleanup, pre, post, walk>>

(* The run succeeds, and set_job arms the teardown with the bridge's job,  *)
(* if the driver's response has one.                                       *)
Respond(r) ==
  /\ pc[r] = "running" /\ Goto(r, "caching")
  /\ cleanup' \in {cleanup, cleanup \cup {r}}
  /\ UNCHANGED <<generation, claimed, tree, holder, pre, post, walk>>

Complete(r) == post' = IF r \in cleanup THEN [post EXCEPT ![r] = "queued"] ELSE post

(* The outputs are cached, or the cache write failed: complete().  A       *)
(* material run's outputs are read here, well or not, and not cached.      *)
Cached(r) ==
  /\ pc[r] = "caching" /\ Goto(r, "done")
  /\ Complete(r) /\ holder' = None
  /\ UNCHANGED <<generation, claimed, tree, cleanup, pre, walk>>

FailsAt(r) ==
  \/ pc[r] = "preparing" /\ pre[r] = "error"
  \/ pc[r] = "running"
  \/ pc[r] = "caching" /\ r \notin Material

\* mutant: a failing run reclaims its sandbox
Fail_reclaims(r) ==
  /\ FailsAt(r)
  /\ Goto(r, "failed") /\ holder' = None
  /\ ToPost(r, "queued") /\ cleanup' = cleanup \ {r}
  /\ UNCHANGED <<generation, claimed, tree, pre, walk>>

(* The stale removal or the run fails, or the response's artifacts cannot  *)
(* be described: leave_for_diagnostics(), which drops the job.  A material *)
(* run that fails calls complete() instead, before set_job has given it a  *)
(* job to queue.                                                           *)
Fail(r) ==
  /\ FailsAt(r)
  /\ Goto(r, "failed") /\ holder' = None
  /\ IF r \in Material THEN Complete(r) ELSE UNCHANGED post
  /\ cleanup' = cleanup \ {r}
  /\ UNCHANGED <<generation, claimed, tree, pre, walk>>

\* mutant: only a run that made its sandbox has it reclaimed
Reclaim_late(r) ==
  /\ pc[r] \in Active /\ Goto(r, "cancelled") /\ holder' = None
  /\ post' = IF pc[r] = "caching" THEN [post EXCEPT ![r] = "queued"] ELSE post
  /\ UNCHANGED <<generation, claimed, tree, cleanup, pre, walk>>

(* The future is dropped: SandboxTeardown::drop queues a reclaim.          *)
Reclaim(r) ==
  /\ pc[r] \in Active /\ Goto(r, "cancelled") /\ holder' = None
  /\ ToPost(r, "queued")
  /\ UNCHANGED <<generation, claimed, tree, cleanup, pre, walk>>

-----------------------------------------------------------------------------
\* mutant: a job does not look at the generation when it runs
StartWalk_unchecked(r) ==
  /\ walk = None /\ walk' = r
  /\ \/ pre[r] = "queued" /\ ToPre(r, "walking") /\ UNCHANGED post
     \/ post[r] = "queued" /\ ToPost(r, "walking") /\ UNCHANGED pre
  /\ UNCHANGED <<generation, claimed, tree, holder, pc, cleanup>>

(* run_if_current: the walk lock, then the check.                          *)
StartWalk(r) ==
  /\ walk = None /\ claimed[r] = generation
  /\ walk' = r
  /\ \/ pre[r] = "queued" /\ ToPre(r, "walking") /\ UNCHANGED post
     \/ post[r] = "queued" /\ ToPost(r, "walking") /\ UNCHANGED pre
  /\ UNCHANGED <<generation, claimed, tree, holder, pc, cleanup>>

Decline(r) ==
  /\ walk = None /\ claimed[r] # generation
  /\ \/ pre[r] = "queued" /\ ToPre(r, "removed") /\ UNCHANGED post
     \/ post[r] = "queued" /\ ToPost(r, "removed") /\ UNCHANGED pre
  /\ UNCHANGED <<generation, claimed, tree, holder, pc, cleanup, walk>>

(* remove_dir_all takes its time, and what is there at its end is gone.    *)
EndWalk(r) ==
  /\ walk = r /\ walk' = None
  /\ tree' = 0
  /\ \/ pre[r] = "walking" /\ ToPre(r, "removed") /\ UNCHANGED post
     \/ post[r] = "walking" /\ ToPost(r, "removed") /\ UNCHANGED pre
  /\ UNCHANGED <<generation, claimed, holder, pc, cleanup>>

(* Or it fails, or panics.  The awaiter of a stale removal is told; the    *)
(* cleaner's lane logs it and goes on to the next job.                     *)
FailWalk(r) ==
  /\ walk = r /\ walk' = None
  /\ \/ pre[r] = "walking" /\ ToPre(r, "error") /\ UNCHANGED post
     \/ post[r] = "walking" /\ ToPost(r, "error") /\ UNCHANGED pre
  /\ UNCHANGED <<generation, claimed, tree, holder, pc, cleanup>>

Rest ==
  /\ \A r \in Runs : pc[r] \in Ended /\ {pre[r], post[r]} \cap {"queued", "walking"} = {}
  /\ UNCHANGED gateVars

Step(r) ==
  \/ Claim(r) \/ Prepare(r) \/ Create(r) \/ Respond(r) \/ Cached(r) \/ Fail(r) \/ Reclaim(r)
  \/ StartWalk(r) \/ Decline(r) \/ EndWalk(r) \/ FailWalk(r)

GateNext == (\E r \in Runs : Step(r)) \/ Rest

GateSpec == GateInit /\ [][GateNext]_gateVars

(* A claim goes on to its removal, and the pool and the cleaner thread run *)
(* what is queued.                                                         *)
Work(r) == Prepare(r) \/ StartWalk(r) \/ Decline(r) \/ EndWalk(r) \/ FailWalk(r)
GateFairSpec == GateSpec /\ \A r \in Runs : WF_gateVars(Work(r))

-----------------------------------------------------------------------------
GateTypeOK ==
  /\ generation \in Nat /\ tree \in Nat
  /\ claimed \in [Runs -> Nat]
  /\ holder \in Runs \cup {None} /\ walk \in Runs \cup {None}
  /\ pc \in [Runs -> {"idle"} \cup Active \cup Ended]
  /\ cleanup \subseteq Runs
  /\ pre \in [Runs -> Jobs] /\ post \in [Runs -> Jobs]

(* No removal, however late it runs, deletes the tree of a run that is     *)
(* using it: "a remove_dir_all landing on a live sandbox silently eats     *)
(* freshly written outputs".                                               *)
LiveTree ==
  \A r \in Runs : pc[r] \in {"running", "caching"} => tree = claimed[r]

(* A failed run's tree, with its log, stays until the target's next run.   *)
(* Not said of a material run, whose tree is not meant to stay.            *)
KeptForDiagnostics ==
  [][\A r \in Runs \ Material :
       pc[r] = "failed" /\ tree = claimed[r] /\ tree' # tree => claimed[r] # generation]_gateVars

(* A cancelled run, and a completed one whose driver gave it a cleanup     *)
(* job, leaves no tree behind, unless its own removal fails or that of a   *)
(* later run, to which a removal that declines leaves the tree.  A failed  *)
(* material run is not among them: the code means to remove its tree, and  *)
(* does not.                                                               *)
Discarded(r) == pc[r] = "cancelled" \/ (pc[r] = "done" /\ r \in cleanup)
RemovalFailed(r) ==
  \E s \in Runs : claimed[s] >= claimed[r] /\ "error" \in {pre[s], post[s]}
Collected ==
  \A r \in Runs :
    Discarded(r) /\ tree = claimed[r] ~> tree # claimed[r] \/ RemovalFailed(r)

-----------------------------------------------------------------------------
(* What makes LiveTree inductive: the lock holder's claim is the current   *)
(* one, claims differ, and from the end of its stale removal on nothing    *)
(* walks the directory.                                                    *)
HolderIsCurrent ==
  \A r \in Runs :
    /\ pc[r] \in Active => holder = r /\ claimed[r] = generation
    /\ pc[r] = "idle" <=> claimed[r] = 0
ClaimsDiffer ==
  /\ \A r \in Runs : claimed[r] <= generation
  /\ \A r, s \in Runs : claimed[r] = claimed[s] /\ claimed[r] # 0 => r = s
QueuedWhen ==
  \A r \in Runs :
    /\ pc[r] \in {"idle", "claimed"} => pre[r] = "none"
    /\ pc[r] \in {"running", "caching"} => pre[r] = "removed"
    /\ pc[r] \in {"idle"} \cup Active => post[r] = "none"
WalkLock ==
  \A r \in Runs :
    /\ walk = r <=> "walking" \in {pre[r], post[r]}
    /\ ~(pre[r] = "walking" /\ post[r] = "walking")
WalkFree ==
  \A r \in Runs :
    pc[r] \in {"running", "caching"} \/ (pc[r] = "preparing" /\ pre[r] = "removed") =>
      walk = None
(* And for KeptForDiagnostics: a failed run has queued nothing.            *)
FailedQuiet ==
  \A r \in Runs :
    /\ pc[r] \in {"idle", "claimed", "preparing", "running", "failed"} => r \notin cleanup
    /\ pc[r] = "failed" => post[r] = "none" /\ pre[r] \in {"removed", "error"}
    /\ pc[r] = "preparing" /\ pre[r] = "error" => walk = None
    /\ pc[r] = "failed" /\ claimed[r] = generation => walk = None
GateInv ==
  /\ GateTypeOK /\ HolderIsCurrent /\ ClaimsDiffer /\ QueuedWhen /\ WalkLock /\ WalkFree
  /\ LiveTree
=============================================================================
