# heph in TLA+

heph is a build engine: a request names a target, the engine resolves its
inputs, hashes them into a revision (`hashin`), looks the revision up in a local
cache that every heph process on the machine shares, and on a miss runs the
target in a sandbox directory and stores what it made. Many requests, tasks and
processes do this at once, may be cancelled at any await and may be killed at
any instruction. These modules model the parts of the engine whose correctness
rests on the order of such steps: the locks, the memoizer, the admission of
runs, what a run waits for and in which order, the life of a cache entry and of
a sandbox, and the queue in front of the cache's database.

Paths below are relative to `src/crates/`.

## 1. The system and its parts

| part | code | state | operations | what makes it hard |
|---|---|---|---|---|
| admission pool | `engine/.../resource_pool.rs` | amounts held per pool, one FIFO of waiters, a oneshot per waiter | acquire, poll, drop of an Acquire or a Reservation | a grant sent to a future that is being dropped; a head that blocks smaller followers; saturation |
| memoizer task cell | `core/src/hmemoizer/task_cell.rs` | a map of cells, an interest count, a task handle, one "grave" per key | process (hit, join, build), body task, abandon, evict | last awaiter leaves while another joins; aborted futures that still run; runtime shutdown |
| filesystem lock | `lock/src/hlock/flock.rs` | a path, inodes, flock modes, per-state reader counts | acquire, release (which unlinks), probe | unlink under waiters, across processes, with crashes |
| keyed registry | `lock/src/hlock/keyed.rs` | a weak map from keys to lock cells | lookup, lock, drop | a cell re-created while the old one is being dropped |
| result lock | `lock/src/hlock/bridge.rs`, `engine/.../result_lock.rs` | a gateway per target, a reader/writer lock per revision | read, upgradable read, write, upgrade, downgrade, target and revision guards, probe | two locks that must look like one |
| result path | `engine/.../result.rs`, `local_cache.rs`, `execute.rs` | manifest and blobs of a revision, the execute lock, what a request resolved to | probe, miss, contended miss, forced run, hash-only request, pull, rebuild, hand-off | every step is an await; other processes act in between |
| gc and clean | `engine/.../gc.rs`, `clean.rs` | the revisions listed | list, lock, list again, delete blobs, delete manifest | deletes beside readers; killed half-way |
| deferred trims | `engine/.../gc.rs`, `request_state.rs` | the revisions by the stamp of their manifest, the trim a request owes | count, try-lock, list, skip or delete, give up | what was surplus when counted may be the newest when deleted |
| execute | `engine/.../execute.rs` | gateway, execute lock, reservation, place in line of each run | resolve dependencies, lock, be admitted, run, cache, fail, be cancelled | a run holds what another waits for, across processes |
| scratch slots | `engine/.../scratch.rs` | a lock per slot | acquire in order, release | several per run, shared by targets and processes |
| credentials | `engine/.../credential.rs`, `credential_store.rs` | a cell per process, an entry on disk, a lock per key | read, expire, remove, lock, look again, delegate, produce, keep | acquired in the middle of a run, by another run if need be |
| guard slot | `engine/.../result.rs` (GuardSlot) | a weak read guard in a memoized value | hold, validate, claim, drop | the guard lapses and the revision changes before the next claim |
| sandbox and cleaner | `engine/.../sandbox_cleaner.rs`, `execute.rs` | a generation and a walk lock per directory, two queues of removals | claim, stale removal, teardown, reclaim | removals run late, beside the next run |
| write-behind queue | `engine/.../local_cache_sqlite.rs` | a channel of commands, a map of pending slots, the writer thread | write, delete, read, probe, drain; batch, commit, release, unwind | readers that must see what is only queued; a writer that panics |

They interact as follows. A request asks the **memoizer**; its body takes the
**result lock** (a bridge of a **keyed** gateway and revision lock, each a
**filesystem lock** or an in-memory one), follows the **result path**, and on a
miss goes through **execute**: it takes its **scratch slots** and the execute
lock, is admitted by the **pool**, gets its **credentials**, runs in a
**sandbox** and stores its entry through the **write-behind queue**. What it
hands out holds a read through the **guard slot**. **gc**, **clean** and the
**trim** a request owes when it is over enter through the same locks.

`PROJECT.json` lists every other part of the repository with the reason it is
not modelled; section 7 says which of them come next.

## 2. How the modules fit together

```
 ResourcePool ==refines==> Admission
 TaskCell
 FLock        KeyedRegistry
      \         /              (their promises: mutual exclusion, one instance)
      ResultLock ==refines==> TransformableLock
                                   ^
                                   | EXTENDS: the promise, not the bridge
                              ResultPath   (requests, forced runs, trims, gc, clean)
 Execute (what a run holds and waits for: gateway, slots, execute lock, pool, credentials)
 GuardSlot (the read a resolved request keeps)
 SandboxGate (the directory a run works in)
 WriteBehind (the queue an entry is written through)
```

The composition is by contract. `ResultLock` shows that the bridge implements
`TransformableLock`; `ResultPath` is written over `TransformableLock`, so a
request's steps are checked against any lock that keeps the promise, and the
state of the bridge does not multiply the state of the path. `Admission` plays
the same part for the pool: it is the line of requests a caller may rely on,
without counters or channels. `Execute` composes the locks and the pool once
more, at the grain at which runs wait for one another: a lock is its holder, the
pool a line whose head is admitted as soon as it fits (`Admission`'s promise),
and many targets, credentials and processes take the place of one.

A component `X` has `X.tla` (the model and its properties), `MCX.tla` (the
values TLC needs), one or more `.cfg`, and, when something is proved of it,
a module of proofs (section 6 says which; one may be about two components).
Definitions named `Action_something`, marked `mutant`, are broken
versions of the action they precede; they are never used by a specification, and
serve to confirm that the property each is aimed at can fail.

## 3. The models

### ResourcePool, Admission

`held`, `waiters`, `chain` are the lane's state under its mutex (`chain`: a
thread is inside `grant_chain`); `acq`, `need`, `rx` are a task's Acquire, its
resolved demand and its oneshot. Demands go through `Resolve` (default CPU,
unknown or zero pools refused, clamping to capacity) before anything is counted.
`GrantNow`, `EnqueueFast`, `EnqueueWait` are the three ways in; `GrantHead` is
one turn of the chain, with its failed send; `DropGuard` and `DropRx` are the two
fields of a waiting Acquire, dropped in either order, which is where a grant can
get lost. The counters saturate at `U64Max` as `take` and `give` do. What is out is
compared with them as a set of units (`Out`), each tagged with the task that has it.

### TaskCell

One key, `MaxGen` generations of its cell. `map` is the cell in the map,
`graves` the parked handle; per generation `outcome`, `interest`, `slot` (the
stored handle), `phase` of its body, `grave` (what it took over), `polling` and
`aborted`. Callers join, build, poll inline first or spawn under the lock
(`inlineFirst`), park, are woken, or are dropped at any await and then run
`cancel_abandoned` in its three separate steps. An aborted task goes on until
its poll ends. `Settings` are the pairs (inline-first?, may the runtime go
away?) a run considers. `lost` is history: a parked handle was overwritten.

### FLock

One path. A state (`FLockState`) and a probe each have a descriptor: `file`,
`mode`, `pc`. Each system call is a step: open, flock, fstat/stat comparison,
unlink, close. `path` is the inode at the path. `Crash` closes a descriptor with
the process at any point; `OpenFails` and `CheckFails` are I/O errors. The polling
backoff is any interleaving. `gap` and `free` are history variables of a probe.

### KeyedRegistry

One key, an exclusive in-memory lock in each cell. A guard drops its fields in
declaration order, so the cell goes before the lock; `LockCell::drop` is a step
of its own (`Purge`), after the count has reached zero and before it has the
registry's mutex.

### ResultLock, TransformableLock

`outer` is the gateway's holder, `rd` and `wr` the holds of each revision's
reader/writer lock. `content` counts changes of an entry, `seen` is what a task
relies on. Drops release in field order; an upgrade gives up its read before it
asks for the write. A read beside a waiting writer is granted by flock and made
to wait by tokio's lock: the model allows both, and fairness promises a read only
once no writer waits. In `TransformableLock` a task holds
nothing, the gateway, a read under it, or a write, besides the revisions it rides
on; an upgrade or downgrade is one step.

### ResultPath

Tasks are requests of one target (plain, forced, hash-only) or commands (gc,
clean), each in a process of its own. `content[r]` is the version a revision's
manifest names (0: no manifest), `bytes[r]` the version its blobs hold, `seen[t]`
what a request resolved to, `exec` the per-target execute lock. Blobs are stored
before the manifest and deleted before it.

A request does not write the cache itself: it queues the parts (`queued`, of
version `made`, for revision `into`) for its process's writer thread, where they
land later, in the order queued (`LandBlobs`, `LandManifest`), or are lost with a
failed batch (`Lose`). A run waits for its blobs and for its manifest (`Stored` is
the end of that wait, with the reconciliation of a rebuild's hashouts); a remote's
manifest ("mirror", always version 1) and the copy to a fixpoint nobody waits for.
`Stop` ends a task of `MayStop` anywhere: failure, cancellation and death differ
in who releases the locks, in whether a trim it owes is still submitted, and in
whether what it queued is lost or stays queued. In the second case it lands when
the task has no lock any more. `late` are the revisions of which a manifest has
landed without the gateway since somebody last took it.

A remote revision has a manifest that a request may adopt and blobs that may turn
out to be gone, which leads to a rebuild under the riding read.

An in-place target's outputs are written back to the tree, which then hashes to
another revision, `Fix[r]`. `CopyBlobs` and `CopyManifest` are the copy of the
entry to it, made under a riding read of `r` and without any lock of `Fix[r]`.

`newer[r]` are the revisions whose manifest has a newer stamp than `r`'s. A
request that wrote a manifest owes a trim (`wrote`), which its `Finish` submits: `Count` without a
lock, `GiveUp` when the gateway is not to be had, `List` again under it, `Pick`
and delete what is neither the request's own revision nor among the `History`
newest, skipping what is ridden. `gc` shares these steps, and may also find the
target gone and take everything, as `clean` does. `torn` is history: the revisions
of which a part was lost with its batch, or met parts of another run (`Mix`): by a
run that has not rewritten the manifest yet, parts that land after their run was
dropped, a rebuild under somebody else's riding read, a pull of blobs under a
manifest made here, or a manifest adopted over blobs left behind.

### Execute

A run is a pair of a process and a target. `at` is where it is; `gate`, `slot`
and `exec` are the holders of the machine-wide locks; `queue` and `permits` the
line and the reservations of each process's pool. The order is the code's:
gateway, dependencies, slots in sorted order, execute lock, admission,
credentials, driver, caching. `todo` are the credentials a run has yet to
acquire and `chain` those whose cell it holds, outermost first: the key lock
comes after the cell (`TakeKey`) and a delegation goes one deeper. `held` is the
material in a process's cells, `store` what is on disk, which lapses. A producer
(`Produce`) is a run of its own, started in the middle of its consumer's, if no
other run of it is on its way, and otherwise once that one has ended.
`WaitsFor(r, q)` says that nothing moves `r` before
`q` does, and `Wedges` are the sets of runs that wait only for each other.
`Abandon` is every early return, which drops whatever the run holds; `Cancel`
does it for a whole process, and there is no cancellation of a single run.

### GuardSlot

One memoized resolution in one request: `held` is who has which read guard,
`weak` the slot's weak pointer, `hashouts` and `resolved` those of the revision as
it is and as it was resolved. Other processes write under the revision's lock
(`TakeWrite`, `EndWrite`) and without it (`WriteUnlocked`): a rebuild under a riding
read of its own, or a dropped run's queued write that lands. `torn` are the guards
that were alive when the hashouts last changed in that way. A holder `Cell` stands
for the memoized value itself: it never holds a guard.

### SandboxGate

`generation`, `claimed`, `walk` are the registry of one directory; `tree` is whose
tree is on disk; `pre` and `post` are a run's stale removal and its reclaim, jobs
that run when the pool and the cleaner thread get to them, and each may fail or
panic (`FailWalk`). The three exits of the teardown guard are `Complete` (through
`Cached`, or `Fail` of a `Material` run), `Fail` and `Reclaim`. A response may bring
a cleanup job or none (`cleanup`), and a run may still fail after it.

### WriteBehind

`cmds` is the history of the channel and a command's position is also its slot;
`taken` and `released` are the writer's cursors, `applied`, `failed`, `done` the
fate of slots, `map` the pending tracker. Registration and send are one step,
because `register_and_send` holds the tracker's mutex over both. Clients write,
delete, read, probe and drain, and wait on the slots they found. `Unwind`,
`DrainOnExit` and `DropReceiver` are the end of a writer that panicked, in the
order its stack unwinds.

## 4. The runs

| run | instance | distinct states | what it shows |
|---|---|---|---|
| `pool` | 3 tasks, 2 bounded pools, 1 unbounded, 1 at zero, 4 kinds of demand, `U64Max` = 3 | 24 092 | counters equal what is live (`HeldIsWhatIsLive`), no bounded pool overdrawn, no waiter sleeps over free capacity (`NoIdleCapacity`), no receiver closes (`NeverClosed`), strict FIFO, refinement of `Admission`, waiters are admitted |
| `taskcell` | 2 callers, 3 generations; inline-first with shutdown, spawned without | 253 065 | bodies overlap only after an overwritten handle, nobody waits on a cancelled task, outcomes are left, only abandoned or completed cells leave the map, every wait ends |
| `taskcell_four` | the same, 4 generations, no shutdown | violation | finding 1 |
| `flock` | 3 lock states, 1 probe, 3 inodes, 2 retries | 435 703 | exclusion across unlinks and crashes, holders sit on the path, a probe that says free overlapped a free instant |
| `keyed_registry` | 3 users, 5 cells | 156 | one holder per key, the map empties |
| `result_lock` | 3 tasks (2, 1 and 1 operations), 2 revisions, 1 change each | 85 123 | entries are stable under a hold, refinement of `TransformableLock`, every wait ends |
| `result_path` | a miss and a forced run of a non-reproducible revision that a remote has, a miss of one that is copied to its fixpoint; the forced run and the second miss may stop; trims keep 2 of 3 revisions | 1 285 957 | bytes staged are those named (but see finding 2), a miss never replaces an entry it could have seen, one run at a time, a trim spares its own revision and the newest |
| `result_path_live` | a miss, a forced run, a hash-only request, a gc and a clean of one revision; the miss may stop | 51 522 | bytes staged are those named, a lost race shares the winner's entry, every request ends |
| `execute` | 7 runs in 2 processes, one of which may be killed; 5 targets, 2 slots, a pool of 2; a delegated, a produced, a host's and a self-named credential | 153 253 | no circle of waits but through a producer (`WaitsAreBounded`), every run ends but those caught in such a circle (`EveryRunEnds`), material is obtained once until it lapses, and finding 3 (`StarvedForEver`) |
| `sandbox_gate` | 3 runs, one of them material; removals that may fail | 140 392 | no removal hits a live tree or a failed run's, trees are collected unless a removal fails; see finding 4 |
| `guard_slot` | 3 callers, 5 guards, 3 foreign writes with or without the lock, 2 versions | 192 325 | what is staged is what was resolved, unless it was rewritten under the guard without the lock; the memoized value pins nothing |
| `write_behind` | 2 clients (3 calls and 1), 2 keys, batches of 2, a panic | 758 979 | who waited out the queue sees what was queued; waits end |

### Bounds

Every bound is a constant named in the module that uses it.

* `U64Max` = 3 makes the unbounded pool saturate; capacities of 2 and 1 with a
  demand of 3 make clamping, a blocking head and a fitting follower happen.
* Three generations are the fewest in which a re-park meets a park; the
  violation without a shutdown takes a fourth.
* Three inodes let the path be replaced twice while a third party still has the
  first open; `StaleRetries` = 2 makes the retry and its exhaustion happen.
* Five cells are more than three users can keep in use, so the registry never
  runs out of allocations.
* `result_path` has a miss meet a forced run at one revision, and a miss of a second
  one meet both at the target, where each trims what the others made; the copy to
  the fixpoint meets the trims. In `result_path_live` a miss, a forced run, a
  hash-only request, a gc and a clean all meet at one revision. In both, queued
  parts land before and after their task has let go of its locks, and batches fail.
  `MaxRuns` is at least the number of runs the requests can make, plus the remote's
  version. Not in either instance, for the size of the state space: a request of
  the fixpoint itself, two forced runs, which exclude each other by the gateway,
  and a gc or a clean that stops. The theorems of
  section 6 have any number of tasks of every kind, and let each stop.
* `execute`: a dependency and its consumer share a slot, two runs of one process
  share both; a pool of 2 against demands of 1 and 2 makes the head of the line
  block; `c1` delegates to `c2`, whose producer needs the pool; both processes
  want `c2` at once. Two processes are the fewest for the key lock, the shared
  slots and the gateway to matter.
* `MaxGuards` and `MaxWrites` of `guard_slot` allow each caller to lapse and
  re-acquire with a foreign write in between.
* Two keys and three calls let a client supersede a slot, wait, and be overtaken.

Deadlock is checked in every run but those whose processes may stop by design
(`taskcell`, `guard_slot`, `result_lock`: a caller need not call again; `execute`:
when all runs have ended, or finding 3 has been met), and in
the modules with a `Rest` or `Idle` step that step is enabled only when everybody
is done. Symmetry is used only in runs without temporal properties.

### Fairness

* `pool`: the thread in the critical section goes on, the runtime polls what it
  woke, a target that runs ends, the second field of an Acquire drops after the
  first. Nothing makes a task arrive or be cancelled.
* `taskcell`: the same of tokio, and a body that is polled again and again ends.
  No caller has to call, leave or panic.
* `result_lock`: a wait that can be granted is; holders let go in the end; a
  probe lets go at once. A read is only promised once no writer waits.
* `result_path_live`: requests move when they can, and writer threads write what is
  queued (`Land`). `Contend` is strongly fair: the
  gateway is taken and dropped over and over, and a polling waiter sees it free
  in the end. `EveryRequestEnds` assumes on top (`ConsumersFinish`) that consumers
  drop their artifacts, and (`Apart`) that misses that lost the same race do not
  retry in lockstep for ever, which is what the code's jittered pause is for.
  `LoserShares` needs neither: it holds while the winner's consumer never exits.
* `execute`: each run takes the step it can take (`Step`), which is the executor's
  promise together with the assumption that drivers and sources return, with an
  outcome or a failure. Weak fairness suffices: in the instance a lock passed
  over and over between others cannot starve a run. That a slot cannot be
  prepared (`SlotFails`), a cancellation and a lapse are never forced.
* `sandbox_gate`: the blocking pool and the cleaner thread run what is queued.
  No run has to end, and none has to be cancelled; a removal ends or fails.
* `write_behind`: the writer thread runs, and a woken client is polled.

## 5. Findings

1. **Two bodies of one key** (`taskcell_four`). The module promises "No two bodies
   for one key, ever" (`core/src/hmemoizer/task_cell.rs:37`). There is one grave
   per key and two places that insert into it. With four generations an older,
   still running one is re-parked over a newer one; the newer one is then awaited
   by nobody, finds its own predecessor dead and the grave empty, and starts its
   body while the oldest is alive. `OneBodyUnlessOverwritten`, which the `taskcell`
   run checks and `TaskCellProofs` proves for any number of callers and generations,
   says that an overwritten handle is the only way.
2. **Old manifest over new bytes** (`result_path`). A forced run rewrites blobs in
   place and the manifest last (`local_cache.rs:659`); stopped in between, it leaves
   a manifest that names other bytes, and cancelled while it waits for the writer
   thread, it leaves both parts to land once its lock is gone, under whoever reads
   the revision by then. For a target whose runs differ, a request that hit the old
   manifest stages bytes its key never named, which `result.rs:3168` rules out for
   other interruptions. The run reaches these states: `StagedIsNamed` holds because
   it excepts the revisions in `torn` that are not reproducible, and fails without
   the exception. `PathProofs` proves that outside `torn` manifest, bytes and what a
   request resolved to agree, and that of a reproducible revision, torn or not, no
   other bytes are ever staged: at worst there are none, or the manifest is missing.
3. **A producer its consumers keep out** (`execute`). `execute.rs:131` says "Admission
   AFTER dep resolution so nothing is reserved while waiting for deps",
   `scratch.rs:526` "no permit holder is ever blocked on a slot, so a slot holder
   always eventually gets a permit: the wait is bounded, not circular", and
   `result_lock.rs:341` of the execute lock that "nothing is acquired while it is
   held". Credentials are acquired with reservation, slots and execute lock in hand,
   and one that a target produces runs that target through `execute` again
   (`credential.rs:984`), dependencies, slots, admission and all. When the runs that
   wait for such a credential hold the whole pool, the producer is never admitted:
   one run suffices at capacity 1, otherwise as many as there are CPUs, since all
   but the first wait for the credential's cell with their reservation in hand.
   `StarvedForEver` shows that nothing but cancellation ends it, `WaitsAreBounded`
   that no other circle exists; `ExecuteProofs` proves both for all targets,
   processes and pools.
4. **A failed credential run's tree stays** (`sandbox_gate`). When a run whose
   outputs are material fails, `execute.rs:264-268` calls `complete` so as not to
   leave them on disk ("a failure must not leave them in a sandbox kept for
   diagnostics", `credential.rs:994-995`). `complete` queues the job that `set_job`
   stored, which happens after a successful response only (`execute.rs:284`): there is
   none, and the tree stays until the target's next run. `Collected` leaves these
   runs out; said of them as well, it is violated in nine steps.

### Known limits of what is claimed

* `WaitsEndUnlessOrphaned` leaves out two kinds of slots, and the exclusion is
  needed: when the writer thread panics, a slot superseded in the tracker whose
  command dies with the channel, and a slot registered between the drain and the
  drop of the receiver, are completed by nobody, and their waiter stays. TLC's
  shortest trace: two writes of one key, a failing batch, the unwinding, the
  drain, a third write, a read that parks on it, the receiver's drop. The comment
  at `DrainOnExit` ("turns a silent hang back into a cache miss") does not make
  the exception.
* Of a revision that is not reproducible, bytes may also be staged under hashouts
  that never named them after a rebuild under another process's riding read (a gc
  killed half-way, or a remote that lost the blobs, leads there), when blobs are
  pulled under a manifest made here, and when a remote's manifest is adopted over
  blobs that a stopped run left. The first the code says itself ("Another process
  holding its own riding read of the same revision is not covered",
  `reconcile_rebuilt_hashouts`). A batch that fails leaves an old manifest over new
  bytes, or the reverse, or no manifest; `local_cache.rs:785-791` names that gap.
  `torn` has them all, and `StagedIsNamed` excepts it.
* `NeverBuiltTwice` excepts a manifest that lands under a miss's run from a task that
  has no lock by then (`late`): a cancelled run's, a remote's or a fixpoint's copy. The
  miss could not have seen it when it looked, and replaces it.
* `StagedIsResolved` excepts the guards that were alive when another process rewrote
  the revision without its lock (`torn` of `GuardSlot`): a claim checks the hashouts
  once, when it takes its read.
* A delete whose batch fails counts as done, though the entry is still there. Entries
  of `tmp` revisions, whose writes nobody waits for, are not modelled.
* `Collected` excepts a removal that fails, the run's own or a later run's to which
  it declined: nobody tries again before the next run of the target.
* A diagnostic probe (`revision_in_use`) holds a revision for an instant, in which
  a downgrade may have to wait. It is modelled, and stays harmless.
* The sandbox registry is per process; removals queued by another process are
  outside it, as its documentation says.
* A trim may delete one of the newest revisions after all, when a manifest of it,
  or of one that was newer and thereby no longer is, lands after the listing without
  the gateway: the copy to a fixpoint, a rebuild under a riding read that has since
  gone, a cancelled run's queued manifest. `TrimKeepsNewest` excepts exactly these
  (`late`); the comment at `gc.rs:225` ("no build of the target can run") does not.
* That a trim lists only what has landed of its own write rests on a barrier
  (`gc.rs:426`), which is a call of `exists`. `SeesWhatWasQueued` shows what the call
  promises; that the trim makes it is in no model, and dropping it would break none.
* `ResultPath` assumes that a revision with a fixpoint, and the fixpoint, are
  reproducible. A target with in-place and other, non-reproducible outputs would
  have the copy replace the manifest and bytes of a revision another request rides.
* Blobs stored by a run that stopped before its first manifest have no manifest to
  name them: gc, trims and clean count the revision and delete nothing.
* `Execute` has the recursion guard of delegations within one run. The guard does
  not follow a producer, whose chain starts empty (`credential.rs:1203`), nor two
  runs that enter a cycle of delegations at different ends, which can hold a cell
  each and wait for the other's: the instance has a credential that is its own
  source, and no longer cycle, and the theorem on `WaitsAreBounded` has that as its
  hypothesis (`DelegationsEnd`). A producer that uses the credential it produces
  waits for its consumer for ever: `WaitsAreBounded` and `EveryRunEnds` except runs
  that wait for a producer (`AtProducer`, `Wedges`), so they allow it.
* Runs of a producer by two consumers at once, or by a consumer and by request, are
  in the model and under the theorems, not in the instance of `execute`, whose
  producer runs for the credential only.
* Between the reading of a lapsed credential and its removal another process may
  have stored a fresh one (`RemoveStale`); it is lost, and obtained again.

## 6. What is proved

Each theorem holds for every value of the constants that satisfies the module's
`ASSUME`s: any number of tasks, generations, processes, revisions, keys. The
arguments are all of one shape: an inductive invariant, one lemma or step per
action, one level down a step per conjunct the action can disturb.

| module | invariant | properties proved | why the strengthening is needed |
|---|---|---|---|
| AdmissionProofs (ResourcePool) | `PoolInv` | `TypeOK`, `WithinCapacity`, `NoIdleCapacity`, `NeverClosed`, `HeldIsWhatIsLive`, the action property `StrictFIFO`, and the refinement `ImplementsAdmission` | `ChannelStates` ties queue, channel and Acquire together: a queued waiter is one whose receiver is open, or was dropped a step ago |
| AdmissionProofs (SandboxGate) | `GateInv`, `FailedQuiet` | `LiveTree`, `KeptForDiagnostics` | the lock holder's claim is the current one; nothing walks the directory from the end of its stale removal on |
| TaskCellProofs | `CellInv`, `HandleInv` | `TypeOK`, `WaitersKeepTheirTask`, `EndsWithOutcome`, `EvictsOnlyAbandoned`, `OneBodyUnlessOverwritten` | a generation not yet born is untouched; whoever is about to abort a task has taken it out of the map. The interest count is a cardinality, so lemmas relate a join and a leave to the set of waiters |
| LockProofs (FLock) | `FLockInv` | `TypeOK`, `HoldersSitOnThePath`, `MutualExclusion`, `ProbeSeesTheHolder` | the kernel excludes per inode only; a releaser keeps the exclusive lock of the linked inode until it has unlinked it, so nobody else's inode can be the one unlinked |
| LockProofs (KeyedRegistry) | `KeyedInv` | `KeyExclusion`, `CleansUpAfterItself` | a live cell is the registered one; a dead registered one has somebody about to purge it |
| ResultLockProofs (ResultLock) | `LockInv` | `StableWhileHeld` and the refinement `Refines`; also `OneBuilder` and `GatewayReadsAtOnce` | who relies on an entry holds it, or holds the gateway between two holds |
| ResultLockProofs (GuardSlot) | `SlotInv` | `StagedIsResolved`, `Unpinned`; also `ReproducibleStaged`: with one version there is no exception | a guard reachable through the slot is alive only if the revision has not changed since it was resolved, unless it was rewritten without its lock while the guard was alive |
| PathProofs | `PathInv` | `OneRunAtATime`, `NeverBuiltTwice`, `StagedIsNamed` | a task's place says which locks it has (`PlaceSays`), what it may have queued (`KeepsToItsPart`) and what it may rely on (`Agrees`), counting a manifest of its own that is still queued (`Named`); the parts that are there agree outside `torn`, and of a reproducible revision there is one version (`Matches`) |
| PathHistoryProofs | `HistInv` | the action property `TrimKeepsNewest` | the stamps are an order; each revision a trim still has to delete has, among those the trim leaves, as many newer ones as are kept |
| ExecuteProofs | `ExecInv` | `WaitsAreBounded` (given `DelegationsEnd`), and the action properties `NotObtainedTwice`, `StarvedForEver` | whoever holds a lock, slot, permit or cell is past the wait for it (`HoldsInOrder`, `InLine`), chains follow the delegations (`Chains`), a key lock has one holder (`KeyAlone`) |
| WriteBehindProofs | `QueueInv` | `SeesWhatWasQueued` | slots are released in channel order after their transaction, and the map has the last slot of each key with a command outstanding |

The refinement (`BridgeKeepsPromise`) follows from the same invariant. `AbsShape`
reads what a task holds in the promise off its `pc` (an upgrade or a downgrade in
progress counts as a read). `HoldSteps` says which step of `TransformableLock` a
change of one task's hold is, and under which fact of the bridge: a free gateway
means that nobody holds anything, a revision without readers that nobody rides it.
`PlaceSteps` restates it for the task's places, `NamingSteps`, `OwnSteps`,
`RideSteps`, `AlightStep` and `ChangeStep` put every action under it.
`StrictFIFO` (`NobodyOvertaken`) is by action: a bounded demand is granted on
arrival only past an empty queue, and otherwise as the head, of which `NeverClosed`
says that it is queued once.

`HeldIsWhatIsLive` (`CountersExact`) compares a counter with a sum over the tasks.
The sum is stated as the cardinality of a set of units, so that no fold has to be
reasoned about: `UnitsAdd` says what one more task adds to it, `OutChanges` what a
grant and a release do. It rests on one assumption more, `TasksFinite`: a process
has finitely many tasks. The counter of a bounded pool never saturates (`TakeExact`),
so a failed send gives back what it took. With it, `ImplementsAdmission`
(`PoolKeepsPromise`) goes action by action: what `fits` finds free is the room of
the abstract line (`RoomIsFits`); a grant on arrival passes an empty line or names
unbounded pools only; the chain's turn admits the head, or, after a failed send, is
the leaving of a waiter whose receiver is gone; a cancellation takes a waiter out of
the line, or does not show when its grant was already sent.

`OneBodyUnlessOverwritten` (`BodiesOverlapOnlyIfLost`) needs an invariant of its own
on top of `CellInv`. Unless one was overwritten, a task's handle is in exactly one
place: its cell, the key's grave, or the task that awaits it (`HandleInOnePlace`). So
the live tasks of a key form chains, each awaiting the next, that start in the map
or in the grave (and cycles of cancelled tasks, which have no end). A chain's end (`Ends`) awaits nobody alive: a running body is one,
and so is a task about to look into the grave. `EndsHaveStarts` says that there are
no more ends than live starts. No induction along a chain is needed, for a step adds
or removes at most one end, and a start with it. A task starts its body only past an
empty grave, when the map is the only start left and the task the only end.

`TrimKeepsNewest` looks at the moment of a deletion, long after the listing. What
makes the plan survive is counted: a revision doomed at the listing has `History`
newer ones outside the plan. The trim holds the gateway, so these can only be
stamped again or joined by others, and what it deletes itself is in the plan. What
lands without the gateway (a fixpoint's copy, a rebuild under a riding read, a
dropped run's manifest) may stamp a doomed revision, or take one of its newer ones
from before it; it is in `late`, which the property excepts and which is counted
beside `newer`. `Cardinality` is handled
through lemmas on what a stamp adds to `newer`.

`WaitsAreBounded` is proved by contradiction from a set of runs that wait only for
each other, none of them for a producer. Dependencies have no cycle, so a run of a
first target is past its dependencies (`WedgePastDeps`). Of those at their slots, the
one that waits for the greatest slot waits for a run that, by `HoldsInOrder`, waits
for no slot below it, so some run has all its slots (`WedgePastSlots`). The head of
its line waits for somebody admitted (`WedgePastLine`). The admitted wait for cells
and keys; among the credentials they hold and want one delegates to none of the
others, and whoever holds it would have to (`NoWedge`).

The prover has no induction over data. Where an argument needs a least or greatest
element of a finite set (`MinIsLeast`, `Greatest`, and `SurplusOutnumbered` of
`PathHistoryProofs`), it is made by a least counterexample: the well-foundedness of
the naturals, applied to the set of the cardinalities of the sets for which the claim
fails.

Only model-checked, on the instances above: everything under fairness
(`WaitersAreAdmitted`, both `EveryWaitEnds`, `LoserShares`, `EveryRequestEnds`,
`Collected`, `WaitsEndUnlessOrphaned`, `EveryRunEnds`), which the prover does not
handle. Every safety invariant, action property and refinement of the passing runs
has a theorem.

## 7. Plan

Done: the survey, the components above, their runs, and the theorems of section 6.
In order of value, what is left:

1. **Remote uploads and pulls across machines**: an upload holds its own read of the
   revision and writes blobs before the manifest; two machines that upload a
   non-reproducible revision may interleave, and a pull checks no hash.
2. **Cache tiers**: the resident tier's invalidation against the queue.
3. **Several keys of the memoizer**: wait-for cycles, the stall check.
4. **Failure slots, the process supervisor, exec sessions**, each a small protocol.

Modelled in part, and what is missing:

* `Execute` leaves out the credentials of a credential's source, the walk over
  several sources, the helper's refresh, the approval prompt, the presentation of
  files, slots shared by readers, and the wait of a forced run for readers of its
  revision (`ResultPath` has it).
* Of scratch directories only the slots' locks are modelled: not lineages, seeding
  from the remote, heads and their collection.
* `ResultPath` leaves out the resolution of dependencies, output selection and the
  write-back itself; of `gc`, the phase that decides which targets are gone.

Not planned, because a model would only restate them or could only assume what
matters: parsers, formats, Starlark, the plugins' command construction, the
terminal interface, telemetry, FUSE and other kernel interfaces. `PROJECT.json`
gives the reason for each.
