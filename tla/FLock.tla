------------------------------- MODULE FLock --------------------------------
(***************************************************************************)
(* The filesystem lock (crates/lock/src/hlock/flock.rs) on one path.       *)
(*                                                                         *)
(* A state is one FLockState: the single descriptor that all guards of a   *)
(* key share inside a process.  Its mutex is held through an attempt and   *)
(* through a release, so pc says how far the one in progress is; each      *)
(* system call is a step, and the steps of different states interleave.    *)
(* Probers run is_path_held (a shared lock) or is_path_locked (exclusive). *)
(* flock(2) locks belong to the open file description, and an inode lives  *)
(* while it is linked or open: a freed one may be allocated again.         *)
(***************************************************************************)
EXTENDS Integers, FiniteSets

CONSTANTS
  States,       \* the FLockStates, in any number of processes
  Probers,      \* concurrent probes of the path
  Inodes,       \* inode numbers
  None,         \* no inode
  MaxReaders,   \* guards that share a descriptor (bound)
  StaleRetries, \* STALE_RETRIES
  MayFail       \* whether open, fstat, stat and unlink may fail

ASSUME ActorsFinite == IsFiniteSet(States) /\ IsFiniteSet(Probers) /\ States \cap Probers = {}
ASSUME NoneFresh == None \notin Inodes
ASSUME BoundsNat == MaxReaders \in Nat \ {0} /\ StaleRetries \in Nat \ {0}
ASSUME MayFailType == MayFail \in BOOLEAN

Fds == States \cup Probers

VARIABLES
  path,     \* the inode linked at the path, or None
  file,     \* per descriptor: the inode it has open, or None
  mode,     \* per descriptor: the flock it holds, "un", "sh" or "ex"
  readers,  \* FdState::readers
  writer,   \* FdState::writer
  pc,       \* per state: "idle", "open", "lock", "check", "unlink", "close";
            \* per probe: "idle", "lock", "close"
  op,       \* per descriptor: the mode being acquired, or probed
  tries,    \* per state: attempts left in try_lock_fresh
  gap,      \* per probe: since it began there was an instant without a holder
  free      \* per probe: it found nobody

vars == <<path, file, mode, readers, writer, pc, op, tries, gap, free>>

Init ==
  /\ path \in {None} \cup Inodes     \* a file may be left from an earlier run
  /\ file = [f \in Fds |-> None]
  /\ mode = [f \in Fds |-> "un"]
  /\ readers = [s \in States |-> 0]
  /\ writer = [s \in States |-> FALSE]
  /\ pc = [f \in Fds |-> "idle"]
  /\ op = [f \in Fds |-> "sh"]
  /\ tries = [s \in States |-> 0]
  /\ gap = [p \in Probers |-> FALSE]
  /\ free = [p \in Probers |-> FALSE]

-----------------------------------------------------------------------------
Idle(s) == pc[s] = "idle"

Held(s) == writer[s] \/ readers[s] > 0

(* Somebody a probe of mode m asks about holds the lock.                   *)
SomeHolder(m) == \E s \in States : IF m = "sh" THEN writer[s] ELSE Held(s)

(* flock(2): a lock of mode m on f's inode is refused by another           *)
(* descriptor's.                                                           *)
Conflict(f, m) ==
  \E g \in Fds \ {f} :
    /\ file[g] = file[f] /\ mode[g] # "un"
    /\ m = "ex" \/ mode[g] = "ex"

(* LOCK_UN and close.                                                      *)
Discard(f) ==
  /\ file' = [file EXCEPT ![f] = None]
  /\ mode' = [mode EXCEPT ![f] = "un"]

(* try_acquire_read with a guard of this process holding already.          *)
ReadShared(s) ==
  /\ Idle(s) /\ readers[s] \in 1 .. MaxReaders - 1 /\ ~writer[s]
  /\ readers' = [readers EXCEPT ![s] = @ + 1]
  /\ UNCHANGED <<path, file, mode, writer, pc, op, tries>>

(* try_acquire_read or try_acquire_write with no guard in this process     *)
(* enters try_lock_fresh.                                                  *)
Begin(s, m) ==
  /\ Idle(s) /\ ~Held(s)
  /\ op' = [op EXCEPT ![s] = m]
  /\ tries' = [tries EXCEPT ![s] = StaleRetries]
  /\ pc' = [pc EXCEPT ![s] = "open"]
  /\ UNCHANGED <<path, file, mode, readers, writer>>

(* An inode nobody links or has open.                                      *)
Unused == {i \in Inodes : i # path /\ \A f \in Fds : file[f] # i}

(* ensure_open: O_CREAT on the path, unless the descriptor is open.        *)
EnsureOpen(s) ==
  /\ pc[s] = "open"
  /\ path' \in IF file[s] = None /\ path = None THEN Unused ELSE {path}
  /\ file' = [file EXCEPT ![s] = IF @ = None THEN path' ELSE @]
  /\ pc' = [pc EXCEPT ![s] = "lock"]
  /\ UNCHANGED <<mode, readers, writer, op, tries>>

OpenFails(s) ==
  /\ MayFail /\ pc[s] = "open" /\ file[s] = None
  /\ pc' = [pc EXCEPT ![s] = "idle"]
  /\ UNCHANGED <<path, file, mode, readers, writer, op, tries>>

\* mutant: a lock that would block counts as taken
LockTaken_ignoresBusy(s) ==
  /\ pc[s] = "lock"
  /\ mode' = [mode EXCEPT ![s] = IF Conflict(s, op[s]) THEN @ ELSE op[s]]
  /\ pc' = [pc EXCEPT ![s] = "check"]
  /\ UNCHANGED <<path, file, readers, writer, op, tries>>

(* flock_nb grants.                                                        *)
LockTaken(s) ==
  /\ pc[s] = "lock" /\ ~Conflict(s, op[s])
  /\ mode' = [mode EXCEPT ![s] = op[s]]
  /\ pc' = [pc EXCEPT ![s] = "check"]
  /\ UNCHANGED <<path, file, readers, writer, op, tries>>

(* flock_nb would block: close the descriptor, report busy.                *)
LockBusy(s) ==
  /\ pc[s] = "lock" /\ Conflict(s, op[s])
  /\ Discard(s)
  /\ pc' = [pc EXCEPT ![s] = "idle"]
  /\ UNCHANGED <<path, readers, writer, op, tries>>

(* fd_matches_path: the locked inode is the one at the path.               *)
CheckFresh(s) ==
  /\ pc[s] = "check" /\ file[s] = path
  /\ readers' = [readers EXCEPT ![s] = IF op[s] = "sh" THEN 1 ELSE @]
  /\ writer' = [writer EXCEPT ![s] = op[s] = "ex"]
  /\ pc' = [pc EXCEPT ![s] = "idle"]
  /\ UNCHANGED <<path, file, mode, op, tries>>

(* fd_matches_path: the locked inode was unlinked; open again, or report   *)
(* busy when the attempts are used up.                                     *)
CheckStale(s) ==
  /\ pc[s] = "check" /\ file[s] # path
  /\ Discard(s)
  /\ tries' = [tries EXCEPT ![s] = @ - 1]
  /\ pc' = [pc EXCEPT ![s] = IF tries[s] = 1 THEN "idle" ELSE "open"]
  /\ UNCHANGED <<path, readers, writer, op>>

(* fstat or stat fails: the error returns with the descriptor locked.      *)
CheckFails(s) ==
  /\ MayFail /\ pc[s] = "check"
  /\ pc' = [pc EXCEPT ![s] = "idle"]
  /\ UNCHANGED <<path, file, mode, readers, writer, op, tries>>

(* release_read: the last guard of the process closes; nothing is unlinked.*)
ReleaseRead(s) ==
  /\ Idle(s) /\ readers[s] > 0
  /\ readers' = [readers EXCEPT ![s] = @ - 1]
  /\ IF readers[s] = 1 /\ ~writer[s] THEN Discard(s) ELSE UNCHANGED <<file, mode>>
  /\ UNCHANGED <<path, writer, pc, op, tries>>

\* mutant: the lock is dropped before the file is removed
ReleaseWrite_unlocks(s) ==
  /\ Idle(s) /\ writer[s]
  /\ writer' = [writer EXCEPT ![s] = FALSE]
  /\ mode' = [mode EXCEPT ![s] = "un"]
  /\ pc' = [pc EXCEPT ![s] = "unlink"]
  /\ UNCHANGED <<path, file, readers, op, tries>>

(* release_write gives the guard up,                                       *)
ReleaseWrite(s) ==
  /\ Idle(s) /\ writer[s]
  /\ writer' = [writer EXCEPT ![s] = FALSE]
  /\ pc' = [pc EXCEPT ![s] = "unlink"]
  /\ UNCHANGED <<path, file, mode, readers, op, tries>>

(* removes the file with the lock still held,                              *)
Unlink(s) ==
  /\ pc[s] = "unlink"
  /\ path' \in {None} \cup (IF MayFail THEN {path} ELSE {})
  /\ pc' = [pc EXCEPT ![s] = "close"]
  /\ UNCHANGED <<file, mode, readers, writer, op, tries>>

(* and only then unlocks and closes.                                       *)
Close(s) ==
  /\ pc[s] = "close"
  /\ Discard(s)
  /\ pc' = [pc EXCEPT ![s] = "idle"]
  /\ UNCHANGED <<path, readers, writer, op, tries>>

(* The last handle of a state without guards is dropped: the descriptor a  *)
(* failed check left open closes.                                          *)
DropState(s) ==
  /\ Idle(s) /\ ~Held(s) /\ file[s] # None
  /\ Discard(s)
  /\ UNCHANGED <<path, readers, writer, pc, op, tries>>

(* The process dies at any point.  The kernel closes; nothing is unlinked. *)
Crash(s) ==
  /\ file[s] # None
  /\ Discard(s)
  /\ readers' = [readers EXCEPT ![s] = 0]
  /\ writer' = [writer EXCEPT ![s] = FALSE]
  /\ pc' = [pc EXCEPT ![s] = "idle"]
  /\ UNCHANGED <<path, op, tries>>

-----------------------------------------------------------------------------
(* A probe opens the path without creating it; that it is missing is an    *)
(* answer (nobody), and ends the probe.                                    *)
ProbeOpen(p, m) ==
  /\ Idle(p) /\ path # None
  /\ op' = [op EXCEPT ![p] = m]
  /\ file' = [file EXCEPT ![p] = path]
  /\ pc' = [pc EXCEPT ![p] = "lock"]
  /\ UNCHANGED <<path, mode, readers, writer, tries, free>>

\* mutant: the probe of either mode asks with a shared lock
ProbeLock_shared(p) ==
  /\ pc[p] = "lock"
  /\ free' = [free EXCEPT ![p] = ~Conflict(p, "sh")]
  /\ mode' = [mode EXCEPT ![p] = IF Conflict(p, "sh") THEN @ ELSE "sh"]
  /\ pc' = [pc EXCEPT ![p] = "close"]
  /\ UNCHANGED <<path, file, readers, writer, op, tries>>

(* It locks, which tells whether somebody else does,                       *)
ProbeLock(p) ==
  /\ pc[p] = "lock"
  /\ free' = [free EXCEPT ![p] = ~Conflict(p, op[p])]
  /\ mode' = [mode EXCEPT ![p] = IF Conflict(p, op[p]) THEN @ ELSE op[p]]
  /\ pc' = [pc EXCEPT ![p] = "close"]
  /\ UNCHANGED <<path, file, readers, writer, op, tries>>

(* and lets go.                                                            *)
ProbeClose(p) ==
  /\ pc[p] = "close"
  /\ Discard(p)
  /\ pc' = [pc EXCEPT ![p] = "idle"]
  /\ free' = [free EXCEPT ![p] = FALSE]
  /\ UNCHANGED <<path, readers, writer, op, tries>>

StateStep(s) ==
  \/ ReadShared(s) \/ \E m \in {"sh", "ex"} : Begin(s, m)
  \/ EnsureOpen(s) \/ OpenFails(s) \/ LockTaken(s) \/ LockBusy(s)
  \/ CheckFresh(s) \/ CheckStale(s) \/ CheckFails(s)
  \/ ReleaseRead(s) \/ ReleaseWrite(s) \/ Unlink(s) \/ Close(s) \/ DropState(s) \/ Crash(s)

ProbeStep(p) ==
  (\E m \in {"sh", "ex"} : ProbeOpen(p, m)) \/ ProbeLock(p) \/ ProbeClose(p)

(* The history: an instant with no holder counts for the probes under way. *)
Observe ==
  gap' = [p \in Probers |-> pc'[p] # "idle" /\ (gap[p] \/ ~SomeHolder(op[p])')]

Next ==
  /\ \/ \E s \in States : StateStep(s) /\ UNCHANGED free
     \/ \E p \in Probers : ProbeStep(p)
  /\ Observe

Spec == Init /\ [][Next]_vars

-----------------------------------------------------------------------------
(* Every variable has its type.                                            *)
TypeOK ==
  /\ path \in Inodes \cup {None}
  /\ file \in [Fds -> Inodes \cup {None}]
  /\ mode \in [Fds -> {"un", "sh", "ex"}]
  /\ readers \in [States -> 0 .. MaxReaders]
  /\ writer \in [States -> BOOLEAN]
  /\ pc \in [Fds -> {"idle", "open", "lock", "check", "unlink", "close"}]
  /\ op \in [Fds -> {"sh", "ex"}]
  /\ tries \in [States -> 0 .. StaleRetries]
  /\ gap \in [Probers -> BOOLEAN] /\ free \in [Probers -> BOOLEAN]

(* Cross-process exclusion, though releases delete the file and processes  *)
(* may die at any step: a writer is alone.                                 *)
MutualExclusion ==
  \A s, t \in States : s # t /\ writer[s] => ~Held(t)

(* "no live holder ever sits on a removed inode": who holds, holds the     *)
(* inode at the path, so a missing file means that nobody does.            *)
HoldersSitOnThePath ==
  \A s \in States : Held(s) => file[s] = path /\ path # None

(* "success means none did at that instant": a probe that found nobody     *)
(* overlaps an instant without a holder, though it may have locked an      *)
(* inode that was replaced since it was opened.                            *)
ProbeSeesTheHolder ==
  \A p \in Probers : free[p] => gap[p]

(***************************************************************************)
(* The inductive invariant.                                                *)
(***************************************************************************)
(* What the kernel grants.                                                 *)
KernelExcludes ==
  /\ \A f \in Fds : mode[f] # "un" => file[f] # None
  /\ \A f, g \in Fds : f # g /\ file[f] = file[g] /\ mode[f] = "ex" => mode[g] = "un"

(* A guard has the flock of its mode, an attempt runs without a guard, and *)
(* a releaser keeps the exclusive lock of the linked inode until it        *)
(* unlinked it.                                                            *)
InSection ==
  \A s \in States :
    /\ Held(s) => mode[s] = (IF writer[s] THEN "ex" ELSE "sh")
    /\ pc[s] # "idle" => ~Held(s)
    /\ pc[s] \in {"open", "lock", "check"} => tries[s] > 0
    /\ pc[s] \in {"lock", "check"} => file[s] # None
    /\ pc[s] = "check" => mode[s] = op[s]
    /\ pc[s] = "unlink" => file[s] = path /\ mode[s] = "ex"
    /\ writer[s] => readers[s] = 0

(* A probe has a lock only once it asked for it.                           *)
ProbeSection ==
  \A p \in Probers :
    /\ pc[p] \in {"idle", "lock"} => mode[p] = "un"
    /\ pc[p] = "lock" => file[p] # None

(* A probe that saw no gap has the inode of those who hold.                *)
ProbeIsCurrent ==
  \A p \in Probers :
    /\ pc[p] # "idle" /\ ~gap[p] => SomeHolder(op[p]) /\ (pc[p] = "lock" => file[p] = path)
    /\ free[p] => pc[p] = "close"

FLockInv ==
  TypeOK /\ KernelExcludes /\ InSection /\ ProbeSection /\ HoldersSitOnThePath
    /\ ProbeIsCurrent /\ ProbeSeesTheHolder
====
