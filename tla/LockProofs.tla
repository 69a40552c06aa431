----------------------------- MODULE LockProofs ------------------------------
(***************************************************************************)
(* The locks of crates/lock.  First the filesystem lock: exclusion, and    *)
(* the soundness of its probes, for any number of processes, probes and    *)
(* inodes, with I/O errors and crashes; then the registry of keyed locks.  *)
(*                                                                         *)
(* Exclusion rests on HoldersSitOnThePath: two holders share the inode at  *)
(* the path, and there the kernel excludes.  It survives an unlink because *)
(* the releaser still has the exclusive lock on that inode.                *)
(***************************************************************************)
EXTENDS FLock, KeyedRegistry, TLAPS

(* Few leaves need arithmetic: those name SMT.                             *)
USE Zenon

(* The types of what the lock itself consists of.                          *)
LockTypes ==
  /\ path \in Inodes \cup {None}
  /\ file \in [Fds -> Inodes \cup {None}]
  /\ mode \in [Fds -> {"un", "sh", "ex"}]
  /\ readers \in [States -> 0 .. MaxReaders]
  /\ writer \in [States -> BOOLEAN]
  /\ pc \in [Fds -> {"idle", "open", "lock", "check", "unlink", "close"}]
  /\ op \in [Fds -> {"sh", "ex"}]
  /\ tries \in [States -> 0 .. StaleRetries]

LockPart ==
  LockTypes /\ KernelExcludes /\ InSection /\ ProbeSection /\ HoldersSitOnThePath

ProbeTypes == gap \in [Probers -> BOOLEAN] /\ free \in [Probers -> BOOLEAN]

(* Every step of a state keeps the lock's part of the invariant.           *)
LEMMA StateStepKeeps ==
  ASSUME LockPart, NEW s \in States, StateStep(s)
  PROVE  LockPart'
<1> USE ActorsFinite, NoneFresh, BoundsNat
    DEF LockPart, LockTypes, KernelExcludes, InSection, ProbeSection, HoldersSitOnThePath,
        Held, Idle, Fds
<1>1. CASE ReadShared(s)
  <2>1. LockTypes'
    BY <1>1, SMT DEF ReadShared
  <2>2. KernelExcludes'
    BY <1>1 DEF ReadShared
  <2>3. InSection'
    BY <1>1, SMT DEF ReadShared
  <2>4. HoldersSitOnThePath'
    BY <1>1, SMT DEF ReadShared
  <2>5. ProbeSection'
    BY <1>1 DEF ReadShared
  <2> QED BY <2>1, <2>2, <2>3, <2>4, <2>5
<1>2. CASE \E m \in {"sh", "ex"} : Begin(s, m)
  <2>1. LockTypes'
    BY <1>2, SMT DEF Begin
  <2>2. KernelExcludes'
    BY <1>2, SMT DEF Begin
  <2>3. InSection'
    BY <1>2, SMT DEF Begin
  <2>4. HoldersSitOnThePath'
    BY <1>2, SMT DEF Begin
  <2>5. ProbeSection'
    BY <1>2, SMT DEF Begin
  <2> QED BY <2>1, <2>2, <2>3, <2>4, <2>5
<1>3. CASE EnsureOpen(s)
  <2>1. LockTypes'
    BY <1>3, SMT DEF EnsureOpen, Unused
  <2>2. KernelExcludes'
    BY <1>3, SMT DEF EnsureOpen, Unused
  <2>3. InSection'
    BY <1>3 DEF EnsureOpen, Unused
  <2>4. HoldersSitOnThePath'
    BY <1>3 DEF EnsureOpen, Unused
  <2>5. ProbeSection'
    BY <1>3, SMT DEF EnsureOpen, Unused
  <2> QED BY <2>1, <2>2, <2>3, <2>4, <2>5
<1>4. CASE OpenFails(s) \/ CheckFails(s)
  <2>1. LockTypes'
    BY <1>4, SMT DEF OpenFails, CheckFails
  <2>2. KernelExcludes'
    BY <1>4, SMT DEF OpenFails, CheckFails
  <2>3. InSection'
    BY <1>4, SMT DEF OpenFails, CheckFails
  <2>4. HoldersSitOnThePath'
    BY <1>4, SMT DEF OpenFails, CheckFails
  <2>5. ProbeSection'
    BY <1>4, SMT DEF OpenFails, CheckFails
  <2> QED BY <2>1, <2>2, <2>3, <2>4, <2>5
<1>5. CASE LockTaken(s)
  <2>1. LockTypes'
    BY <1>5, SMT DEF LockTaken, Conflict
  <2>2. KernelExcludes'
    BY <1>5, SMT DEF LockTaken, Conflict
  <2>3. InSection'
    BY <1>5 DEF LockTaken, Conflict
  <2>4. HoldersSitOnThePath'
    BY <1>5 DEF LockTaken, Conflict
  <2>5. ProbeSection'
    BY <1>5 DEF LockTaken, Conflict
  <2> QED BY <2>1, <2>2, <2>3, <2>4, <2>5
<1>6. CASE LockBusy(s)
  <2>1. LockTypes'
    BY <1>6 DEF LockBusy, Discard
  <2>2. KernelExcludes'
    BY <1>6 DEF LockBusy, Discard
  <2>3. InSection'
    BY <1>6 DEF LockBusy, Discard
  <2>4. HoldersSitOnThePath'
    BY <1>6 DEF LockBusy, Discard
  <2>5. ProbeSection'
    BY <1>6 DEF LockBusy, Discard
  <2> QED BY <2>1, <2>2, <2>3, <2>4, <2>5
<1>7. CASE CheckFresh(s)
  <2>1. LockTypes'
    BY <1>7, SMT DEF CheckFresh
  <2>2. KernelExcludes'
    BY <1>7 DEF CheckFresh
  <2>3. InSection'
    BY <1>7, SMT DEF CheckFresh
  <2>4. HoldersSitOnThePath'
    BY <1>7, SMT DEF CheckFresh
  <2>5. ProbeSection'
    BY <1>7, SMT DEF CheckFresh
  <2> QED BY <2>1, <2>2, <2>3, <2>4, <2>5
<1>8. CASE CheckStale(s)
  <2>1. LockTypes'
    BY <1>8, SMT DEF CheckStale, Discard
  <2>2. KernelExcludes'
    BY <1>8 DEF CheckStale, Discard
  <2>3. InSection'
    BY <1>8, SMT DEF CheckStale, Discard
  <2>4. HoldersSitOnThePath'
    BY <1>8 DEF CheckStale, Discard
  <2>5. ProbeSection'
    BY <1>8 DEF CheckStale, Discard
  <2> QED BY <2>1, <2>2, <2>3, <2>4, <2>5
<1>9. CASE ReleaseRead(s)
  <2>1. LockTypes'
    BY <1>9, SMT DEF ReleaseRead, Discard
  <2>2. KernelExcludes'
    BY <1>9, SMT DEF ReleaseRead, Discard
  <2>3. InSection'
    BY <1>9, SMT DEF ReleaseRead, Discard
  <2>4. HoldersSitOnThePath'
    BY <1>9, SMT DEF ReleaseRead, Discard
  <2>5. ProbeSection'
    BY <1>9, SMT DEF ReleaseRead, Discard
  <2> QED BY <2>1, <2>2, <2>3, <2>4, <2>5
<1>10. CASE ReleaseWrite(s)
  <2>1. LockTypes'
    BY <1>10 DEF ReleaseWrite
  <2>2. KernelExcludes'
    BY <1>10 DEF ReleaseWrite
  <2>3. InSection'
    BY <1>10, SMT DEF ReleaseWrite
  <2>4. HoldersSitOnThePath'
    BY <1>10 DEF ReleaseWrite
  <2>5. ProbeSection'
    BY <1>10 DEF ReleaseWrite
  <2> QED BY <2>1, <2>2, <2>3, <2>4, <2>5
<1>11. CASE Unlink(s)
  <2>1. LockTypes'
    BY <1>11 DEF Unlink
  <2>2. KernelExcludes'
    BY <1>11 DEF Unlink
  <2>3. InSection'
    BY <1>11, SMT DEF Unlink
  <2>4. HoldersSitOnThePath'
    BY <1>11, SMT DEF Unlink
  <2>5. ProbeSection'
    BY <1>11 DEF Unlink
  <2> QED BY <2>1, <2>2, <2>3, <2>4, <2>5
<1>12. CASE Close(s)
  <2>1. LockTypes'
    BY <1>12 DEF Close, Discard
  <2>2. KernelExcludes'
    BY <1>12 DEF Close, Discard
  <2>3. InSection'
    BY <1>12 DEF Close, Discard
  <2>4. HoldersSitOnThePath'
    BY <1>12 DEF Close, Discard
  <2>5. ProbeSection'
    BY <1>12 DEF Close, Discard
  <2> QED BY <2>1, <2>2, <2>3, <2>4, <2>5
<1>13. CASE DropState(s)
  <2>1. LockTypes'
    BY <1>13 DEF DropState, Discard
  <2>2. KernelExcludes'
    BY <1>13 DEF DropState, Discard
  <2>3. InSection'
    BY <1>13, SMT DEF DropState, Discard
  <2>4. HoldersSitOnThePath'
    BY <1>13 DEF DropState, Discard
  <2>5. ProbeSection'
    BY <1>13 DEF DropState, Discard
  <2> QED BY <2>1, <2>2, <2>3, <2>4, <2>5
<1>14. CASE Crash(s)
  <2>1. LockTypes'
    BY <1>14, SMT DEF Crash, Discard
  <2>2. KernelExcludes'
    BY <1>14 DEF Crash, Discard
  <2>3. InSection'
    BY <1>14, SMT DEF Crash, Discard
  <2>4. HoldersSitOnThePath'
    BY <1>14, SMT DEF Crash, Discard
  <2>5. ProbeSection'
    BY <1>14 DEF Crash, Discard
  <2> QED BY <2>1, <2>2, <2>3, <2>4, <2>5
<1> QED BY <1>1, <1>2, <1>3, <1>4, <1>5, <1>6, <1>7, <1>8, <1>9, <1>10, <1>11, <1>12, <1>13, <1>14 DEF StateStep

(* So does every step of a probe.                                          *)
LEMMA ProbeStepKeeps ==
  ASSUME LockPart, NEW p \in Probers, ProbeStep(p)
  PROVE  LockPart'
<1> USE ActorsFinite, NoneFresh, BoundsNat
    DEF LockPart, LockTypes, KernelExcludes, InSection, ProbeSection, HoldersSitOnThePath,
        Held, Idle, Fds
<1>1. ASSUME NEW m \in {"sh", "ex"}, ProbeOpen(p, m) PROVE LockPart'
  <2>1. LockTypes'
    BY <1>1 DEF ProbeOpen
  <2>2. KernelExcludes'
    BY <1>1 DEF ProbeOpen
  <2>3. InSection'
    BY <1>1, SMT DEF ProbeOpen
  <2>4. HoldersSitOnThePath'
    BY <1>1 DEF ProbeOpen
  <2>5. ProbeSection'
    BY <1>1 DEF ProbeOpen
  <2> QED BY <2>1, <2>2, <2>3, <2>4, <2>5
<1>2. CASE ProbeLock(p)
  <2>1. LockTypes'
    BY <1>2 DEF ProbeLock, Conflict
  <2>2. KernelExcludes'
    BY <1>2, SMT DEF ProbeLock, Conflict
  <2>3. InSection'
    BY <1>2 DEF ProbeLock, Conflict
  <2>4. HoldersSitOnThePath'
    BY <1>2 DEF ProbeLock, Conflict
  <2>5. ProbeSection'
    BY <1>2 DEF ProbeLock, Conflict
  <2> QED BY <2>1, <2>2, <2>3, <2>4, <2>5
<1>3. CASE ProbeClose(p)
  <2>1. LockTypes'
    BY <1>3 DEF ProbeClose, Discard
  <2>2. KernelExcludes'
    BY <1>3 DEF ProbeClose, Discard
  <2>3. InSection'
    BY <1>3 DEF ProbeClose, Discard
  <2>4. HoldersSitOnThePath'
    BY <1>3 DEF ProbeClose, Discard
  <2>5. ProbeSection'
    BY <1>3 DEF ProbeClose, Discard
  <2> QED BY <2>1, <2>2, <2>3, <2>4, <2>5
<1> QED BY <1>1, <1>2, <1>3 DEF ProbeStep

(* While somebody the probe asks about holds, the path does not change.    *)
LEMMA PathStable ==
  ASSUME LockPart, NEW m, SomeHolder(m), NEW s \in States, StateStep(s)
  PROVE  path' = path
<1> USE DEF LockPart, LockTypes, KernelExcludes, InSection, HoldersSitOnThePath, Held, Fds
<1>1. PICK t \in States : Held(t)
  BY DEF SomeHolder
<1>2. path # None /\ file[t] = path /\ mode[t] # "un"
  BY <1>1
<1>3. ~Unlink(s)
  BY <1>1, <1>2 DEF Unlink
<1>4. EnsureOpen(s) => path' = path
  BY <1>2 DEF EnsureOpen
<1> QED BY <1>3, <1>4 DEF StateStep, ReadShared, Begin, OpenFails, LockTaken, LockBusy,
        CheckFresh, CheckStale, CheckFails, ReleaseRead, ReleaseWrite, Close, DropState, Crash

(* A probe that asks the inode of the path while somebody holds is refused.*)
LEMMA ProbeRefused ==
  ASSUME LockPart, NEW p \in Probers, SomeHolder(op[p]), file[p] = path
  PROVE  Conflict(p, op[p])
<1> USE DEF LockPart, LockTypes, InSection, HoldersSitOnThePath, Held, Fds
<1>1. PICK t \in States : IF op[p] = "sh" THEN writer[t] ELSE Held(t)
  BY DEF SomeHolder
<1>2. file[t] = file[p] /\ mode[t] # "un" /\ (op[p] = "ex" \/ mode[t] = "ex")
  BY <1>1
<1>3. t \in Fds \ {p}
  BY ActorsFinite, SMT
<1> QED BY <1>2, <1>3 DEF Conflict

(* The step of a state does not touch the probes.                          *)
LEMMA ProbesUntouched ==
  ASSUME LockTypes, NEW s \in States, StateStep(s), NEW p \in Probers
  PROVE  pc'[p] = pc[p] /\ file'[p] = file[p] /\ op'[p] = op[p]
<1>1. p # s /\ p \in Fds /\ s \in Fds
  BY ActorsFinite DEF Fds
<1> QED BY <1>1 DEF LockTypes, StateStep, ReadShared, Begin, EnsureOpen, OpenFails, LockTaken,
        LockBusy, CheckFresh, CheckStale, CheckFails, ReleaseRead, ReleaseWrite, Unlink, Close,
        DropState, Crash, Discard

(* What a probe knows stays true under a step of a state.                  *)
LEMMA ProbesUnderState ==
  ASSUME FLockInv, LockPart, NEW s \in States, StateStep(s), UNCHANGED free, Observe
  PROVE  ProbeIsCurrent' /\ ProbeSeesTheHolder'
<1> SUFFICES ASSUME NEW p \in Probers
             PROVE  /\ pc'[p] # "idle" /\ ~gap'[p] =>
                          SomeHolder(op[p])' /\ (pc'[p] = "lock" => file'[p] = path')
                    /\ free'[p] => pc'[p] = "close" /\ gap'[p]
  BY DEF ProbeIsCurrent, ProbeSeesTheHolder
<1>1. pc'[p] = pc[p] /\ file'[p] = file[p] /\ op'[p] = op[p]
  BY ProbesUntouched DEF LockPart
<1>2. gap'[p] <=> pc[p] # "idle" /\ (gap[p] \/ ~SomeHolder(op[p])')
  BY <1>1 DEF Observe
<1>3. pc[p] # "idle" /\ ~gap[p] => SomeHolder(op[p]) /\ (pc[p] = "lock" => file[p] = path)
  BY DEF FLockInv, ProbeIsCurrent
<1>4. SomeHolder(op[p]) => path' = path
  BY PathStable
<1>5. free'[p] = free[p] /\ (free[p] => pc[p] = "close" /\ gap[p])
  BY DEF FLockInv, ProbeIsCurrent, ProbeSeesTheHolder
<1> QED BY <1>1, <1>2, <1>3, <1>4, <1>5

(* ... and under a step of a probe, its own or another's.                  *)
LEMMA ProbesUnderProbe ==
  ASSUME FLockInv, LockPart, NEW q \in Probers, ProbeStep(q), Observe
  PROVE  ProbeIsCurrent' /\ ProbeSeesTheHolder'
<1> SUFFICES ASSUME NEW p \in Probers
             PROVE  /\ pc'[p] # "idle" /\ ~gap'[p] =>
                          SomeHolder(op[p])' /\ (pc'[p] = "lock" => file'[p] = path')
                    /\ free'[p] => pc'[p] = "close" /\ gap'[p]
  BY DEF ProbeIsCurrent, ProbeSeesTheHolder
<1>1. gap'[p] <=> pc'[p] # "idle" /\ (gap[p] \/ ~SomeHolder(op[p])')
  BY DEF Observe
<1>2. path' = path /\ (op'[p] = op[p] => (SomeHolder(op[p])' <=> SomeHolder(op[p])))
  BY DEF ProbeStep, ProbeOpen, ProbeLock, ProbeClose, SomeHolder, Held
<1>3. pc[p] # "idle" /\ ~gap[p] => SomeHolder(op[p]) /\ (pc[p] = "lock" => file[p] = path)
  BY DEF FLockInv, ProbeIsCurrent
<1>4. free[p] => pc[p] = "close" /\ gap[p]
  BY DEF FLockInv, ProbeIsCurrent, ProbeSeesTheHolder
<1> USE DEF LockPart, LockTypes, Fds, FLockInv, TypeOK
<1>5. CASE p # q
  <2>1. pc'[p] = pc[p] /\ file'[p] = file[p] /\ free'[p] = free[p] /\ op'[p] = op[p]
    BY <1>5 DEF ProbeStep, ProbeOpen, ProbeLock, ProbeClose, Discard
  <2> QED BY <1>1, <1>2, <1>3, <1>4, <2>1
<1>6. CASE p = q /\ \E m \in {"sh", "ex"} : ProbeOpen(q, m)
  BY <1>1, <1>2, <1>4, <1>6 DEF ProbeOpen, Idle
<1>7. CASE p = q /\ ProbeLock(q)
  <2>1. pc[p] = "lock" /\ pc'[p] = "close" /\ (free'[p] <=> ~Conflict(p, op[p])) /\ op'[p] = op[p]
    BY <1>7 DEF ProbeLock
  <2>2. ~gap[p] => Conflict(p, op[p])
    BY <1>3, <2>1, ProbeRefused
  <2> QED BY <1>1, <1>2, <1>3, <2>1, <2>2
<1>8. CASE p = q /\ ProbeClose(q)
  BY <1>1, <1>8 DEF ProbeClose
<1> QED BY <1>5, <1>6, <1>7, <1>8 DEF ProbeStep

(* The invariant of the filesystem lock is inductive.                      *)
THEOREM FLockInvariant == Spec => []FLockInv
<1> USE DEF LockPart, LockTypes, TypeOK, FLockInv
<1>1. Init => FLockInv
  <2> SUFFICES ASSUME Init PROVE FLockInv
    OBVIOUS
  <2>1. TypeOK
    BY BoundsNat, SMT DEF Init, Fds
  <2>2. KernelExcludes /\ InSection /\ ProbeSection /\ HoldersSitOnThePath
    BY SMT DEF Init, Fds, KernelExcludes, InSection, ProbeSection, HoldersSitOnThePath, Held
  <2>3. ProbeIsCurrent /\ ProbeSeesTheHolder
    BY DEF Init, Fds, ProbeIsCurrent, ProbeSeesTheHolder
  <2> QED BY <2>1, <2>2, <2>3
<1>2. FLockInv /\ [Next]_vars => FLockInv'
  <2> SUFFICES ASSUME FLockInv, [Next]_vars PROVE FLockInv'
    OBVIOUS
  <2>1. LockPart
    OBVIOUS
  <2>2. ASSUME Next PROVE ProbeTypes'
    <3>1. gap' \in [Probers -> BOOLEAN]
      BY <2>2 DEF Next, Observe
    <3>2. free' \in [Probers -> BOOLEAN]
      BY <2>2 DEF Next, ProbeStep, ProbeOpen, ProbeLock, ProbeClose
    <3> QED BY <3>1, <3>2 DEF ProbeTypes
  <2>3. ASSUME NEW s \in States, StateStep(s), UNCHANGED free, Observe PROVE FLockInv'
    <3>1. Next
      BY <2>3 DEF Next
    <3> HIDE DEF LockPart, FLockInv
    <3>2. LockPart' /\ ProbeIsCurrent' /\ ProbeSeesTheHolder' /\ ProbeTypes'
      BY <2>1, <2>2, <2>3, <3>1, StateStepKeeps, ProbesUnderState
    <3> QED BY <3>2 DEF LockPart, FLockInv, ProbeTypes
  <2>4. ASSUME NEW p \in Probers, ProbeStep(p), Observe PROVE FLockInv'
    <3>1. Next
      BY <2>4 DEF Next
    <3> HIDE DEF LockPart, FLockInv
    <3>2. LockPart' /\ ProbeIsCurrent' /\ ProbeSeesTheHolder' /\ ProbeTypes'
      BY <2>1, <2>2, <2>4, <3>1, ProbeStepKeeps, ProbesUnderProbe
    <3> QED BY <3>2 DEF LockPart, FLockInv, ProbeTypes
  <2>5. ASSUME UNCHANGED vars PROVE FLockInv'
    BY <2>5, SMT DEF vars, KernelExcludes, InSection, ProbeSection, HoldersSitOnThePath, Held,
       ProbeIsCurrent, ProbeSeesTheHolder, SomeHolder
  <2> QED BY <2>3, <2>4, <2>5 DEF Next
<1> QED BY <1>1, <1>2, PTL DEF Spec

(* Every variable keeps its type; the retries never run out of bounds.     *)
THEOREM FLockTypes == Spec => []TypeOK
  BY FLockInvariant, PTL DEF FLockInv

(* Who holds the lock holds it on the file at the path.                    *)
THEOREM NobodyOnARemovedInode == Spec => []HoldersSitOnThePath
  BY FLockInvariant, PTL DEF FLockInv

(* A writer is alone, across processes, crashes and deletions of the file. *)
THEOREM Exclusion == Spec => []MutualExclusion
<1>1. FLockInv => MutualExclusion
  <2> SUFFICES ASSUME FLockInv, NEW s \in States, NEW t \in States, s # t, writer[s], Held(t)
               PROVE  FALSE
    BY DEF MutualExclusion
  <2>1. file[s] = path /\ file[t] = path
    BY DEF FLockInv, HoldersSitOnThePath, Held
  <2>2. mode[s] = "ex" /\ mode[t] # "un"
    BY DEF FLockInv, InSection, Held
  <2>3. s \in Fds /\ t \in Fds
    BY DEF Fds
  <2> QED BY <2>1, <2>2, <2>3 DEF FLockInv, KernelExcludes
<1> QED BY <1>1, FLockInvariant, PTL

(* A probe that found nobody overlapped an instant without a holder.       *)
THEOREM ProbeSound == Spec => []ProbeSeesTheHolder
  BY FLockInvariant, PTL DEF FLockInv

-----------------------------------------------------------------------------
(***************************************************************************)
(* The registry of keyed locks, for any number of users and cells.         *)
(***************************************************************************)
(* Every step of the registry preserves the inductive invariant: a live    *)
(* cell is the registered one, through every order of lookups and drops.   *)
THEOREM RegistryInvariant == KeyedSpec => []KeyedInv
<1>1. KeyedInit => KeyedInv
  BY NoCellFresh DEF KeyedInit, KeyedInv, KeyedTypeOK, LiveIsRegistered, Live, DeadIsPurged, Has
<1>2. KeyedInv /\ [KeyedNext]_keyedVars => KeyedInv'
  <2> SUFFICES ASSUME KeyedInv, [KeyedNext]_keyedVars PROVE KeyedInv'
    OBVIOUS
  <2> USE NoCellFresh DEF KeyedInv, KeyedTypeOK
  <2>1. ASSUME NEW u \in Users, Get(u) PROVE KeyedInv'
    <3>1. PICK c \in Cells :
            /\ IF entry # NoCell /\ Live(entry) THEN c = entry ELSE Fresh(c)
            /\ entry' = c /\ handle' = [handle EXCEPT ![u] = c]
      BY <2>1 DEF Get
    <3>2. \A d \in Cells : Live(d)' => Live(d) \/ d = c
      BY <2>1, <3>1 DEF Get, Live
    <3>3. \A d \in Cells : Live(d) => d = c
      BY <3>1 DEF LiveIsRegistered, Fresh
    <3>4. LiveIsRegistered'
      BY <3>1, <3>2, <3>3 DEF LiveIsRegistered
    <3>5. DeadIsPurged'
      BY <2>1, <3>1 DEF DeadIsPurged, Live, Get
    <3>6. Has'
      BY <2>1, <3>1 DEF Has, Get
    <3>7. KeyedTypeOK'
      BY <2>1, <3>1 DEF Get
    <3> QED BY <3>4, <3>5, <3>6, <3>7
  <2>2. ASSUME NEW u \in Users, NEW keep \in BOOLEAN, Lock(u, keep) PROVE KeyedInv'
    <3>1. PICK c \in Cells : c = handle[u]
      BY <2>2, SMT DEF Lock, Has
    <3>2. KeyedTypeOK'
      BY <2>2, <3>1 DEF Lock
    <3>3. \A d \in Cells : Live(d)' <=> Live(d)
      BY <2>2, <3>1, SMT DEF Lock, Live, Has
    <3>4. LiveIsRegistered' /\ DeadIsPurged'
      BY <2>2, <3>1, <3>3 DEF Lock, LiveIsRegistered, DeadIsPurged
    <3>5. Has'
      BY <2>2, <3>1, SMT DEF Lock, Has
    <3> QED BY <3>2, <3>4, <3>5
  <2>3. ASSUME NEW u \in Users, DropHandle(u) PROVE KeyedInv'
    <3>1. KeyedTypeOK'
      BY <2>3 DEF DropHandle
    <3>2. LiveIsRegistered'
      BY <2>3 DEF DropHandle, LiveIsRegistered, Live
    <3>3. DeadIsPurged'
      BY <2>3, SMT DEF DropHandle, DeadIsPurged, LiveIsRegistered, Live, LastOf, Has
    <3>4. Has'
      BY <2>3 DEF DropHandle, Has
    <3> QED BY <3>1, <3>2, <3>3, <3>4
  <2>4. ASSUME NEW u \in Users, OutliveHandle(u) PROVE KeyedInv'
    <3>1. KeyedTypeOK'
      BY <2>4 DEF OutliveHandle
    <3>2. \A d \in Cells : Live(d)' <=> Live(d)
      BY <2>4 DEF OutliveHandle, Live, Has
    <3>3. LiveIsRegistered' /\ DeadIsPurged'
      BY <2>4, <3>2 DEF OutliveHandle, LiveIsRegistered, DeadIsPurged
    <3>4. Has'
      BY <2>4 DEF OutliveHandle, Has
    <3> QED BY <3>1, <3>3, <3>4
  <2>5. ASSUME NEW u \in Users, DropCell(u) PROVE KeyedInv'
    <3>1. KeyedTypeOK'
      BY <2>5 DEF DropCell
    <3>2. LiveIsRegistered'
      BY <2>5 DEF DropCell, LiveIsRegistered, Live
    <3>3. DeadIsPurged'
      BY <2>5, SMT DEF DropCell, DeadIsPurged, LiveIsRegistered, Live, LastOf, Has
    <3>4. Has'
      BY <2>5 DEF DropCell, Has
    <3> QED BY <3>1, <3>2, <3>3, <3>4
  <2>6. ASSUME NEW u \in Users, Purge(u) PROVE KeyedInv'
    <3>1. KeyedTypeOK'
      BY <2>6 DEF Purge
    <3>2. \A d \in Cells : Live(d)' <=> Live(d)
      BY <2>6 DEF Purge, Live
    <3>3. LiveIsRegistered'
      BY <2>6, <3>2 DEF Purge, LiveIsRegistered
    <3>4. DeadIsPurged'
      BY <2>6, <3>2 DEF Purge, DeadIsPurged
    <3>5. Has'
      BY <2>6 DEF Purge, Has
    <3> QED BY <3>1, <3>3, <3>4, <3>5
  <2>7. ASSUME NEW u \in Users, DropInner(u) PROVE KeyedInv'
    <3>1. KeyedTypeOK'
      BY <2>7 DEF DropInner
    <3>2. LiveIsRegistered' /\ DeadIsPurged'
      BY <2>7 DEF DropInner, LiveIsRegistered, DeadIsPurged, Live
    <3>3. Has'
      BY <2>7, SMT DEF DropInner, Has
    <3> QED BY <3>1, <3>2, <3>3
  <2>8. CASE UNCHANGED keyedVars
    BY <2>8 DEF keyedVars, LiveIsRegistered, DeadIsPurged, Live, Has
  <2> QED
    BY <2>1, <2>2, <2>3, <2>4, <2>5, <2>6, <2>7, <2>8 DEF KeyedNext
<1> QED
  BY <1>1, <1>2, PTL DEF KeyedSpec

(* Two users never hold the lock of one key at once.                       *)
THEOREM OneHolderPerKey == KeyedSpec => []KeyExclusion
<1>1. KeyedInv => KeyExclusion
  BY NoCellFresh, SMT DEF KeyedInv, KeyedTypeOK, LiveIsRegistered, Live, Has, KeyExclusion
<1> QED
  BY <1>1, RegistryInvariant, PTL

(* The map is empty once every user is done.                               *)
THEOREM RegistryEmpties == KeyedSpec => []CleansUpAfterItself
<1>1. KeyedInv => CleansUpAfterItself
  BY NoCellFresh, SMT DEF KeyedInv, KeyedTypeOK, DeadIsPurged, Live, Has, CleansUpAfterItself
<1> QED
  BY <1>1, RegistryInvariant, PTL
=============================================================================
