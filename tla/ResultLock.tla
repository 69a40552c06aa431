---------------------------- MODULE ResultLock ------------------------------
(***************************************************************************)
(* The transformable lock of one target: the two-lock bridge               *)
(* (crates/lock/src/hlock/bridge.rs) over the target's gateway and its     *)
(* revisions' reader/writer locks, as crates/engine/src/engine/            *)
(* result_lock.rs composes it.  The gateway and the revision locks are     *)
(* what FLock and mem.rs provide: exclusive, and shared or exclusive.      *)
(* What a holder does with the entry is Change.                            *)
(***************************************************************************)
EXTENDS FiniteSets, Naturals

CONSTANTS
  Tasks,      \* requests, in any process
  Revs,       \* revisions of the target
  None,       \* nobody, nothing
  Ops,        \* per task: bound on the operations it starts
  Changes     \* bound on the changes to each revision

ASSUME LockAssumption ==
  /\ None \notin Tasks \cup Revs
  /\ Ops \in [Tasks -> Nat] /\ Changes \in Nat

VARIABLES
  outer,    \* the owner of the gateway
  rd,       \* per revision: its shared holders, a task's guard being "up" or "ride"
  wr,       \* per revision: its exclusive holder
  pc, rev,  \* per task: where it is, and the revision it is at
  content,  \* per revision: how often its cache entry has changed
  seen,     \* per task: the content it relies on (a history variable)
  ops       \* per task: operations started

locks == <<outer, rd, wr>>
vars == <<locks, pc, rev, content, seen, ops>>

Init ==
  /\ outer = None
  /\ rd = [r \in Revs |-> {}]
  /\ wr = [r \in Revs |-> None]
  /\ pc = [t \in Tasks |-> "idle"]
  /\ rev = [t \in Tasks |-> None]
  /\ content = [r \in Revs |-> 0]
  /\ seen = [t \in Tasks |-> None]
  /\ ops = [t \in Tasks |-> 0]

-----------------------------------------------------------------------------
(* The two locks underneath.  A read beside a waiting writer is flock's;   *)
(* tokio's fair lock makes it wait, or refuses a try.                      *)
WriterWaits(r) == \E t \in Tasks : pc[t] \in {"w_inner", "upgrading", "rev_wait"} /\ rev[t] = r

FreeToRead(r) == wr[r] = None
FreeToWrite(r) == wr[r] = None /\ rd[r] = {}

InnerRead(t, r, guard) ==
  /\ FreeToRead(r)
  /\ rd' = [rd EXCEPT ![r] = @ \cup {<<t, guard>>}]
InnerWrite(t, r) ==
  /\ FreeToWrite(r)
  /\ wr' = [wr EXCEPT ![r] = t]

Rides(t) == \E r \in Revs : <<t, "ride">> \in rd[r]

At(t, from, to) == pc[t] = from /\ pc' = [pc EXCEPT ![t] = to]

(* From here on t relies on the entry it holds.                            *)
Rely(t, r) == seen' = [seen EXCEPT ![t] = content[r]]
Forget(t) == seen' = [seen EXCEPT ![t] = None]

-----------------------------------------------------------------------------
\* mutant: the entry is looked up before its lock is taken
Call_looksFirst(t, r, wait) ==
  /\ ~Rides(t) /\ ops[t] < Ops[t]
  /\ wait \in {"read", "up_outer", "w_outer", "t_outer"}
  /\ At(t, "idle", wait)
  /\ rev' = [rev EXCEPT ![t] = r]
  /\ ops' = [ops EXCEPT ![t] = @ + 1]
  /\ Rely(t, r)
  /\ UNCHANGED <<locks, content>>

(* A task calls read, upgradable_read, write or lock_target for a          *)
(* revision, and waits for the first of the locks it takes.                *)
Call(t, r, wait) ==
  /\ ~Rides(t) /\ ops[t] < Ops[t]
  /\ wait \in {"read", "up_outer", "w_outer", "t_outer"}
  /\ At(t, "idle", wait)
  /\ rev' = [rev EXCEPT ![t] = r]
  /\ ops' = [ops EXCEPT ![t] = @ + 1]
  /\ UNCHANGED <<locks, content, seen>>

(* read: the revision's lock only.                                         *)
Read(t) ==
  /\ At(t, "read", "idle")
  /\ InnerRead(t, rev[t], "ride") /\ Rely(t, rev[t])
  /\ UNCHANGED <<outer, wr, rev, content, ops>>

(* The gateway, on the way to an upgradable read or a write, or alone.     *)
Outer(t) ==
  /\ \/ At(t, "up_outer", "up_inner")
     \/ At(t, "w_outer", "w_inner")
     \/ At(t, "t_outer", "target")
  /\ outer = None
  /\ outer' = t
  /\ UNCHANGED <<rd, wr, rev, content, seen, ops>>

(* try_write and try_upgradable_read take the gateway, then try the        *)
(* revision and give the gateway back if that is refused; try_lock_target  *)
(* takes the gateway alone.                                                *)
TryOuter(t, r, next) ==
  /\ ~Rides(t) /\ ops[t] < Ops[t] /\ outer = None
  /\ next \in {"try_write", "try_up", "target"}
  /\ At(t, "idle", next)
  /\ outer' = t
  /\ rev' = [rev EXCEPT ![t] = r]
  /\ ops' = [ops EXCEPT ![t] = @ + 1]
  /\ UNCHANGED <<rd, wr, content, seen>>

TryInner(t) ==
  /\ \/ At(t, "try_write", "write") /\ InnerWrite(t, rev[t]) /\ Rely(t, rev[t]) /\ UNCHANGED rd
     \/ At(t, "try_up", "up") /\ InnerRead(t, rev[t], "up") /\ Rely(t, rev[t]) /\ UNCHANGED wr
     \/ At(t, "try_write", "drop_outer") /\ ~FreeToWrite(rev[t]) /\ UNCHANGED <<rd, wr, seen>>
     \/ /\ At(t, "try_up", "drop_outer") /\ UNCHANGED <<rd, wr, seen>>
        /\ ~FreeToRead(rev[t]) \/ WriterWaits(rev[t])
  /\ UNCHANGED <<outer, rev, content, ops>>

(* The inner half of upgradable_read; of write; of upgrade; of downgrade.  *)
Inner(t) ==
  /\ \/ At(t, "up_inner", "up") /\ InnerRead(t, rev[t], "up") /\ Rely(t, rev[t]) /\ UNCHANGED wr
     \/ At(t, "w_inner", "write") /\ InnerWrite(t, rev[t]) /\ Rely(t, rev[t]) /\ UNCHANGED rd
     \/ At(t, "upgrading", "write") /\ InnerWrite(t, rev[t]) /\ UNCHANGED <<rd, seen>>
     \/ At(t, "downgrading", "up") /\ InnerRead(t, rev[t], "up") /\ UNCHANGED <<wr, seen>>
  /\ UNCHANGED <<outer, rev, content, ops>>

DropUpRead(t) == rd' = [rd EXCEPT ![rev[t]] = @ \ {<<t, "up">>}]
DropWrite(t) == wr' = [wr EXCEPT ![rev[t]] = None]

\* mutant: the read is kept while waiting for the write
Upgrade_keepsRead(t) ==
  /\ ~Rides(t) /\ ops[t] < Ops[t]
  /\ At(t, "up", "upgrading")
  /\ ops' = [ops EXCEPT ![t] = @ + 1]
  /\ UNCHANGED <<locks, rev, content, seen>>

(* upgrade: the gateway is kept, the read is dropped for the write.        *)
Upgrade(t) ==
  /\ ~Rides(t) /\ ops[t] < Ops[t]
  /\ At(t, "up", "upgrading")
  /\ DropUpRead(t)
  /\ ops' = [ops EXCEPT ![t] = @ + 1]
  /\ UNCHANGED <<outer, wr, rev, content, seen>>

\* mutant: the gateway goes with the write
Downgrade_dropsOuter(t) ==
  /\ At(t, "write", "downgrading")
  /\ DropWrite(t)
  /\ outer' = None
  /\ UNCHANGED <<rd, rev, content, seen, ops>>

(* downgrade: the gateway is kept, the write is dropped for a read.        *)
Downgrade(t) ==
  /\ At(t, "write", "downgrading")
  /\ DropWrite(t)
  /\ UNCHANGED <<outer, rd, rev, content, seen, ops>>

(* A holder of the gateway takes a plain read, to ride on once it lets go. *)
HandOff(t) ==
  /\ pc[t] = "up" /\ ~Rides(t)
  /\ InnerRead(t, rev[t], "ride")
  /\ UNCHANGED <<outer, wr, pc, rev, content, seen, ops>>

(* write_revision and try_write_revision, under the gateway; the guard of  *)
(* either is dropped before the gateway's.                                 *)
AskRevision(t, r) ==
  /\ ops[t] < Ops[t]
  /\ At(t, "target", "rev_wait")
  /\ rev' = [rev EXCEPT ![t] = r]
  /\ ops' = [ops EXCEPT ![t] = @ + 1]
  /\ UNCHANGED <<locks, content, seen>>

WriteRevision(t) ==
  /\ At(t, "rev_wait", "rev")
  /\ InnerWrite(t, rev[t]) /\ Rely(t, rev[t])
  /\ UNCHANGED <<outer, rd, rev, content, ops>>

TryWriteRevision(t, r) ==
  /\ ops[t] < Ops[t]
  /\ At(t, "target", "rev")
  /\ InnerWrite(t, r) /\ Rely(t, r)
  /\ rev' = [rev EXCEPT ![t] = r]
  /\ ops' = [ops EXCEPT ![t] = @ + 1]
  /\ UNCHANGED <<outer, rd, content>>

DropRevision(t) ==
  /\ At(t, "rev", "target")
  /\ DropWrite(t) /\ Forget(t)
  /\ UNCHANGED <<outer, rd, rev, content, ops>>

(* The guards' drops: the inner half first, then the gateway.              *)
DropInner(t) ==
  /\ \/ At(t, "up", "drop_outer") /\ DropUpRead(t) /\ UNCHANGED wr
     \/ At(t, "write", "drop_outer") /\ DropWrite(t) /\ UNCHANGED rd
  /\ IF Rides(t) THEN UNCHANGED seen ELSE Forget(t)
  /\ UNCHANGED <<outer, rev, content, ops>>

DropOuter(t) ==
  /\ At(t, "drop_outer", "idle") \/ At(t, "target", "idle")
  /\ outer' = None
  /\ UNCHANGED <<rd, wr, rev, content, seen, ops>>

(* The last artifact that carries the plain read is dropped.               *)
DropRide(t) ==
  /\ pc[t] = "idle" /\ Rides(t)
  /\ rd' = [rd EXCEPT ![rev[t]] = @ \ {<<t, "ride">>}]
  /\ Forget(t)
  /\ UNCHANGED <<outer, wr, pc, rev, content, ops>>

(* A cancelled wait gives back what the call had taken.                    *)
Cancel(t) ==
  /\ \/ \E w \in {"read", "up_outer", "w_outer", "t_outer"} : At(t, w, "idle")
     \/ \E w \in {"up_inner", "w_inner", "upgrading", "downgrading"} : At(t, w, "drop_outer")
     \/ At(t, "rev_wait", "target")
  /\ Forget(t)
  /\ UNCHANGED <<locks, rev, content, ops>>

(* wait_holder: a waiter whose wait is long asks, once, whether the        *)
(* revision is in use, by taking its lock exclusively for an instant,      *)
(* gateway or no gateway.                                                  *)
Announced ==
  {"read", "up_outer", "w_outer", "t_outer", "up_inner", "w_inner", "rev_wait"}

Probe(t) ==
  /\ pc[t] \in Announced /\ ops[t] < Ops[t]
  /\ InnerWrite(t, rev[t])
  /\ ops' = [ops EXCEPT ![t] = @ + 1]
  /\ UNCHANGED <<outer, rd, pc, rev, content, seen>>

Probes(t) == pc[t] \in Announced /\ wr[rev[t]] = t

Probed(t) ==
  /\ Probes(t)
  /\ DropWrite(t)
  /\ UNCHANGED <<outer, rd, pc, rev, content, seen, ops>>

(* The exclusive holder builds, rebuilds or deletes the entry.             *)
Change(t) ==
  /\ pc[t] \in {"write", "rev"} /\ content[rev[t]] < Changes
  /\ content' = [content EXCEPT ![rev[t]] = @ + 1]
  /\ seen' = [seen EXCEPT ![t] = content[rev[t]] + 1]
  /\ UNCHANGED <<locks, pc, rev, ops>>

-----------------------------------------------------------------------------
Granted(t) == Read(t) \/ Outer(t) \/ TryInner(t) \/ Inner(t) \/ WriteRevision(t)
Released(t) == DropRevision(t) \/ DropInner(t) \/ DropOuter(t) \/ DropRide(t)

(* A probing waiter is in the middle of a synchronous call.                *)
Next ==
  \E t \in Tasks :
    \/ Probed(t)
    \/ /\ ~Probes(t)
       /\ \/ \E r \in Revs :
               \/ \E w \in {"read", "up_outer", "w_outer", "t_outer"} : Call(t, r, w)
               \/ \E n \in {"try_write", "try_up", "target"} : TryOuter(t, r, n)
               \/ AskRevision(t, r) \/ TryWriteRevision(t, r)
          \/ Granted(t) \/ Released(t) \/ Probe(t)
          \/ Upgrade(t) \/ Downgrade(t) \/ HandOff(t) \/ Cancel(t) \/ Change(t)

Spec == Init /\ [][Next]_vars

(* Waits are granted when they can be, a read only once no writer waits;   *)
(* a probe lets go, and a holder lets go in the end.                       *)
ReadWaits == {"read", "up_inner", "downgrading"}

FairSpec ==
  /\ Spec
  /\ \A t \in Tasks :
       /\ WF_vars(/\ Granted(t) /\ ~Probes(t)
                  /\ pc[t] \in ReadWaits => ~WriterWaits(rev[t]))
       /\ WF_vars(Released(t)) /\ WF_vars(Probed(t))

-----------------------------------------------------------------------------
Waits ==
  {"read", "up_outer", "up_inner", "w_outer", "w_inner", "t_outer",
   "upgrading", "downgrading", "rev_wait"}
Pcs ==
  Waits \cup {"idle", "try_write", "try_up", "up", "write", "target", "rev", "drop_outer"}

(* Every variable has its type.                                            *)
TypeOK ==
  /\ outer \in Tasks \cup {None}
  /\ rd \in [Revs -> SUBSET (Tasks \X {"up", "ride"})]
  /\ wr \in [Revs -> Tasks \cup {None}]
  /\ pc \in [Tasks -> Pcs]
  /\ rev \in [Tasks -> Revs \cup {None}]
  /\ content \in [Revs -> Nat]
  /\ seen \in [Tasks -> Nat \cup {None}]
  /\ ops \in [Tasks -> Nat]

(* What a task found under its read, or wrote, is what the entry holds for *)
(* as long as it holds on, through upgrade, downgrade and the hand-off to  *)
(* a plain read: "gap-free - no writer can delete what we just             *)
(* confirmed/wrote" (result.rs).                                           *)
StableWhileHeld == \A t \in Tasks : seen[t] # None => content[rev[t]] = seen[t]

(* "at most one request in any process is building a given target at a     *)
(* time, whichever revision it is building".                               *)
OneBuilder ==
  \A t, u \in Tasks : pc[t] \in {"write", "rev"} /\ pc[u] \in {"write", "rev"} => t = u

(* downgrade's "inner read below cannot block", nor can the hand-off's: no *)
(* writer waits there, and nobody but a probe holds the revision.          *)
GatewayReadsAtOnce ==
  \A t \in Tasks : pc[t] \in {"up", "downgrading"} =>
    /\ ~WriterWaits(rev[t])
    /\ wr[rev[t]] # None => Probes(wr[rev[t]])

(* "upgrade/downgrade cannot deadlock against each other": every wait ends *)
(* if those who hold let go in the end.                                    *)
EveryWaitEnds == \A t \in Tasks : pc[t] \in Waits ~> pc[t] \notin Waits

(***************************************************************************)
(* The inductive invariant.                                                *)
(***************************************************************************)
Gated ==
  {"up_inner", "w_inner", "try_write", "try_up", "up", "write", "target", "rev",
   "rev_wait", "upgrading", "downgrading", "drop_outer"}

(* The gateway is whose pc says so.                                        *)
GatewayIsHeld == \A t \in Tasks : pc[t] \in Gated <=> outer = t

(* A revision is held exclusively by whose pc says so, or by a probe.      *)
WritesAreHeld ==
  \A t \in Tasks :
    /\ pc[t] # "idle" => rev[t] \in Revs
    /\ pc[t] \in {"write", "rev"} => wr[rev[t]] = t
    /\ \A r \in Revs : wr[r] = t => rev[t] = r /\ pc[t] \in Announced \cup {"write", "rev"}

(* It is held shared by whose pc says so, or by a rider.                   *)
ReadsAreHeld ==
  \A t \in Tasks, r \in Revs :
    /\ <<t, "up">> \in rd[r] <=> pc[t] = "up" /\ rev[t] = r
    /\ <<t, "ride">> \in rd[r] => rev[t] = r /\ pc[t] \in {"idle", "up", "drop_outer"}

ReadersOrWriter == \A r \in Revs : wr[r] = None \/ rd[r] = {}

(* Who relies on an entry holds it, or holds the gateway between two holds.*)
ReliesOnAHold ==
  \A t \in Tasks : seen[t] # None =>
    /\ rev[t] \in Revs
    /\ pc[t] \in {"up", "write", "rev", "upgrading", "downgrading"} \/ <<t, "ride">> \in rd[rev[t]]

LockInv ==
  /\ TypeOK /\ GatewayIsHeld /\ WritesAreHeld /\ ReadsAreHeld
  /\ ReadersOrWriter /\ ReliesOnAHold /\ StableWhileHeld

(***************************************************************************)
(* The promise.  An upgrade or downgrade under way still holds its read:   *)
(* the gateway keeps everyone else from writing meanwhile.                 *)
(***************************************************************************)
AbsHold ==
  [t \in Tasks |->
     CASE pc[t] \in {"up", "upgrading", "downgrading"} -> "read"
       [] pc[t] \in {"write", "rev"} -> "write"
       [] pc[t] \in {"up_inner", "w_inner", "try_write", "try_up", "target",
                     "rev_wait", "drop_outer"} -> "gate"
       [] OTHER -> "none"]

AbsOn == [t \in Tasks |-> IF AbsHold[t] \in {"read", "write"} THEN rev[t] ELSE None]

AbsRiding == [t \in Tasks |-> {r \in Revs : <<t, "ride">> \in rd[r]}]

Promise ==
  INSTANCE TransformableLock WITH
    Contents <- 0 .. Changes, hold <- AbsHold, on <- AbsOn, riding <- AbsRiding

(* The bridge behaves as the lock it promises to be.                       *)
Refines == Promise!PromiseSpec
=============================================================================
