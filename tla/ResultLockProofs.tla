-------------------------- MODULE ResultLockProofs --------------------------
(***************************************************************************)
(* The locks of a result, for every value of the constants: first the      *)
(* gateway and the revision locks, and that they keep TransformableLock's  *)
(* promise; then the slot through which requests share one riding read.    *)
(***************************************************************************)
EXTENDS ResultLock, GuardSlot, TLAPS

(* Few leaves need arithmetic: those name SMT.                             *)
USE Zenon

(* The initial states satisfy the invariant.                               *)
LEMMA InitInv == Init => LockInv
  BY LockAssumption, SMT
  DEF Init, LockInv, TypeOK, GatewayIsHeld, WritesAreHeld, ReadsAreHeld, ReadersOrWriter,
      ReliesOnAHold, StableWhileHeld, Gated, Pcs, Waits

(* Asking for a revision moves a task that holds none.                     *)
LEMMA AskRevisionInv ==
  ASSUME NEW t \in Tasks, NEW r \in Revs, LockInv, AskRevision(t, r)
  PROVE  LockInv'
<1>1. pc[t] = "target" /\ pc' = [pc EXCEPT ![t] = "rev_wait"] /\ rev' = [rev EXCEPT ![t] = r]
  BY DEF AskRevision, At
<1>2. outer' = outer /\ rd' = rd /\ wr' = wr /\ content' = content /\ seen' = seen
  BY DEF AskRevision, locks
<1>3. \A q \in Revs : <<t, "up">> \notin rd[q] /\ <<t, "ride">> \notin rd[q] /\ wr[q] # t
  BY <1>1 DEF LockInv, ReadsAreHeld, WritesAreHeld, Announced
<1>4. seen[t] = None
  BY <1>1, <1>3 DEF LockInv, ReliesOnAHold
<1>5. TypeOK'
  BY <1>1, <1>2, SMT DEF LockInv, TypeOK, AskRevision, Pcs, Waits
<1>6. GatewayIsHeld'
  BY <1>1, <1>2 DEF LockInv, TypeOK, GatewayIsHeld, Gated
<1>7. WritesAreHeld'
  BY <1>1, <1>2, <1>3, SMT DEF LockInv, TypeOK, WritesAreHeld, Announced
<1>8. ReadsAreHeld'
  <2> SUFFICES ASSUME NEW u \in Tasks, NEW q \in Revs
               PROVE  /\ <<u, "up">> \in rd[q] <=> pc'[u] = "up" /\ rev'[u] = q
                      /\ <<u, "ride">> \in rd[q] =>
                           rev'[u] = q /\ pc'[u] \in {"idle", "up", "drop_outer"}
    BY <1>2 DEF ReadsAreHeld
  <2>1. CASE u = t
    BY <2>1, <1>1, <1>3 DEF LockInv, TypeOK
  <2>2. CASE u # t
    BY <2>2, <1>1, SMT DEF LockInv, TypeOK, ReadsAreHeld
  <2> QED
    BY <2>1, <2>2
<1>9. ReliesOnAHold' /\ StableWhileHeld'
  BY <1>1, <1>2, <1>4, SMT DEF LockInv, TypeOK, ReliesOnAHold, StableWhileHeld
<1> QED
  BY <1>2, <1>5, <1>6, <1>7, <1>8, <1>9 DEF LockInv, ReadersOrWriter

(* A guard lets go of its half of the revision: a read or the write.       *)
LEMMA DropInnerInv ==
  ASSUME NEW t \in Tasks, LockInv, DropInner(t)
  PROVE  LockInv'
<1>1. pc[t] \in {"up", "write"} /\ pc' = [pc EXCEPT ![t] = "drop_outer"] /\ rev[t] \in Revs
  BY DEF DropInner, At, LockInv, WritesAreHeld
<1>2. outer' = outer /\ rev' = rev /\ content' = content
  BY DEF DropInner
<1>3. /\ rd' \in [Revs -> SUBSET (Tasks \X {"up", "ride"})]
      /\ \A q \in Revs : \A x : x \in rd'[q] <=> x \in rd[q] /\ x # <<t, "up">>
  <2>1. CASE pc[t] = "up"
    <3>1. rd' = [rd EXCEPT ![rev[t]] = @ \ {<<t, "up">>}]
      BY <2>1 DEF DropInner, At, DropUpRead
    <3>2. \A q \in Revs \ {rev[t]} : <<t, "up">> \notin rd[q]
      BY <2>1 DEF LockInv, ReadsAreHeld
    <3> QED
      BY <1>1, <3>1, <3>2 DEF LockInv, TypeOK
  <2>2. CASE pc[t] = "write"
    <3>1. rd' = rd
      BY <2>2 DEF DropInner, At
    <3>2. \A q \in Revs : <<t, "up">> \notin rd[q]
      BY <2>2 DEF LockInv, ReadsAreHeld
    <3> QED
      BY <3>1, <3>2 DEF LockInv, TypeOK
  <2> QED
    BY <1>1, <2>1, <2>2
<1>4. /\ wr' \in [Revs -> Tasks \cup {None}]
      /\ \A q \in Revs : wr'[q] = IF wr[q] = t THEN None ELSE wr[q]
  <2>1. CASE pc[t] = "up"
    BY <2>1, <1>1 DEF DropInner, At, LockInv, TypeOK, WritesAreHeld, Announced
  <2>2. CASE pc[t] = "write"
    BY <2>2, <1>1, SMT DEF DropInner, At, DropWrite, LockInv, TypeOK, WritesAreHeld
  <2> QED
    BY <1>1, <2>1, <2>2
<1>5. seen' = [seen EXCEPT ![t] = IF Rides(t) THEN @ ELSE None]
  BY DEF DropInner, Forget, LockInv, TypeOK
<1>6. TypeOK'
  BY <1>1, <1>2, <1>3, <1>4, <1>5 DEF LockInv, TypeOK, DropInner, Pcs, Waits
<1>7. GatewayIsHeld'
  BY <1>1, <1>2 DEF LockInv, TypeOK, GatewayIsHeld, Gated
<1>8. WritesAreHeld'
  BY <1>1, <1>2, <1>4, LockAssumption, SMT DEF LockInv, TypeOK, WritesAreHeld
<1>9. ReadsAreHeld'
  <2> SUFFICES ASSUME NEW u \in Tasks, NEW q \in Revs
               PROVE  /\ <<u, "up">> \in rd'[q] <=> pc'[u] = "up" /\ rev[u] = q
                      /\ <<u, "ride">> \in rd'[q] =>
                           rev[u] = q /\ pc'[u] \in {"idle", "up", "drop_outer"}
    BY <1>2 DEF ReadsAreHeld
  <2>1. CASE u = t
    BY <2>1, <1>1, <1>3, SMT DEF LockInv, TypeOK, ReadsAreHeld
  <2>2. CASE u # t
    <3>1. pc'[u] = pc[u] /\ <<u, "up">> # <<t, "up">> /\ <<u, "ride">> # <<t, "up">>
      BY <2>2, <1>1 DEF LockInv, TypeOK
    <3> QED
      BY <3>1, <1>3, SMT DEF LockInv, ReadsAreHeld
  <2> QED
    BY <2>1, <2>2
<1>10. ReadersOrWriter'
  BY <1>3, <1>4, LockAssumption DEF LockInv, ReadersOrWriter
<1>11. ReliesOnAHold'
  <2> SUFFICES ASSUME NEW u \in Tasks, seen'[u] # None
               PROVE  /\ rev[u] \in Revs
                      /\ \/ pc'[u] \in {"up", "write", "rev", "upgrading", "downgrading"}
                         \/ <<u, "ride">> \in rd'[rev[u]]
    BY <1>2 DEF ReliesOnAHold
  <2>1. CASE u = t
    <3>1. Rides(t)
      BY <2>1, <1>5 DEF LockInv, TypeOK
    <3>2. <<t, "ride">> \in rd[rev[t]]
      BY <3>1 DEF Rides, LockInv, ReadsAreHeld
    <3> QED
      BY <2>1, <1>1, <1>3, <3>2
  <2>2. CASE u # t
    BY <2>2, <1>1, <1>3, <1>5 DEF LockInv, TypeOK, ReliesOnAHold
  <2> QED
    BY <2>1, <2>2
<1>12. StableWhileHeld'
  BY <1>2, <1>5 DEF LockInv, TypeOK, StableWhileHeld
<1> QED
  BY <1>6, <1>7, <1>8, <1>9, <1>10, <1>11, <1>12 DEF LockInv

(* A rider alights.                                                        *)
LEMMA DropRideInv ==
  ASSUME NEW t \in Tasks, LockInv, DropRide(t)
  PROVE  LockInv'
<1>1. pc[t] = "idle" /\ rev[t] \in Revs
  BY DEF DropRide, Rides, LockInv, ReadsAreHeld
<1>2. UNCHANGED <<outer, wr, pc, rev, content, ops>> /\ seen' = [seen EXCEPT ![t] = None]
  BY DEF DropRide, Forget
<1>3. /\ rd' \in [Revs -> SUBSET (Tasks \X {"up", "ride"})]
      /\ \A q \in Revs : \A x : x \in rd'[q] <=> x \in rd[q] /\ x # <<t, "ride">>
  <2>1. \A q \in Revs \ {rev[t]} : <<t, "ride">> \notin rd[q]
    BY DEF LockInv, ReadsAreHeld
  <2>2. rd' = [rd EXCEPT ![rev[t]] = @ \ {<<t, "ride">>}]
    BY DEF DropRide
  <2> QED
    BY <1>1, <2>1, <2>2 DEF LockInv, TypeOK
<1>4. TypeOK' /\ GatewayIsHeld' /\ WritesAreHeld'
  BY <1>2, <1>3 DEF LockInv, TypeOK, GatewayIsHeld, WritesAreHeld
<1>5. ReadsAreHeld' /\ ReadersOrWriter'
  BY <1>2, <1>3, SMT DEF LockInv, ReadsAreHeld, ReadersOrWriter
<1>6. ReliesOnAHold'
  BY <1>2, <1>3, SMT DEF LockInv, TypeOK, ReliesOnAHold
<1>7. StableWhileHeld'
  BY <1>2 DEF LockInv, TypeOK, StableWhileHeld
<1> QED
  BY <1>4, <1>5, <1>6, <1>7 DEF LockInv

(* The entry changes under its exclusive holder, and nobody else relies on *)
(* it: a rider keeps the holder out, anyone else has no gateway.           *)
LEMMA ChangeInv ==
  ASSUME NEW t \in Tasks, LockInv, Change(t)
  PROVE  LockInv'
<1>1. /\ pc[t] \in {"write", "rev"} /\ rev[t] \in Revs /\ wr[rev[t]] = t
      /\ content' = [content EXCEPT ![rev[t]] = @ + 1]
      /\ seen' = [seen EXCEPT ![t] = content[rev[t]] + 1]
      /\ UNCHANGED <<outer, rd, wr, pc, rev, ops>>
  BY DEF Change, locks, LockInv, WritesAreHeld
<1>2. ASSUME NEW u \in Tasks, u # t, seen[u] # None PROVE rev[u] # rev[t]
  <2>1. pc[u] \notin Gated
    BY <1>1, <1>2 DEF LockInv, GatewayIsHeld, Gated
  <2>2. <<u, "ride">> \in rd[rev[u]]
    BY <1>2, <2>1 DEF LockInv, ReliesOnAHold, Gated
  <2>3. rd[rev[t]] = {}
    BY <1>1, LockAssumption DEF LockInv, ReadersOrWriter
  <2> QED
    BY <2>2, <2>3
<1>3. TypeOK'
  BY <1>1, SMT DEF LockInv, TypeOK
<1>4. GatewayIsHeld' /\ WritesAreHeld' /\ ReadsAreHeld' /\ ReadersOrWriter'
  BY <1>1, SMT DEF LockInv, GatewayIsHeld, WritesAreHeld, ReadsAreHeld, ReadersOrWriter
<1>5. ReliesOnAHold'
  BY <1>1 DEF LockInv, TypeOK, ReliesOnAHold
<1>6. StableWhileHeld'
  BY <1>1, <1>2 DEF LockInv, TypeOK, StableWhileHeld, ReliesOnAHold
<1> QED
  BY <1>3, <1>4, <1>5, <1>6 DEF LockInv

(* Every step of every task keeps it.                                      *)
LEMMA StepInv == LockInv /\ [Next]_vars => LockInv'
<1> SUFFICES ASSUME LockInv, [Next]_vars PROVE LockInv'
  OBVIOUS
<1> USE LockAssumption
    DEF LockInv, TypeOK, GatewayIsHeld, WritesAreHeld, ReadsAreHeld, ReadersOrWriter,
        ReliesOnAHold, StableWhileHeld, Gated, Pcs, Waits, locks, Probes, Announced
<1>1. ASSUME NEW t \in Tasks, Probed(t) PROVE LockInv'
  BY <1>1, SMTT(30) DEF Probed, DropWrite
<1>2. ASSUME NEW t \in Tasks, NEW r \in Revs, ~Probes(t),
            NEW w \in {"read", "up_outer", "w_outer", "t_outer"}, Call(t, r, w)
      PROVE LockInv'
  BY <1>2, SMTT(30) DEF Call, At, Rides
<1>3. ASSUME NEW t \in Tasks, NEW r \in Revs, ~Probes(t),
            NEW n \in {"try_write", "try_up", "target"}, TryOuter(t, r, n)
      PROVE LockInv'
  BY <1>3, SMTT(30) DEF TryOuter, At, Rides
<1>4. ASSUME NEW t \in Tasks, NEW r \in Revs, ~Probes(t), AskRevision(t, r) PROVE LockInv'
  BY <1>4, AskRevisionInv, SMT
<1>5. ASSUME NEW t \in Tasks, NEW r \in Revs, ~Probes(t), TryWriteRevision(t, r) PROVE LockInv'
  BY <1>5, SMTT(30) DEF TryWriteRevision, At, InnerWrite, FreeToWrite, Rely
<1>6. ASSUME NEW t \in Tasks, ~Probes(t), Read(t) PROVE LockInv'
  BY <1>6, SMTT(30) DEF Read, At, InnerRead, FreeToRead, Rely
<1>7. ASSUME NEW t \in Tasks, ~Probes(t), Outer(t) PROVE LockInv'
  BY <1>7, SMTT(30) DEF Outer, At
<1>8. ASSUME NEW t \in Tasks, ~Probes(t), TryInner(t) PROVE LockInv'
  BY <1>8, SMTT(30) DEF TryInner, At, InnerRead, InnerWrite, FreeToRead, FreeToWrite, Rely
<1>9. ASSUME NEW t \in Tasks, ~Probes(t), Inner(t) PROVE LockInv'
  BY <1>9, SMTT(30) DEF Inner, At, InnerRead, InnerWrite, FreeToRead, FreeToWrite, Rely
<1>10. ASSUME NEW t \in Tasks, ~Probes(t), WriteRevision(t) PROVE LockInv'
  BY <1>10, SMTT(30) DEF WriteRevision, At, InnerWrite, FreeToWrite, Rely
<1>11. ASSUME NEW t \in Tasks, ~Probes(t), DropRevision(t) PROVE LockInv'
  BY <1>11, SMTT(30) DEF DropRevision, At, DropWrite, Forget
<1>12. ASSUME NEW t \in Tasks, ~Probes(t), DropInner(t) PROVE LockInv'
  BY <1>12, DropInnerInv, SMT
<1>13. ASSUME NEW t \in Tasks, ~Probes(t), DropOuter(t) PROVE LockInv'
  BY <1>13, SMTT(30) DEF DropOuter, At
<1>14. ASSUME NEW t \in Tasks, ~Probes(t), DropRide(t) PROVE LockInv'
  BY <1>14, DropRideInv, SMT
<1>15. ASSUME NEW t \in Tasks, ~Probes(t), Probe(t) PROVE LockInv'
  BY <1>15, SMTT(30) DEF Probe, InnerWrite, FreeToWrite
<1>16. ASSUME NEW t \in Tasks, ~Probes(t), Upgrade(t) PROVE LockInv'
  BY <1>16, SMTT(30) DEF Upgrade, At, DropUpRead, Rides
<1>17. ASSUME NEW t \in Tasks, ~Probes(t), Downgrade(t) PROVE LockInv'
  BY <1>17, SMTT(30) DEF Downgrade, At, DropWrite
<1>18. ASSUME NEW t \in Tasks, ~Probes(t), HandOff(t) PROVE LockInv'
  BY <1>18, SMTT(30) DEF HandOff, InnerRead, FreeToRead, Rides
<1>19. ASSUME NEW t \in Tasks, ~Probes(t), Cancel(t) PROVE LockInv'
  BY <1>19, SMTT(30) DEF Cancel, At, Forget
<1>20. ASSUME NEW t \in Tasks, ~Probes(t), Change(t) PROVE LockInv'
  BY <1>20, ChangeInv, SMT
<1>21. CASE UNCHANGED vars
  BY <1>21, SMT DEF vars
<1> HIDE DEF LockInv, Probes
<1> QED
  BY <1>1, <1>2, <1>3, <1>4, <1>5, <1>6, <1>7, <1>8, <1>9, <1>10, <1>11, <1>12, <1>13,
     <1>14, <1>15, <1>16, <1>17, <1>18, <1>19, <1>20, <1>21
  DEF Next, Granted, Released

(* The invariant holds in every reachable state.                           *)
THEOREM LockInvariant == Spec => []LockInv
<1>1. Init => LockInv
  BY InitInv
<1>2. LockInv /\ [Next]_vars => LockInv'
  BY StepInv
<1> QED
  BY <1>1, <1>2, PTL DEF Spec

(* An entry never changes under somebody who relies on it, through         *)
(* upgrades, downgrades, hand-offs and cancelled waits.                    *)
THEOREM EntriesAreStable == Spec => []StableWhileHeld
<1>1. LockInv => StableWhileHeld
  BY DEF LockInv
<1> QED
  BY <1>1, LockInvariant, PTL

(* One task at a time builds or deletes, whichever the revisions.          *)
THEOREM OneBuilderPerTarget == Spec => []OneBuilder
<1>1. LockInv => OneBuilder
  BY DEF LockInv, GatewayIsHeld, OneBuilder, Gated
<1> QED
  BY <1>1, LockInvariant, PTL

(* The reads taken under the gateway, by a downgrade and by the hand-off,  *)
(* queue behind no writer, and wait for nobody but a probe.                *)
THEOREM GatewayNeverWaits == Spec => []GatewayReadsAtOnce
<1>1. LockInv => GatewayReadsAtOnce
  <2> SUFFICES ASSUME LockInv, NEW t \in Tasks, pc[t] \in {"up", "downgrading"}
               PROVE  /\ ~WriterWaits(rev[t])
                      /\ wr[rev[t]] # None => Probes(wr[rev[t]])
    BY DEF GatewayReadsAtOnce
  <2>1. outer = t /\ rev[t] \in Revs
    BY DEF LockInv, GatewayIsHeld, WritesAreHeld, Gated
  <2>2. ASSUME NEW u \in Tasks, pc[u] \in Gated PROVE u = t
    BY <2>1, <2>2 DEF LockInv, GatewayIsHeld
  <2>3. ~WriterWaits(rev[t])
    BY <2>2 DEF WriterWaits, Gated
  <2>4. ASSUME wr[rev[t]] # None PROVE Probes(wr[rev[t]])
    <3>1. wr[rev[t]] \in Tasks
      BY <2>1, <2>4 DEF LockInv, TypeOK
    <3>2. pc[wr[rev[t]]] \in Announced \cup {"write", "rev"} /\ rev[wr[rev[t]]] = rev[t]
      BY <2>1, <3>1, SMT DEF LockInv, WritesAreHeld
    <3>3. pc[wr[rev[t]]] \notin {"write", "rev"}
      BY <2>2, <3>1 DEF Gated
    <3> QED BY <3>2, <3>3 DEF Probes
  <2> QED BY <2>3, <2>4
<1> QED
  BY <1>1, LockInvariant, PTL

-----------------------------------------------------------------------------
(* The bridge implements the promise.  What a task holds is read off its   *)
(* pc, and what it rides off the shared holds.                             *)
AbsShape ==
  /\ AbsHold \in [Tasks -> {"none", "gate", "read", "write"}]
  /\ AbsOn \in [Tasks -> Revs \cup {None}]
  /\ AbsRiding \in [Tasks -> SUBSET Revs]
  /\ \A t \in Tasks :
       /\ AbsHold[t] = "read" <=> pc[t] \in {"up", "upgrading", "downgrading"}
       /\ AbsHold[t] = "write" <=> pc[t] \in {"write", "rev"}
       /\ AbsHold[t] = "none" <=> pc[t] \notin Gated
       /\ AbsOn[t] = IF AbsHold[t] \in {"read", "write"} THEN rev[t] ELSE None
       /\ AbsRiding[t] = {r \in Revs : <<t, "ride">> \in rd[r]}

(* In a state of the invariant the mapping has this shape.                 *)
LEMMA AbsShaped == LockInv => AbsShape
  BY SMT DEF AbsShape, AbsHold, AbsOn, AbsRiding, LockInv, TypeOK, Pcs, Waits, Gated

(* The same of the state after the step.                                   *)
LEMMA AbsShapedNext == LockInv' => AbsShape'
  BY AbsShaped, PTL

(* The steps of the promise, as changes of what one task holds.            *)
Moves(t, hold, on) ==
  /\ AbsHold' = [AbsHold EXCEPT ![t] = hold]
  /\ AbsOn' = [AbsOn EXCEPT ![t] = on]

(* A step of t moves t's hold only.                                        *)
LEMMA AbsMoves ==
  ASSUME LockInv, LockInv', NEW t \in Tasks,
         \A u \in Tasks \ {t} : pc'[u] = pc[u] /\ rev'[u] = rev[u]
  PROVE  Moves(t, AbsHold'[t], AbsOn'[t])
  BY DEF Moves, AbsHold, AbsOn

(* A step that takes and drops no plain read leaves the riders.            *)
LEMMA RidersStay ==
  ASSUME \A u \in Tasks, r \in Revs : <<u, "ride">> \in rd'[r] <=> <<u, "ride">> \in rd[r]
  PROVE  AbsRiding' = AbsRiding
  BY DEF AbsRiding

(* What t holds before and after a step of its own that leaves entries and *)
(* riders alone says which step of the promise it is.                      *)
LEMMA HoldSteps ==
  ASSUME LockInv, LockInv', NEW t \in Tasks,
         \A u \in Tasks \ {t} : pc'[u] = pc[u] /\ rev'[u] = rev[u],
         \A u \in Tasks, r \in Revs : <<u, "ride">> \in rd'[r] <=> <<u, "ride">> \in rd[r],
         content' = content,
         \/ AbsHold'[t] = AbsHold[t] /\ AbsOn'[t] = AbsOn[t]
         \/ outer = None /\ AbsHold'[t] = "gate"
         \/ AbsHold[t] = "gate" /\ AbsHold'[t] = "read" /\ rev'[t] \in Revs
         \/ AbsHold[t] = "write" /\ AbsHold'[t] = "read" /\ rev'[t] = rev[t]
         \/ AbsHold[t] \in {"read", "write"} /\ AbsHold'[t] = "gate"
         \/ AbsHold[t] = "gate" /\ AbsHold'[t] = "none"
         \/ /\ AbsHold[t] = "gate" \/ (AbsHold[t] = "read" /\ rev'[t] = rev[t])
            /\ AbsHold'[t] = "write" /\ rev'[t] \in Revs /\ rd[rev'[t]] = {}
  PROVE  [Promise!PromiseNext]_(Promise!absVars)
<1>1. AbsShape /\ AbsShape'
  BY AbsShaped, AbsShapedNext
<1>2. Moves(t, AbsHold'[t], AbsOn'[t]) /\ AbsRiding' = AbsRiding
  BY AbsMoves, RidersStay
<1> DEFINE lock == {"read", "write"}
<1>a. AbsOn'[t] = AbsOn[t] => AbsOn' = AbsOn
  BY <1>1, <1>2, SMT DEF Moves, AbsShape
<1>b. /\ AbsOn[t] = IF AbsHold[t] \in lock THEN rev[t] ELSE None
      /\ AbsOn'[t] = IF AbsHold'[t] \in lock THEN rev'[t] ELSE None
  BY <1>1 DEF AbsShape
<1>3. CASE AbsHold'[t] = AbsHold[t] /\ AbsOn'[t] = AbsOn[t]
  <2>1. AbsHold' = AbsHold /\ AbsOn' = AbsOn
    BY <1>1, <1>2, <1>3, <1>a, SMT DEF Moves, AbsShape
  <2> QED BY <1>2, <2>1 DEF Promise!absVars, Promise!lockVars
<1>4. CASE outer = None /\ AbsHold'[t] = "gate"
  <2>1. \A u \in Tasks : AbsHold[u] = "none"
    BY <1>1, <1>4, LockAssumption DEF LockInv, GatewayIsHeld, AbsShape
  <2>2. AbsOn' = AbsOn
    BY <1>4, <1>a, <1>b, <2>1
  <2>3. Promise!Gate(t)
    BY <1>2, <1>4, <2>1, <2>2 DEF Promise!Gate, Moves
  <2> QED BY <2>3 DEF Promise!PromiseNext, Promise!LockStep
<1>5. CASE AbsHold[t] = "gate" /\ AbsHold'[t] = "read" /\ rev'[t] \in Revs
  <2>1. Promise!Share(t, rev'[t])
    BY <1>1, <1>2, <1>5 DEF Promise!Share, Moves, AbsShape
  <2> QED BY <1>5, <2>1 DEF Promise!PromiseNext, Promise!LockStep
<1>6. CASE AbsHold[t] = "write" /\ AbsHold'[t] = "read" /\ rev'[t] = rev[t]
  <2>1. AbsOn' = AbsOn
    BY <1>6, <1>a, <1>b
  <2>2. Promise!Demote(t)
    BY <1>1, <1>2, <1>6, <2>1 DEF Promise!Demote, Moves
  <2> QED BY <2>2 DEF Promise!PromiseNext, Promise!LockStep
<1>7. CASE AbsHold[t] \in {"read", "write"} /\ AbsHold'[t] = "gate"
  <2>1. Promise!LetGo(t)
    BY <1>1, <1>2, <1>7 DEF Promise!LetGo, Moves, AbsShape
  <2> QED BY <2>1 DEF Promise!PromiseNext, Promise!LockStep
<1>8. CASE AbsHold[t] = "gate" /\ AbsHold'[t] = "none"
  <2>1. AbsOn' = AbsOn
    BY <1>8, <1>a, <1>b
  <2>2. Promise!Ungate(t)
    BY <1>1, <1>2, <1>8, <2>1 DEF Promise!Ungate, Moves
  <2> QED BY <2>2 DEF Promise!PromiseNext, Promise!LockStep
<1>9. CASE /\ AbsHold[t] = "gate" \/ (AbsHold[t] = "read" /\ rev'[t] = rev[t])
           /\ AbsHold'[t] = "write" /\ rev'[t] \in Revs /\ rd[rev'[t]] = {}
  <2>1. ~Promise!Ridden(rev'[t])
    <3>1. \A u \in Tasks : AbsRiding[u] = {r \in Revs : <<u, "ride">> \in rd[r]}
      BY <1>1, SMT DEF AbsShape
    <3>2. \A u \in Tasks : rev'[t] \notin AbsRiding[u]
      BY <1>9, <3>1
    <3> QED BY <3>2 DEF Promise!Ridden
  <2>2. Promise!Exclude(t, rev'[t])
    BY <1>1, <1>2, <1>9, <2>1 DEF Promise!Exclude, Moves, AbsShape
  <2> QED BY <1>9, <2>2 DEF Promise!PromiseNext, Promise!LockStep
<1> QED
  BY <1>3, <1>4, <1>5, <1>6, <1>7, <1>8, <1>9

(* The places of a task that holds the gateway and no revision.            *)
Waiting == {"up_inner", "w_inner", "try_write", "try_up", "target", "rev_wait", "drop_outer"}

(* A step of t's that leaves entries and riders alone, by t's places.      *)
LEMMA PlaceSteps ==
  ASSUME LockInv, LockInv', NEW t \in Tasks, NEW p, NEW q, NEW r,
         pc[t] = p, pc' = [pc EXCEPT ![t] = q], rev' = [rev EXCEPT ![t] = r],
         \A u \in Tasks, v \in Revs : <<u, "ride">> \in rd'[v] <=> <<u, "ride">> \in rd[v],
         content' = content,
         \/ p \notin Gated /\ q \notin Gated
         \/ p \in Waiting /\ q \in Waiting
         \/ p \in {"up", "upgrading", "downgrading"} /\ r = rev[t]
            /\ q \in {"up", "upgrading", "downgrading"}
         \/ outer = None /\ q \in Waiting
         \/ p \in Waiting /\ q = "up" /\ r \in Revs
         \/ p = "write" /\ q = "downgrading" /\ r = rev[t]
         \/ p \in {"up", "upgrading", "downgrading", "write", "rev"} /\ q \in Waiting
         \/ p \in Waiting /\ q \notin Gated
         \/ /\ p \in Waiting \/ (p = "upgrading" /\ r = rev[t])
            /\ q \in {"write", "rev"} /\ r \in Revs /\ rd[r] = {}
  PROVE  [Promise!PromiseNext]_(Promise!absVars)
<1>1. pc'[t] = q /\ rev'[t] = r
  BY DEF LockInv, TypeOK
<1>2. \A u \in Tasks \ {t} : pc'[u] = pc[u] /\ rev'[u] = rev[u]
  BY DEF LockInv, TypeOK
<1>3. /\ AbsHold[t] = "read" <=> p \in {"up", "upgrading", "downgrading"}
      /\ AbsHold[t] = "write" <=> p \in {"write", "rev"}
      /\ AbsHold[t] = "none" <=> p \notin Gated
      /\ AbsHold[t] = "gate" <=> p \in Waiting
  BY AbsShaped DEF AbsShape, Gated, Waiting
<1>4. /\ AbsHold'[t] = "read" <=> q \in {"up", "upgrading", "downgrading"}
      /\ AbsHold'[t] = "write" <=> q \in {"write", "rev"}
      /\ AbsHold'[t] = "none" <=> q \notin Gated
      /\ AbsHold'[t] = "gate" <=> q \in Waiting
  BY <1>1, AbsShapedNext DEF AbsShape, Gated, Waiting
<1>5. /\ AbsOn[t] = IF AbsHold[t] \in {"read", "write"} THEN rev[t] ELSE None
      /\ AbsOn'[t] = IF AbsHold'[t] \in {"read", "write"} THEN r ELSE None
  BY <1>1, AbsShaped, AbsShapedNext DEF AbsShape
<1>6. \/ AbsHold'[t] = AbsHold[t] /\ AbsOn'[t] = AbsOn[t]
      \/ outer = None /\ AbsHold'[t] = "gate"
      \/ AbsHold[t] = "gate" /\ AbsHold'[t] = "read" /\ rev'[t] \in Revs
      \/ AbsHold[t] = "write" /\ AbsHold'[t] = "read" /\ rev'[t] = rev[t]
      \/ AbsHold[t] \in {"read", "write"} /\ AbsHold'[t] = "gate"
      \/ AbsHold[t] = "gate" /\ AbsHold'[t] = "none"
      \/ /\ AbsHold[t] = "gate" \/ (AbsHold[t] = "read" /\ rev'[t] = rev[t])
         /\ AbsHold'[t] = "write" /\ rev'[t] \in Revs /\ rd[rev'[t]] = {}
  BY <1>1, <1>3, <1>4, <1>5
<1> QED
  BY <1>2, <1>6, HoldSteps

(* A step that moves a task only outside the gateway changes no hold.      *)
LEMMA HoldsStay ==
  ASSUME LockInv, LockInv', rev' = rev,
         \A u \in Tasks : pc'[u] = pc[u] \/ (pc'[u] \notin Gated /\ pc[u] \notin Gated)
  PROVE  AbsHold' = AbsHold /\ AbsOn' = AbsOn
<1>1. AbsShape /\ AbsShape'
  BY AbsShaped, AbsShapedNext
<1>2. ASSUME NEW u \in Tasks
      PROVE  AbsHold'[u] = AbsHold[u] /\ AbsOn'[u] = AbsOn[u]
  <2>1. /\ AbsHold[u] \in {"none", "gate", "read", "write"}
        /\ AbsHold[u] = "read" <=> pc[u] \in {"up", "upgrading", "downgrading"}
        /\ AbsHold[u] = "write" <=> pc[u] \in {"write", "rev"}
        /\ AbsHold[u] = "none" <=> pc[u] \notin Gated
        /\ AbsOn[u] = IF AbsHold[u] \in {"read", "write"} THEN rev[u] ELSE None
    BY <1>1 DEF AbsShape
  <2>2. /\ AbsHold'[u] \in {"none", "gate", "read", "write"}
        /\ AbsHold'[u] = "read" <=> pc'[u] \in {"up", "upgrading", "downgrading"}
        /\ AbsHold'[u] = "write" <=> pc'[u] \in {"write", "rev"}
        /\ AbsHold'[u] = "none" <=> pc'[u] \notin Gated
        /\ AbsOn'[u] = IF AbsHold'[u] \in {"read", "write"} THEN rev'[u] ELSE None
    BY <1>1 DEF AbsShape
  <2>3. AbsHold'[u] = AbsHold[u]
    BY <2>1, <2>2, SMT
  <2> QED BY <2>1, <2>2, <2>3
<1> QED
  BY <1>1, <1>2, SMT DEF AbsShape

(* A new riding read is on a revision nobody holds exclusively.            *)
LEMMA RideSteps ==
  ASSUME LockInv, LockInv', NEW t \in Tasks, Read(t) \/ HandOff(t)
  PROVE  [Promise!PromiseNext]_(Promise!absVars)
<1>1. /\ wr[rev[t]] = None /\ rev[t] \in Revs /\ rev' = rev /\ content' = content
      /\ rd' = [rd EXCEPT ![rev[t]] = @ \cup {<<t, "ride">>}]
  BY DEF Read, HandOff, At, InnerRead, FreeToRead, LockInv, WritesAreHeld
<1>2. AbsHold' = AbsHold /\ AbsOn' = AbsOn
  <2>1. \A u \in Tasks : pc'[u] = pc[u] \/ (pc'[u] \notin Gated /\ pc[u] \notin Gated)
    BY SMT DEF Read, HandOff, At, LockInv, TypeOK, Gated
  <2> QED BY <1>1, <2>1, HoldsStay
<1>3. ~Promise!Excluded(rev[t])
  <2>1. \A u \in Tasks : AbsHold[u] = "write" => wr[rev[u]] = u /\ AbsOn[u] = rev[u]
    BY AbsShaped DEF AbsShape, LockInv, WritesAreHeld
  <2> QED BY <1>1, <2>1, LockAssumption, SMT DEF Promise!Excluded
<1>4. AbsRiding' = [AbsRiding EXCEPT ![t] = @ \cup {rev[t]}]
  <2>1. \A u \in Tasks, r \in Revs : <<u, "ride">> \in rd'[r] <=>
          <<u, "ride">> \in rd[r] \/ (u = t /\ r = rev[t])
    BY <1>1 DEF LockInv, TypeOK
  <2>2. \A u \in Tasks : /\ AbsRiding[u] = {r \in Revs : <<u, "ride">> \in rd[r]}
                         /\ AbsRiding'[u] = {r \in Revs : <<u, "ride">> \in rd'[r]}
    BY AbsShaped, AbsShapedNext DEF AbsShape
  <2>3. AbsRiding'[t] = AbsRiding[t] \cup {rev[t]}
    <3>1. \A r \in Revs : r \in AbsRiding'[t] <=> r \in AbsRiding[t] \/ r = rev[t]
      BY <2>1, <2>2
    <3>2. AbsRiding[t] \subseteq Revs /\ AbsRiding'[t] \subseteq Revs
      BY <2>2
    <3> QED BY <1>1, <3>1, <3>2
  <2>4. \A u \in Tasks \ {t} : AbsRiding'[u] = AbsRiding[u]
    BY <2>1, <2>2
  <2> QED BY <2>3, <2>4, AbsShaped, AbsShapedNext DEF AbsShape
<1>5. Promise!Ride(t, rev[t])
  BY <1>2, <1>3, <1>4 DEF Promise!Ride
<1> QED
  BY <1>1, <1>5 DEF Promise!PromiseNext, Promise!LockStep

(* A riding read let go of is one the promise may let go of at any time.   *)
LEMMA AlightStep ==
  ASSUME LockInv, LockInv', NEW t \in Tasks, DropRide(t)
  PROVE  [Promise!PromiseNext]_(Promise!absVars)
<1>1. /\ rev[t] \in Revs /\ pc' = pc /\ rev' = rev /\ content' = content
      /\ rd' = [rd EXCEPT ![rev[t]] = @ \ {<<t, "ride">>}]
  BY DEF DropRide, Rides, LockInv, ReadsAreHeld
<1>2. AbsHold' = AbsHold /\ AbsOn' = AbsOn
  BY <1>1, HoldsStay
<1>3. AbsRiding' = [AbsRiding EXCEPT ![t] = @ \ {rev[t]}]
  <2>1. \A u \in Tasks, r \in Revs : <<u, "ride">> \in rd'[r] <=>
          <<u, "ride">> \in rd[r] /\ ~(u = t /\ r = rev[t])
    BY <1>1 DEF LockInv, TypeOK
  <2>2. \A u \in Tasks : /\ AbsRiding[u] = {r \in Revs : <<u, "ride">> \in rd[r]}
                         /\ AbsRiding'[u] = {r \in Revs : <<u, "ride">> \in rd'[r]}
    BY AbsShaped, AbsShapedNext DEF AbsShape
  <2>3. AbsRiding'[t] = AbsRiding[t] \ {rev[t]}
    BY <1>1, <2>1, <2>2
  <2>4. \A u \in Tasks \ {t} : AbsRiding'[u] = AbsRiding[u]
    BY <2>1, <2>2
  <2> QED BY <2>3, <2>4, AbsShaped, AbsShapedNext DEF AbsShape
<1>4. Promise!Alight(t, rev[t])
  BY <1>2, <1>3 DEF Promise!Alight
<1> QED
  BY <1>1, <1>4 DEF Promise!PromiseNext, Promise!LockStep

(* Only the exclusive holder changes an entry.                             *)
LEMMA ChangeStep ==
  ASSUME LockInv, LockInv', NEW t \in Tasks, Change(t)
  PROVE  [Promise!PromiseNext]_(Promise!absVars)
<1>1. /\ pc[t] \in {"write", "rev"} /\ pc' = pc /\ rev' = rev /\ rd' = rd
      /\ content' = [content EXCEPT ![rev[t]] = @ + 1]
      /\ content[rev[t]] < Changes /\ rev[t] \in Revs
  BY DEF Change, locks, LockInv, WritesAreHeld
<1>2. AbsHold' = AbsHold /\ AbsOn' = AbsOn
  BY <1>1, HoldsStay
<1>3. AbsRiding' = AbsRiding
  BY <1>1, RidersStay
<1>4. AbsHold[t] = "write" /\ AbsOn[t] = rev[t]
  BY <1>1, AbsShaped DEF AbsShape
<1>5. content[rev[t]] + 1 \in 0 .. Changes
  BY <1>1, LockAssumption, SMT DEF LockInv, TypeOK
<1>6. content' = [content EXCEPT ![AbsOn[t]] = content[rev[t]] + 1]
  BY <1>1, <1>4
<1>7. Promise!Change(t)
  BY <1>2, <1>3, <1>4, <1>5, <1>6 DEF Promise!Change, Promise!lockVars
<1> QED
  BY <1>7 DEF Promise!PromiseNext

(* An upgradable read taken or dropped leaves the riders alone.            *)
LEMMA UpReadsRideNot ==
  ASSUME LockInv, NEW t \in Tasks, rev[t] \in Revs,
         rd' = rd \/ InnerRead(t, rev[t], "up") \/ DropUpRead(t)
  PROVE  \A u \in Tasks, v \in Revs : <<u, "ride">> \in rd'[v] <=> <<u, "ride">> \in rd[v]
<1>1. CASE rd' = rd
  BY <1>1
<1>2. CASE InnerRead(t, rev[t], "up")
  BY <1>2 DEF LockInv, TypeOK, InnerRead
<1>3. CASE DropUpRead(t)
  BY <1>3 DEF LockInv, TypeOK, DropUpRead
<1> QED
  BY <1>1, <1>2, <1>3

(* The steps that move a task and name a new revision.                     *)
LEMMA NamingSteps ==
  ASSUME LockInv, LockInv', NEW t \in Tasks, NEW r \in Revs,
         \/ \E w \in {"read", "up_outer", "w_outer", "t_outer"} : Call(t, r, w)
         \/ \E n \in {"try_write", "try_up", "target"} : TryOuter(t, r, n)
         \/ AskRevision(t, r) \/ TryWriteRevision(t, r)
  PROVE  [Promise!PromiseNext]_(Promise!absVars)
<1>1. PICK q : pc' = [pc EXCEPT ![t] = q] /\ rev' = [rev EXCEPT ![t] = r]
               /\ rd' = rd /\ content' = content
               /\ \/ pc[t] = "idle" /\ q \in {"read", "up_outer", "w_outer", "t_outer"}
                  \/ outer = None /\ q \in {"try_write", "try_up", "target"}
                  \/ pc[t] = "target" /\ q = "rev_wait"
                  \/ pc[t] = "target" /\ q = "rev" /\ rd[r] = {}
  BY DEF Call, TryOuter, AskRevision, TryWriteRevision, At, locks, InnerWrite, FreeToWrite
<1> DEFINE p == pc[t]
<1>2. \/ p \notin Gated /\ q \notin Gated
      \/ p \in Waiting /\ q \in Waiting
      \/ outer = None /\ q \in Waiting
      \/ p \in Waiting /\ q \in {"write", "rev"} /\ rd[r] = {}
  BY <1>1 DEF Gated, Waiting
<1> QED
  BY <1>1, <1>2, PlaceSteps

(* The steps that move a task at its own revision.                         *)
LEMMA OwnSteps ==
  ASSUME LockInv, LockInv', NEW t \in Tasks,
         \/ Outer(t) \/ TryInner(t) \/ Inner(t) \/ WriteRevision(t) \/ Upgrade(t)
         \/ Downgrade(t) \/ DropRevision(t) \/ DropInner(t) \/ DropOuter(t) \/ Cancel(t)
  PROVE  [Promise!PromiseNext]_(Promise!absVars)
<1>1. rev' = rev /\ content' = content
  BY DEF Outer, TryInner, Inner, WriteRevision, Upgrade, Downgrade, DropRevision, DropInner,
         DropOuter, Cancel
<1>2. rev' = [rev EXCEPT ![t] = rev[t]]
  BY <1>1 DEF LockInv, TypeOK
<1>3. pc[t] # "idle" /\ rev[t] \in Revs
  BY DEF Outer, TryInner, Inner, WriteRevision, Upgrade, Downgrade, DropRevision, DropInner,
         DropOuter, Cancel, At, LockInv, WritesAreHeld
<1>4. rd' = rd \/ InnerRead(t, rev[t], "up") \/ DropUpRead(t)
  BY DEF Outer, TryInner, Inner, WriteRevision, Upgrade, Downgrade, DropRevision, DropInner,
         DropOuter, Cancel, locks
<1>5. PICK q : pc' = [pc EXCEPT ![t] = q] /\
        \/ pc[t] \in {"read", "up_outer", "w_outer", "t_outer"} /\ q = "idle"
        \/ pc[t] \in Waiting /\ q \in {"drop_outer", "target"}
        \/ pc[t] \in {"up", "downgrading"} /\ q \in {"upgrading", "up"}
        \/ outer = None /\ q \in {"up_inner", "w_inner", "target"}
        \/ pc[t] \in Waiting /\ q = "up"
        \/ pc[t] = "write" /\ q = "downgrading"
        \/ /\ pc[t] \in {"up", "upgrading", "downgrading", "write", "rev"}
           /\ q \in {"drop_outer", "target"}
        \/ pc[t] \in Waiting /\ q = "idle"
        \/ /\ pc[t] \in Waiting \/ pc[t] = "upgrading"
           /\ q \in {"write", "rev"} /\ rd[rev[t]] = {}
  <2>1. CASE Outer(t) \/ DropOuter(t)
    BY <2>1 DEF Outer, DropOuter, At, Waiting
  <2>2. CASE TryInner(t)
    BY <2>2 DEF TryInner, At, InnerWrite, FreeToWrite, Waiting
  <2>3. CASE Inner(t)
    BY <2>3 DEF Inner, At, InnerWrite, FreeToWrite, Waiting
  <2>4. CASE WriteRevision(t)
    BY <2>4 DEF WriteRevision, At, InnerWrite, FreeToWrite, Waiting
  <2>5. CASE Upgrade(t) \/ Downgrade(t) \/ DropRevision(t) \/ DropInner(t)
    BY <2>5 DEF Upgrade, Downgrade, DropRevision, DropInner, At
  <2>6. CASE Cancel(t)
    BY <2>6 DEF Cancel, At, Waiting
  <2> QED
    BY <2>1, <2>2, <2>3, <2>4, <2>5, <2>6
<1>6. \A u \in Tasks, v \in Revs : <<u, "ride">> \in rd'[v] <=> <<u, "ride">> \in rd[v]
  BY <1>3, <1>4, UpReadsRideNot
<1> DEFINE p == pc[t]
<1> DEFINE r == rev[t]
<1>7. \/ p \notin Gated /\ q \notin Gated
      \/ p \in Waiting /\ q \in Waiting
      \/ p \in {"up", "upgrading", "downgrading"} /\ r = rev[t]
         /\ q \in {"up", "upgrading", "downgrading"}
      \/ outer = None /\ q \in Waiting
      \/ p \in Waiting /\ q = "up" /\ r \in Revs
      \/ p = "write" /\ q = "downgrading" /\ r = rev[t]
      \/ p \in {"up", "upgrading", "downgrading", "write", "rev"} /\ q \in Waiting
      \/ p \in Waiting /\ q \notin Gated
      \/ /\ p \in Waiting \/ (p = "upgrading" /\ r = rev[t])
         /\ q \in {"write", "rev"} /\ r \in Revs /\ rd[r] = {}
  BY <1>3, <1>5 DEF Gated, Waiting
<1> HIDE DEF p, r
<1> QED
  BY <1>1, <1>2, <1>5, <1>6, <1>7, PlaceSteps DEF p, r

(* Before the first call nobody holds anything.                            *)
LEMMA PromiseStarts == Init => Promise!PromiseInit
<1> SUFFICES ASSUME Init PROVE Promise!PromiseInit
  OBVIOUS
<1>1. AbsShape
  BY InitInv, AbsShaped
<1>2. \A t \in Tasks : AbsHold[t] = "none"
  BY <1>1 DEF AbsShape, Init, Gated
<1>3. \A t \in Tasks : AbsOn[t] = None /\ AbsRiding[t] = {}
  BY <1>1, <1>2 DEF AbsShape, Init
<1>4. AbsHold = [t \in Tasks |-> "none"] /\ AbsOn = [t \in Tasks |-> None]
      /\ AbsRiding = [t \in Tasks |-> {}]
  BY <1>1, <1>2, <1>3 DEF AbsShape
<1>5. content \in [Revs -> 0 .. Changes]
  BY LockAssumption, SMT DEF Init
<1> QED
  BY <1>4, <1>5 DEF Promise!PromiseInit, Promise!InitLock

(* Every step of the lock is a step of the promise or leaves it alone.     *)
LEMMA PromiseSteps ==
  LockInv /\ LockInv' /\ [Next]_vars => [Promise!PromiseNext]_(Promise!absVars)
<1> SUFFICES ASSUME LockInv, LockInv', [Next]_vars
             PROVE  [Promise!PromiseNext]_(Promise!absVars)
  OBVIOUS
<1>1. ASSUME pc' = pc /\ rev' = rev /\ rd' = rd /\ content' = content
      PROVE  [Promise!PromiseNext]_(Promise!absVars)
  <2>1. AbsHold' = AbsHold /\ AbsOn' = AbsOn
    BY <1>1, HoldsStay
  <2>2. AbsRiding' = AbsRiding
    BY <1>1, RidersStay
  <2> QED BY <1>1, <2>1, <2>2 DEF Promise!absVars, Promise!lockVars
<1>2. CASE UNCHANGED vars
  BY <1>1, <1>2 DEF vars, locks
<1>3. ASSUME NEW t \in Tasks, Probe(t) \/ Probed(t)
      PROVE  [Promise!PromiseNext]_(Promise!absVars)
  BY <1>1, <1>3 DEF Probe, Probed
<1>4. ASSUME NEW t \in Tasks, Granted(t) \/ Released(t)
      PROVE  [Promise!PromiseNext]_(Promise!absVars)
  BY <1>4, RideSteps, AlightStep, OwnSteps DEF Granted, Released
<1>5. ASSUME NEW t \in Tasks, Upgrade(t) \/ Downgrade(t) \/ HandOff(t) \/ Cancel(t) \/ Change(t)
      PROVE  [Promise!PromiseNext]_(Promise!absVars)
  BY <1>5, RideSteps, ChangeStep, OwnSteps
<1> QED
  BY <1>2, <1>3, <1>4, <1>5, NamingSteps DEF Next

(* Refines: whatever requests call, cancel or drop, and in whatever order  *)
(* the two inner locks are taken, upgraded and downgraded, the bridge over *)
(* gateway and revision locks of result_lock.rs keeps the promise of one   *)
(* transformable lock: in the gap of an upgrade or a downgrade, when the   *)
(* revision itself is free, nobody else can change the entry.              *)
THEOREM BridgeKeepsPromise == Spec => Refines
<1>1. Init => Promise!PromiseInit
  BY PromiseStarts
<1>2. LockInv /\ LockInv' /\ [Next]_vars => [Promise!PromiseNext]_(Promise!absVars)
  BY PromiseSteps
<1> QED
  BY <1>1, <1>2, LockInvariant, PTL DEF Spec, Refines, Promise!PromiseSpec

-----------------------------------------------------------------------------
(* The initial states satisfy the inductive invariant.                     *)
LEMMA InitSlot == SlotInit => SlotInv
<1> SUFFICES ASSUME SlotInit PROVE SlotInv
  OBVIOUS
<1> USE SlotAssumption DEF SlotInit, Holders
<1>1. hashouts \in Nat
  BY SMT
<1>2. SlotTypeOK
  BY <1>1 DEF SlotTypeOK
<1>3. WriterAlone /\ GuardsTaken /\ HeldWhere
  BY SMT DEF WriterAlone, GuardsTaken, HeldWhere
<1>4. ResolvedWhen /\ Named
  BY DEF Named, Live, ResolvedWhen, Unchanged
<1>q. QED
  BY <1>2, <1>3, <1>4 DEF SlotInv

(* A caller's step preserves it.                                           *)
LEMMA ActSlot ==
  ASSUME SlotInv, NEW c \in Callers, Act(c)
  PROVE  SlotInv'
<1> USE SlotAssumption DEF SlotInv, SlotTypeOK, Goto, Hold, Outside, CellVars, Holders
<1>1. CASE Ask(c)
  <2>1. SlotTypeOK'
    BY <1>1 DEF Ask
  <2>2. WriterAlone'
    BY <1>1 DEF Ask, WriterAlone, Locked
  <2>3. GuardsTaken'
    BY <1>1 DEF Ask, GuardsTaken
  <2>4. HeldWhere'
    BY <1>1, SMT DEF Ask, HeldWhere, GuardsTaken, Live
  <2>5. Named'
    BY <1>1, SMT DEF Ask, Named, Unchanged, ResolvedWhen, HeldWhere, GuardsTaken, Live
  <2>6. ResolvedWhen'
    BY <1>1, SMT DEF Ask, ResolvedWhen, HeldWhere
  <2>q. QED
    BY <2>1, <2>2, <2>3, <2>4, <2>5, <2>6
<1>2. CASE Collect(c)
  <2>1. SlotTypeOK'
    BY <1>2, SMT DEF Collect
  <2>2. WriterAlone'
    BY <1>2, SMT DEF Collect, WriterAlone, Locked
  <2>3. GuardsTaken'
    BY <1>2, SMT DEF Collect, GuardsTaken
  <2>4. HeldWhere'
    BY <1>2, SMT DEF Collect, HeldWhere, GuardsTaken, Live
  <2>5. Named'
    BY <1>2, SMT DEF Collect, Named, Unchanged, ResolvedWhen, HeldWhere, GuardsTaken, Live
  <2>6. ResolvedWhen'
    BY <1>2, SMT DEF Collect, ResolvedWhen, HeldWhere
  <2>q. QED
    BY <2>1, <2>2, <2>3, <2>4, <2>5, <2>6
<1>3. CASE UpgradeWeak(c)
  <2>1. SlotTypeOK'
    BY <1>3 DEF UpgradeWeak
  <2>2. WriterAlone'
    BY <1>3 DEF UpgradeWeak, WriterAlone, Locked, Live
  <2>3. GuardsTaken'
    BY <1>3 DEF UpgradeWeak, GuardsTaken
  <2>4. HeldWhere'
    BY <1>3 DEF UpgradeWeak, HeldWhere, GuardsTaken, Live
  <2>5. Named'
    BY <1>3 DEF UpgradeWeak, Named, Unchanged, ResolvedWhen, HeldWhere, GuardsTaken, Live
  <2>6. ResolvedWhen'
    BY <1>3, SMT DEF UpgradeWeak, ResolvedWhen, HeldWhere
  <2>q. QED
    BY <2>1, <2>2, <2>3, <2>4, <2>5, <2>6
<1>4. CASE Lapse(c)
  <2>1. SlotTypeOK'
    BY <1>4 DEF Lapse
  <2>2. WriterAlone'
    BY <1>4 DEF Lapse, WriterAlone, Locked
  <2>3. GuardsTaken'
    BY <1>4 DEF Lapse, GuardsTaken
  <2>4. HeldWhere'
    BY <1>4 DEF Lapse, HeldWhere, GuardsTaken, Live
  <2>5. Named'
    BY <1>4 DEF Lapse, Named, Unchanged, ResolvedWhen, HeldWhere, GuardsTaken, Live
  <2>6. ResolvedWhen'
    BY <1>4, SMT DEF Lapse, ResolvedWhen, HeldWhere
  <2>q. QED
    BY <2>1, <2>2, <2>3, <2>4, <2>5, <2>6
<1>5. CASE Acquire(c)
  <2>1. SlotTypeOK'
    BY <1>5, SMT DEF Acquire
  <2>2. WriterAlone'
    BY <1>5 DEF Acquire, WriterAlone, Locked
  <2>3. GuardsTaken'
    BY <1>5, SMT DEF Acquire, GuardsTaken
  <2>4. HeldWhere'
    BY <1>5, SMT DEF Acquire, HeldWhere, GuardsTaken, Live
  <2>5. Named'
    BY <1>5, SMT DEF Acquire, Named, Unchanged, ResolvedWhen, HeldWhere, GuardsTaken, Live
  <2>6. ResolvedWhen'
    BY <1>5, SMT DEF Acquire, ResolvedWhen, HeldWhere
  <2>q. QED
    BY <2>1, <2>2, <2>3, <2>4, <2>5, <2>6
<1>6. CASE Validate(c)
  <2>1. SlotTypeOK'
    BY <1>6, SMT DEF Validate
  <2>2. WriterAlone'
    BY <1>6 DEF Validate, WriterAlone, Locked
  <2>3. GuardsTaken'
    BY <1>6, SMT DEF Validate, GuardsTaken
  <2>4. HeldWhere'
    BY <1>6, SMT DEF Validate, HeldWhere, GuardsTaken, Live
  <2>5. Named'
    BY <1>6, SMT DEF Validate, Named, Unchanged, ResolvedWhen, HeldWhere, GuardsTaken, Live
  <2>6. ResolvedWhen'
    BY <1>6, SMT DEF Validate, ResolvedWhen, HeldWhere
  <2>q. QED
    BY <2>1, <2>2, <2>3, <2>4, <2>5, <2>6, SMT
<1>7. CASE Publish(c)
  <2>1. SlotTypeOK'
    BY <1>7 DEF Publish
  <2>2. WriterAlone'
    BY <1>7 DEF Publish, WriterAlone, Locked
  <2>3. GuardsTaken'
    BY <1>7 DEF Publish, GuardsTaken
  <2>4. HeldWhere'
    BY <1>7 DEF Publish, HeldWhere, GuardsTaken, Live
  <2>5. Named'
    BY <1>7 DEF Publish, Named, Unchanged, ResolvedWhen, HeldWhere, GuardsTaken, Live
  <2>6. ResolvedWhen'
    BY <1>7, SMT DEF Publish, ResolvedWhen, HeldWhere
  <2>q. QED
    BY <2>1, <2>2, <2>3, <2>4, <2>5, <2>6
<1>8. CASE Drop(c)
  <2>1. SlotTypeOK'
    BY <1>8 DEF Drop
  <2>2. WriterAlone'
    BY <1>8 DEF Drop, WriterAlone, Locked
  <2>3. GuardsTaken'
    BY <1>8, SMT DEF Drop, GuardsTaken
  <2>4. HeldWhere'
    BY <1>8 DEF Drop, HeldWhere, GuardsTaken, Live
  <2>5. Named'
    BY <1>8 DEF Drop, Named, Unchanged, ResolvedWhen, HeldWhere, GuardsTaken, Live
  <2>6. ResolvedWhen'
    BY <1>8, SMT DEF Drop, ResolvedWhen, HeldWhere
  <2>q. QED
    BY <2>1, <2>2, <2>3, <2>4, <2>5, <2>6
<1>9. CASE Abort(c)
  <2>1. SlotTypeOK'
    BY <1>9 DEF Abort
  <2>2. WriterAlone'
    BY <1>9 DEF Abort, WriterAlone, Locked
  <2>3. GuardsTaken'
    BY <1>9, SMT DEF Abort, GuardsTaken
  <2>4. HeldWhere'
    BY <1>9 DEF Abort, HeldWhere, GuardsTaken, Live
  <2>5. Named'
    BY <1>9 DEF Abort, Named, Unchanged, ResolvedWhen, HeldWhere, GuardsTaken, Live
  <2>6. ResolvedWhen'
    BY <1>9, SMT DEF Abort, ResolvedWhen, HeldWhere
  <2>q. QED
    BY <2>1, <2>2, <2>3, <2>4, <2>5, <2>6
<1>q. QED
  BY <1>1, <1>2, <1>3, <1>4, <1>5, <1>6, <1>7, <1>8, <1>9, SMT DEF Act

(* So do the end of the computation and the writes of other processes.     *)
LEMMA OtherSlot ==
  ASSUME SlotInv, Resolve \/ TakeWrite \/ EndWrite \/ WriteUnlocked
  PROVE  SlotInv'
<1> USE SlotAssumption DEF SlotInv, SlotTypeOK, Hold, CellVars, Holders
<1>1. CASE Resolve
  <2>1. SlotTypeOK'
    BY <1>1, SMT DEF Resolve
  <2>2. WriterAlone'
    BY <1>1 DEF Resolve, WriterAlone, Locked
  <2>3. GuardsTaken'
    BY <1>1, SMT DEF Resolve, GuardsTaken
  <2>4. HeldWhere'
    BY <1>1, SMT DEF Resolve, HeldWhere, GuardsTaken
  <2>5. Named'
    BY <1>1 DEF Resolve, Named, Unchanged, ResolvedWhen, HeldWhere, GuardsTaken, WriterAlone, Locked, Live
  <2>6. ResolvedWhen'
    BY <1>1, SMT DEF Resolve, ResolvedWhen, HeldWhere
  <2>q. QED
    BY <2>1, <2>2, <2>3, <2>4, <2>5, <2>6
<1>2. CASE TakeWrite
  <2>1. SlotTypeOK'
    BY <1>2 DEF TakeWrite
  <2>2. WriterAlone'
    BY <1>2 DEF TakeWrite, WriterAlone, Locked
  <2>3. GuardsTaken'
    BY <1>2 DEF TakeWrite, GuardsTaken
  <2>4. HeldWhere'
    BY <1>2 DEF TakeWrite, HeldWhere, GuardsTaken
  <2>5. Named'
    BY <1>2 DEF TakeWrite, Named, Unchanged, ResolvedWhen, HeldWhere, GuardsTaken, WriterAlone, Locked, Live
  <2>6. ResolvedWhen'
    BY <1>2, SMT DEF TakeWrite, ResolvedWhen, HeldWhere
  <2>q. QED
    BY <2>1, <2>2, <2>3, <2>4, <2>5, <2>6
<1>3. CASE EndWrite
  <2>0. hashouts' \in Nat
    BY <1>3, SMT DEF EndWrite
  <2>1. SlotTypeOK'
    BY <1>3, <2>0 DEF EndWrite
  <2>2. WriterAlone'
    BY <1>3 DEF EndWrite, WriterAlone, Locked
  <2>3. GuardsTaken'
    BY <1>3 DEF EndWrite, GuardsTaken
  <2>4. HeldWhere'
    BY <1>3 DEF EndWrite, HeldWhere, GuardsTaken
  <2>5. Named'
    BY <1>3 DEF EndWrite, Named, Unchanged, ResolvedWhen, HeldWhere, GuardsTaken, WriterAlone, Locked, Live
  <2>6. ResolvedWhen'
    BY <1>3, SMT DEF EndWrite, ResolvedWhen, HeldWhere
  <2>q. QED
    BY <2>1, <2>2, <2>3, <2>4, <2>5, <2>6
<1>4. CASE WriteUnlocked
  <2>0. hashouts' \in Nat \ {0} /\ (hashouts' = hashouts => torn' = torn)
    BY <1>4, SMT DEF WriteUnlocked
  <2>1. SlotTypeOK'
    <3>1. \A h \in Holders : held[h] \in Nat
      BY SMT
    <3>2. torn' \subseteq Nat
      BY <1>4, <3>1 DEF WriteUnlocked
    <3> QED
      BY <1>4, <2>0, <3>2 DEF WriteUnlocked
  <2>2. WriterAlone'
    BY <1>4 DEF WriteUnlocked, WriterAlone, Locked
  <2>3. GuardsTaken'
    BY <1>4 DEF WriteUnlocked, GuardsTaken
  <2>4. HeldWhere'
    BY <1>4 DEF WriteUnlocked, HeldWhere
  <2>5. Named'
    <3>1. CASE hashouts' = hashouts
      BY <1>4, <2>0, <3>1 DEF WriteUnlocked, Named, Unchanged, Live
    <3>2. CASE hashouts' # hashouts
      <4>1. \A h \in Holders : held[h] # 0 => held[h] \in torn'
        BY <1>4, <3>2 DEF WriteUnlocked
      <4>2. held' = held /\ weak' = weak /\ claim' = claim
        BY <1>4 DEF WriteUnlocked
      <4>3. Live(weak) => weak \in torn'
        BY <4>1 DEF Live
      <4> QED
        BY <2>0, <4>1, <4>2, <4>3 DEF Named, Unchanged, Live, HeldWhere
    <3> QED BY <3>1, <3>2
  <2>6. ResolvedWhen'
    BY <1>4 DEF WriteUnlocked, ResolvedWhen
  <2>q. QED
    BY <2>1, <2>2, <2>3, <2>4, <2>5, <2>6
<1>q. QED
  BY <1>1, <1>2, <1>3, <1>4

(* The inductive invariant: a guard the slot can still reach, and a guard  *)
(* a claim has validated, has kept the revision from being deleted, and as *)
(* it was resolved but for the writes that take no write lock.             *)
THEOREM SlotInvariant == SlotSpec => []SlotInv
<1>1. SlotInv /\ [SlotNext]_slotVars => SlotInv'
  <2> SUFFICES ASSUME SlotInv, [SlotNext]_slotVars PROVE SlotInv'
    OBVIOUS
  <2>1. CASE UNCHANGED slotVars
    BY <2>1 DEF slotVars, SlotInv, SlotTypeOK, WriterAlone, GuardsTaken, HeldWhere, ResolvedWhen, Named,
                Unchanged, Live, Locked
  <2>q. QED
    BY <2>1, ActSlot, OtherSlot DEF SlotNext
<1>q. QED
  BY InitSlot, <1>1, PTL DEF SlotSpec

(* Whoever has artifacts in hand stages what the request resolved to,      *)
(* unless a process rewrote the revision without its write lock meanwhile. *)
THEOREM ClaimsStageTheResolved == SlotSpec => []StagedIsResolved
<1>1. SlotInv => StagedIsResolved
  BY DEF SlotInv, StagedIsResolved, HeldWhere, Named
<1>q. QED
  BY SlotInvariant, <1>1, PTL

(* When every run of the target makes the same outputs there is no such    *)
(* exception: what is staged is what was resolved, whatever is written.    *)
THEOREM ReproducibleStaged ==
  ASSUME NEW v, Versions = {v}
  PROVE  SlotSpec => [](\A c \in Callers : claim[c] = "holding" => hashouts = resolved)
<1> DEFINE Only == hashouts \in {v, 0} /\ resolved \in {v, 0} /\ (comp # "done" => resolved = 0)
           DoneHeld == \A c \in Callers : claim[c] \in {"publishing", "holding"} => comp = "done"
<1>1. SlotInit => Only /\ DoneHeld
  BY DEF SlotInit
<1>2. SlotInv /\ Only /\ DoneHeld /\ [SlotNext]_slotVars => (Only /\ DoneHeld)'
  <2> SUFFICES ASSUME SlotInv, Only, DoneHeld, [SlotNext]_slotVars PROVE (Only /\ DoneHeld)'
    OBVIOUS
  <2>1. CASE UNCHANGED slotVars
    BY <2>1 DEF slotVars
  <2>2. ASSUME NEW c \in Callers, Act(c) PROVE (Only /\ DoneHeld)'
    <3>1. Only'
      BY <2>2 DEF Act, Ask, Collect, UpgradeWeak, Lapse, Acquire, Validate, Publish, Drop, Abort, Outside, CellVars
    <3>2. DoneHeld'
      BY <2>2, SMT DEF SlotInv, SlotTypeOK, ResolvedWhen, Act, Ask, Collect, UpgradeWeak, Lapse, Acquire, Validate,
                       Publish, Drop, Abort, Goto, Outside, CellVars
    <3> QED BY <3>1, <3>2
  <2>3. CASE Resolve
    BY <2>3 DEF Resolve
  <2>4. CASE TakeWrite \/ EndWrite \/ WriteUnlocked
    BY <2>4 DEF TakeWrite, EndWrite, WriteUnlocked, CellVars
  <2> QED
    BY <2>1, <2>2, <2>3, <2>4 DEF SlotNext
<1>3. SlotInv /\ Only /\ DoneHeld => \A c \in Callers : claim[c] = "holding" => hashouts = resolved
  BY DEF SlotInv, Named, Unchanged, ResolvedWhen
<1> HIDE DEF Only, DoneHeld
<1> QED
  BY SlotInvariant, <1>1, <1>2, <1>3, PTL DEF SlotSpec

(* The memoized resolution never keeps the revision locked.                *)
THEOREM CellsPinNothing == SlotSpec => []Unpinned
<1>1. SlotInv => Unpinned
  BY SlotAssumption DEF SlotInv, SlotTypeOK, Unpinned, HeldWhere, Locked, Holders
<1>q. QED
  BY SlotInvariant, <1>1, PTL
=============================================================================
