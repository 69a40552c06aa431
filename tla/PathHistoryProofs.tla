------------------------- MODULE PathHistoryProofs --------------------------
(***************************************************************************)
(* The result path, second part: a trim keeps the newest revisions.  Its   *)
(* plan survives what others stamp because what lands without the gateway  *)
(* (a rebuild under a riding read, a fixpoint's copy, what a request that  *)
(* ended left in the queue) is counted apart (HistInv).                    *)
(***************************************************************************)
EXTENDS PathProofs, FiniteSetTheorems, WellFoundedInduction

(* Few leaves need arithmetic: those name SMT.                             *)
USE Zenon

(* A set of naturals that is not empty has a least one.                    *)
LEMMA LeastNat ==
  ASSUME NEW T, T \subseteq Nat, T # {}
  PROVE  \E x \in T : \A y \in T : x <= y
<1>1. PICK x \in T : \A y \in T : ~(<<y, x>> \in OpToRel(<, Nat))
  BY NatLessThanWellFounded, WFMin
<1>2. \A y \in T : ~(y < x)
  BY <1>1 DEF OpToRel
<1>q. QED
  BY <1>2, SMT

(* A manifest that lands next older than those of S keeps the stamps an    *)
(* order, also where it replaces one.                                      *)
LEMMA StampedOrder ==
  ASSUME TypeOK, TypeOK', StampsAreAnOrder, NEW r \in Revs, NEW S \in SUBSET (Entries \ {r}),
         \A x \in S : newer[x] \ {r} \subseteq S, newer' = Stamped(r, S), Entries' = Entries \cup {r}
  PROVE  StampsAreAnOrder'
<1> newer \in [Revs -> SUBSET Revs] /\ Entries \subseteq Revs /\ newer' \in [Revs -> SUBSET Revs]
  BY DEF TypeOK, Entries
<1>1. \A x, y \in Revs : y \in newer'[x] <=>
        \/ x = r /\ y \in S
        \/ x # r /\ y # r /\ y \in newer[x]
        \/ x # r /\ y = r /\ x \in Entries /\ x \notin S
  BY DEF Stamped
<1>2. \A x \in S, y \in Revs : y \in newer[x] /\ y # r => y \in S
  OBVIOUS
<1>3. \A x, y \in Revs : y \in newer'[x] => x \in Entries' /\ y \in Entries' /\ x # y
  BY <1>1, <1>2 DEF StampsAreAnOrder
<1>4. \A x, y \in Revs : x \in S /\ y \in Entries /\ y \notin S /\ y # r => x \in newer[y]
  BY <1>2 DEF StampsAreAnOrder
<1>5. ASSUME NEW x \in Revs, NEW y \in Revs, NEW z \in Revs, x \in newer'[y], z \in newer'[x]
      PROVE  z \in newer'[y]
  BY <1>1, <1>2, <1>4, <1>5 DEF StampsAreAnOrder
<1>6. \A x, y \in Entries' : x = y \/ x \in newer'[y] \/ y \in newer'[x]
  BY <1>1, <1>2, SMT DEF StampsAreAnOrder
<1>q. QED
  BY <1>3, <1>5, <1>6 DEF StampsAreAnOrder

(* So does the removal of one.                                             *)
LEMMA UnstampedOrder ==
  ASSUME TypeOK, TypeOK', StampsAreAnOrder, NEW r \in Revs,
         newer' = Unstamped(r), Entries' = Entries \ {r}
  PROVE  StampsAreAnOrder'
<1> newer \in [Revs -> SUBSET Revs] /\ Entries \subseteq Revs /\ newer' \in [Revs -> SUBSET Revs]
  BY DEF TypeOK, Entries
<1>1. \A x, y \in Revs : y \in newer'[x] <=> x # r /\ y # r /\ y \in newer[x]
  BY DEF Unstamped
<1>q. QED
  BY <1>1 DEF StampsAreAnOrder

(* Each surplus revision is older than as many as are kept that are not    *)
(* surplus: those which are newer than the newest surplus one.             *)
LEMMA SurplusOutnumbered ==
  ASSUME TypeOK, StampsAreAnOrder, NEW S \in SUBSET (Entries \ Newest), NEW r \in S
  PROVE  Cardinality(newer[r] \ S) >= History
<1> USE PathAssumption
<1> DEFINE Size(x) == Cardinality(newer[x])
           T == {Size(x) : x \in S}
<1> newer \in [Revs -> SUBSET Revs] /\ S \subseteq Revs
  BY DEF TypeOK, Entries
<1>1. \A x \in S : IsFiniteSet(newer[x]) /\ Size(x) \in Nat /\ Size(x) >= History
  <2>1. \A x \in Revs : IsFiniteSet(newer[x]) /\ Size(x) \in Nat
    BY FS_Subset, FS_CardinalityType
  <2>q. QED
    BY <2>1, SMT DEF Newest
<1>2. PICK x0 \in S : \A y \in S : Size(x0) <= Size(y)
  <2>1. PICK n \in T : \A m \in T : n <= m
    <3>1. T \subseteq Nat /\ T # {}
      BY <1>1, SMT
    <3>q. QED
      BY <3>1, LeastNat
  <2>q. QED
    BY <2>1, SMT
<1>3. newer[x0] \cap S = {}
  <2> SUFFICES ASSUME NEW y \in S, y \in newer[x0] PROVE FALSE
    OBVIOUS
  <2>1. newer[y] \subseteq newer[x0] /\ y \notin newer[y]
    BY DEF StampsAreAnOrder
  <2>2. Size(y) <= Size(x0) /\ Size(y) # Size(x0)
    BY <1>1, <2>1, FS_Subset
  <2>q. QED
    BY <1>1, <1>2, <2>2, SMT
<1>4. newer[x0] \subseteq newer[r] \ S
  <2>1. CASE r = x0
    BY <1>3, <2>1
  <2>2. CASE r # x0
    <3>1. x0 \in newer[r]
      BY <1>3, <2>2 DEF StampsAreAnOrder
    <3>2. newer[x0] \subseteq newer[r]
      BY <3>1 DEF StampsAreAnOrder
    <3>q. QED
      BY <1>3, <3>2
  <2>q. QED
    BY <2>1, <2>2
<1>5. IsFiniteSet(newer[r] \ S) /\ Cardinality(newer[r] \ S) \in Nat
  BY <1>1, FS_Subset, FS_CardinalityType
<1>6. Size(x0) <= Cardinality(newer[r] \ S)
  BY <1>4, <1>5, FS_Subset
<1>q. QED
  BY <1>1, <1>5, <1>6, SMT

(* What a step of task t leaves to the others.                             *)
Elsewhere(t) ==
  \A u \in Tasks \ {t} :
    pc'[u] = pc[u] /\ todo'[u] = todo[u] /\ on'[u] = on[u] /\ (u \in wrote' <=> u \in wrote)
Deleting == {"deleting"} \cup DeleteAt

(* While one deletes, nobody else has a hold, or takes the gateway.        *)
LEMMA DeleterAlone ==
  ASSUME PathInv, NEW t \in Tasks, NEW u \in Tasks, pc[u] \in Deleting
  PROVE  ~Gate(t) /\ (u # t => hold[t] = "none")
<1>1. PlaceSays(u) /\ OneGateway
  BY DEF PathInv
<1>2. hold[u] # "none"
  BY <1>1 DEF PlaceSays, Deleting, GateAt
<1>q. QED
  BY <1>1, <1>2 DEF OneGateway, Gate

(* A trim's plan stays good while what others stamp counts as late.        *)
LEMMA PlanStays ==
  ASSUME TypeOK, TypeOK', NEW t \in Tasks, Spares(t),
         pc'[t] = pc[t], todo'[t] = todo[t], on'[t] = on[t], t \in wrote' <=> t \in wrote,
         pc[t] \in Deleting =>
           late \subseteq late' /\ \A r \in Revs : r \in late' \/ newer[r] \subseteq newer'[r] \cup late'
  PROVE  Spares(t)'
<1> USE PathAssumption
<1> SUFFICES ASSUME Wrote(t)', pc'[t] \in Deleting
             PROVE  /\ Want[t] \notin Doomed(t)' /\ on'[t] \notin todo'[t]
                    /\ \A r \in Doomed(t)' :
                         r \in late' \/ Cardinality((newer'[r] \cup late') \ Doomed(t)') >= History
  BY DEF Spares, Deleting
<1>1. Doomed(t)' = Doomed(t) /\ Wrote(t) /\ pc[t] \in Deleting /\ Doomed(t) \subseteq Revs
  BY DEF Doomed, Wrote, TypeOK
<1>2. ASSUME NEW r \in Doomed(t), r \notin late'
      PROVE  Cardinality((newer'[r] \cup late') \ Doomed(t)) >= History
  <2> DEFINE Was == (newer[r] \cup late) \ Doomed(t)
             Now == (newer'[r] \cup late') \ Doomed(t)
  <2>1. r \notin late /\ Was \subseteq Now
    BY <1>1, <1>2
  <2>2. Cardinality(Was) >= History
    BY <1>1, <2>1 DEF Spares, Deleting
  <2>3. Was \subseteq Revs /\ Now \subseteq Revs
    BY <1>1 DEF TypeOK
  <2>4. IsFiniteSet(Was) /\ IsFiniteSet(Now)
    BY <2>3, FS_Subset
  <2>5. Cardinality(Was) <= Cardinality(Now)
    BY <2>1, <2>4, FS_Subset
  <2> HIDE DEF Was, Now
  <2>6. Cardinality(Now) >= History
    BY <2>2, <2>4, <2>5, FS_CardinalityType, SMT
  <2>q. QED
    BY <2>6 DEF Now
<1>q. QED
  BY <1>1, <1>2 DEF Spares, Deleting

(* A step that changes no entry and no stamp, and forgets what landed late *)
(* only as it takes the gateway.                                           *)
LEMMA StampsKept ==
  ASSUME HistInv, PathInv', NEW t \in Tasks, UNCHANGED <<content, newer>>, LateKept(t),
         Elsewhere(t), Spares(t)'
  PROVE  HistInv'
<1>1. StampsAreAnOrder'
  BY DEF HistInv, StampsAreAnOrder, Entries
<1>2. ASSUME NEW u \in Tasks \ {t} PROVE Spares(u)'
  <2>1. pc[u] \in Deleting => late \subseteq late'
    BY DeleterAlone DEF HistInv, LateKept
  <2>q. QED
    BY <2>1, PlanStays DEF HistInv, PathInv, Elsewhere
<1>q. QED
  BY <1>1, <1>2 DEF HistInv

(* The steps of a task that is not deleting after them.                    *)
LEMMA OtherSteps ==
  ASSUME HistInv, PathInv', NEW t \in Tasks,
         \/ TakeRead(t) \/ ProbeHit(t) \/ ProbeMiss(t) \/ TryGateway(t) \/ TryRevision(t) \/ Contend(t)
         \/ Recheck(t) \/ ForceWrite(t) \/ Execute(t) \/ StoreBlobs(t) \/ StoreManifest(t) \/ Stored(t)
         \/ HandOff(t) \/ Pull(t) \/ Unavailable(t) \/ CopyBlobs(t) \/ CopyManifest(t) \/ Finish(t)
         \/ SkipListing(t) \/ Count(t) \/ GiveUp(t) \/ EndDeleting(t) \/ Stop(t)
  PROVE  HistInv'
<1> USE DEF Elsewhere, LateKept, Deleting, DeleteAt, At, Keep, KeepAll, TakeGate,
            lockVars, absVars, pathVars, queueVars, histVars
<1> TypeOK
  BY DEF HistInv, PathInv
<1> /\ pc \in [Tasks -> Places] /\ on \in [Tasks -> Revs \cup {None}]
  BY DEF TypeOK, Places
<1> SUFFICES UNCHANGED <<content, newer>> /\ LateKept(t) /\ Elsewhere(t) /\ pc'[t] \notin Deleting
  BY StampsKept DEF Spares
<1>1. CASE TakeRead(t) \/ ProbeMiss(t)
  BY <1>1 DEF TakeRead, ProbeMiss, Ride, Alight
<1>2. CASE ProbeHit(t) \/ Execute(t)
  BY <1>2 DEF ProbeHit, Execute
<1>3. CASE TryGateway(t) \/ TryRevision(t)
  BY <1>3 DEF TryGateway, TryRevision, Gate, Exclude, Ungate
<1>4. CASE Contend(t) \/ ForceWrite(t)
  BY <1>4 DEF Contend, ForceWrite, Gate, Ungate, Ride, Exclude
<1>5. CASE StoreBlobs(t) \/ StoreManifest(t) \/ CopyBlobs(t) \/ CopyManifest(t)
  BY <1>5 DEF StoreBlobs, StoreManifest, CopyBlobs, CopyManifest
<1>6. CASE HandOff(t)
  BY <1>6 DEF HandOff, Demote, Ride, LetGo, Ungate
<1>7. CASE Pull(t) \/ Unavailable(t)
  <2>1. CASE Pull(t)
    <3>1. UNCHANGED <<content, newer, late, pc, on, todo, wrote>> /\ pc[t] = "riding"
      BY <2>1 DEF Pull
    <3>q. QED
      BY <3>1
  <2>2. CASE Unavailable(t)
    BY <2>2 DEF Unavailable, Alight
  <2>q. QED
    BY <1>7, <2>1, <2>2
<1>8. CASE Finish(t) \/ EndDeleting(t)
  BY <1>8 DEF Finish, EndDeleting, Alight, Ungate
<1>9. CASE SkipListing(t) \/ Count(t) \/ GiveUp(t)
  BY <1>9 DEF SkipListing, Count, GiveUp
<1>10. CASE Stop(t)
  BY <1>10 DEF Stop
<1>11. CASE Recheck(t)
  BY <1>11 DEF Recheck
<1>12. CASE Stored(t)
  <2>1. wrote' = wrote \cup {t} /\ UNCHANGED <<content, newer, late, todo>>
    BY <1>12 DEF Stored
  <2>2. /\ \A u \in Tasks \ {t} : pc'[u] = pc[u] /\ on'[u] = on[u]
        /\ pc'[t] \in {"written", "riding", "trim"}
    BY <1>12 DEF Stored, Alight
  <2>q. QED
    BY <2>1, <2>2
<1>q. QED
  BY <1>1, <1>2, <1>3, <1>4, <1>5, <1>6, <1>7, <1>8, <1>9, <1>10, <1>11, <1>12

(* A trim makes its list with the gateway in hand.                         *)
LEMMA ListPlans ==
  ASSUME HistInv, PathInv', NEW t \in Tasks, List(t)
  PROVE  HistInv'
<1> USE PathAssumption, NoneIsNoRev
<1> TypeOK /\ PlaceSays(t) /\ KeepsToItsPart(t)
  BY DEF HistInv, PathInv
<1>1. /\ UNCHANGED <<content, newer, wrote, on>> /\ Elsewhere(t) /\ late' = {} /\ LateKept(t)
      /\ pc[t] \in {"listing", "trimming"} /\ on[t] = None
  <2>1. UNCHANGED <<content, newer, wrote, on>> /\ late' = {} /\ Gate(t)
    BY DEF List, TakeGate, Gate
  <2>2. /\ \A u \in Tasks \ {t} : pc'[u] = pc[u] /\ todo'[u] = todo[u]
        /\ pc[t] \in {"listing", "trimming"}
    BY SMT DEF List, At, TypeOK
  <2>3. on[t] = None
    BY <2>2 DEF PlaceSays, ReadAt, WriteAt, DeleteAt
  <2>q. QED
    BY <2>1, <2>2, <2>3 DEF Elsewhere, LateKept
<1>2. Spares(t)'
  <2> SUFFICES ASSUME Wrote(t)'
               PROVE  /\ Want[t] \notin Doomed(t)' /\ on'[t] \notin todo'[t]
                      /\ \A r \in Doomed(t)' : Cardinality((newer'[r] \cup late') \ Doomed(t)') >= History
    BY DEF Spares
  <2>1. Wrote(t) /\ Kind[t] \notin {"gc", "clean"}
    BY <1>1 DEF Wrote, KeepsToItsPart
  <2>2. todo'[t] = Surplus(t)
    BY <2>1 DEF List, TypeOK
  <2>3. Doomed(t)' = Surplus(t)
    BY <1>1, <2>2 DEF Doomed
  <2>4. Want[t] \notin Surplus(t) /\ Surplus(t) \subseteq Entries \ Newest
    BY <2>1 DEF Surplus
  <2>5. \A r \in Surplus(t) : Cardinality(newer[r] \ Surplus(t)) >= History
    BY <2>4, SurplusOutnumbered DEF HistInv
  <2>6. \A r \in Surplus(t) : (newer'[r] \cup late') \ Surplus(t) = newer[r] \ Surplus(t)
    BY <1>1
  <2>7. on'[t] \notin todo'[t]
    <3>1. None \notin Surplus(t)
      BY <2>4 DEF Entries
    <3>q. QED
      BY <1>1, <2>2, <3>1
  <2>8. ASSUME NEW r \in Surplus(t)
        PROVE  Cardinality((newer'[r] \cup late') \ Surplus(t)) >= History
    BY <2>5, <2>6
  <2>q. QED
    BY <2>3, <2>4, <2>7, <2>8
<1>q. QED
  BY <1>1, <1>2, StampsKept

(* It takes the revisions one by one, and may pass over one in use.        *)
LEMMA PickPlans ==
  ASSUME HistInv, PathInv', NEW t \in Tasks, DeleteBlobs(t) \/ \E r \in Revs : Pick(t, r)
  PROVE  HistInv'
<1> USE PathAssumption, NoneIsNoRev
<1> TypeOK /\ PlaceSays(t) /\ Spares(t) /\ TypeOK'
  BY DEF HistInv, PathInv
<1>1. UNCHANGED <<content, newer, wrote, late>> /\ Elsewhere(t) /\ LateKept(t)
  BY SMT DEF DeleteBlobs, Pick, At, Exclude, absVars, lockVars, histVars, Elsewhere, LateKept, TypeOK
<1>2. /\ Doomed(t)' \subseteq Doomed(t) /\ pc[t] \in Deleting /\ Doomed(t) \subseteq Revs
      /\ on[t] \notin todo[t] => on'[t] \notin todo'[t]
  <2>1. CASE DeleteBlobs(t)
    BY <2>1 DEF DeleteBlobs, At, absVars, lockVars, Doomed, Deleting, DeleteAt, TypeOK
  <2>2. ASSUME NEW r \in Revs, Pick(t, r)
        PROVE  /\ Doomed(t)' \subseteq Doomed(t) /\ pc[t] \in Deleting /\ Doomed(t) \subseteq Revs
               /\ on'[t] \notin todo'[t]
    <3>1. pc[t] = "deleting" /\ on[t] = None /\ on'[t] \in {None, r} /\ r \in todo[t]
      BY <2>2, SMT DEF Pick, At, Exclude, lockVars, PlaceSays, ReadAt, WriteAt, DeleteAt, TypeOK
    <3>2. todo'[t] = todo[t] \ {r} /\ todo[t] \subseteq Revs
      BY <2>2 DEF Pick, TypeOK
    <3>q. QED
      BY <3>1, <3>2 DEF Doomed, Deleting
  <2>q. QED
    BY <2>1, <2>2
<1>3. Spares(t)'
  <2> SUFFICES ASSUME Wrote(t)'
               PROVE  /\ Want[t] \notin Doomed(t)' /\ on'[t] \notin todo'[t]
                      /\ \A r \in Doomed(t)' :
                           r \in late' \/ Cardinality((newer'[r] \cup late') \ Doomed(t)') >= History
    BY DEF Spares
  <2>1. /\ Want[t] \notin Doomed(t) /\ on[t] \notin todo[t]
        /\ \A r \in Doomed(t) : r \in late \/ Cardinality((newer[r] \cup late) \ Doomed(t)) >= History
    BY <1>1, <1>2 DEF Spares, Wrote, Deleting
  <2>2. ASSUME NEW r \in Doomed(t)', r \notin late'
        PROVE  Cardinality((newer'[r] \cup late') \ Doomed(t)') >= History
    <3> DEFINE Above == newer[r] \cup late
    <3>1. newer'[r] \cup late' = Above /\ Above \subseteq Revs /\ r \notin late /\ r \in Doomed(t)
      BY <1>1, <1>2, <2>2 DEF TypeOK
    <3>2. Cardinality(Above \ Doomed(t)) >= History
      BY <2>1, <3>1
    <3> HIDE DEF Above
    <3>3. IsFiniteSet(Above \ Doomed(t)') /\ IsFiniteSet(Above \ Doomed(t))
      BY <3>1, FS_Subset
    <3>4. Cardinality(Above \ Doomed(t)) <= Cardinality(Above \ Doomed(t)')
      BY <1>2, <3>3, FS_Subset
    <3>5. Cardinality(Above \ Doomed(t)') >= History
      BY <3>2, <3>3, <3>4, FS_CardinalityType, SMT
    <3>q. QED
      BY <3>1, <3>5
  <2>q. QED
    BY <1>2, <2>1, <2>2
<1>q. QED
  BY <1>1, <1>3, StampsKept

(* What was queued lands or is lost: a manifest that lands without the     *)
(* gateway counts as late, and with it nobody is deleting.                 *)
LEMMA LandPlans ==
  ASSUME HistInv, PathInv', NEW t \in Tasks, Land(t)
  PROVE  HistInv'
<1> USE PathAssumption, NoneIsNoRev
<1> TypeOK /\ PlaceSays(t) /\ Agrees(t) /\ TypeOK' /\ StampsAreAnOrder
  BY DEF HistInv, PathInv
<1>1. UNCHANGED <<on, pc, todo, wrote>>
  BY DEF Land, LandBlobs, LandManifest, Lose, Write, lockVars
<1>2. CASE UNCHANGED <<content, newer, late>>
  <2>1. Spares(t)'
    BY <1>1, <1>2, PlanStays DEF HistInv
  <2>q. QED
    BY <1>1, <1>2, <2>1, StampsKept DEF Elsewhere, LateKept
<1>3. ASSUME NEW part \in {"mirror", "blobs", "manifest"}, LandManifest(t, part) PROVE HistInv'
  <2>1. PICK r \in Revs, v \in Nat : /\ v # 0 /\ content' = [content EXCEPT ![r] = v]
                                     /\ r = Goes(t, part)
    <3>1. part = "mirror" \/ made[t] # 0
      BY <1>3 DEF LandManifest, Write, Agrees
    <3>2. Goes(t, part) \in Revs /\ made[t] \in Nat
      BY SMT DEF Goes, TypeOK
    <3>3. 1 \in Nat /\ 1 # 0
      BY SMT
    <3>q. QED
      BY <1>3, <3>1, <3>2, <3>3 DEF LandManifest
  <2>2. PICK S \in SUBSET (Entries \ {r}) :
          (\A x \in S : newer[x] \ {r} \subseteq S) /\ newer' = Stamped(r, S)
    BY <1>3, <2>1 DEF LandManifest
  <2>3. late' = IF pc[t] \in Locked THEN late ELSE late \cup {r}
    BY <1>3, <2>1 DEF LandManifest
  <2>4. Entries' = Entries \cup {r}
    BY <2>1, SMT DEF Entries, TypeOK
  <2>5. StampsAreAnOrder'
    BY <2>2, <2>4, StampedOrder
  <2>6. ASSUME NEW u \in Tasks PROVE Spares(u)'
    <3>1. ASSUME pc[u] \in Deleting PROVE late' = late \cup {r}
      <4>1. pc[t] \in Locked => hold[t] # "none"
        BY DEF PlaceSays, Locked, GateAt, ReadAt, WriteAt
      <4>2. pc[t] \in Locked => u # t
        BY <3>1 DEF Locked, Deleting, DeleteAt
      <4>q. QED
        BY <2>3, <3>1, <4>1, <4>2, DeleterAlone DEF HistInv
    <3>2. \A x \in Revs : x \in Entries \/ newer[x] = {}
      BY SMT DEF StampsAreAnOrder, TypeOK
    <3>3. \A x \in Revs \ {r} : newer[x] \subseteq newer'[x] \cup {r}
      BY <2>2, SMT DEF Stamped, TypeOK
    <3>4. pc[u] \in Deleting =>
            late \subseteq late' /\ \A x \in Revs : x \in late' \/ newer[x] \subseteq newer'[x] \cup late'
      BY <3>1, <3>3
    <3>q. QED
      BY <1>1, <3>4, PlanStays DEF HistInv
  <2>q. QED
    BY <2>5, <2>6 DEF HistInv
<1>q. QED
  BY <1>2, <1>3 DEF Land, LandBlobs, Lose

(* A manifest is deleted, with its stamp.                                  *)
LEMMA DeletePlans ==
  ASSUME HistInv, PathInv', NEW t \in Tasks, DeleteManifest(t)
  PROVE  HistInv'
<1> DEFINE d == on[t]
<1> USE PathAssumption, NoneIsNoRev
<1> TypeOK /\ PlaceSays(t) /\ Spares(t) /\ TypeOK' /\ StampsAreAnOrder
  BY DEF HistInv, PathInv
<1>1. /\ pc[t] = "manifest" /\ on'[t] = None /\ todo' = todo /\ wrote' = wrote /\ late' = late \ {d}
      /\ content' = [content EXCEPT ![d] = 0] /\ newer' = Unstamped(d) /\ Elsewhere(t)
  BY SMT DEF DeleteManifest, At, LetGo, pathVars, Elsewhere, TypeOK
<1>2. d \in Revs
  BY <1>1, SMT DEF PlaceSays, TypeOK, DeleteAt
<1>3. StampsAreAnOrder'
  <2>1. Entries' = Entries \ {d}
    BY <1>1, <1>2, SMT DEF Entries, TypeOK
  <2>q. QED
    BY <1>1, <1>2, <2>1, UnstampedOrder, SMT
<1>4. ASSUME NEW u \in Tasks \ {t} PROVE Spares(u)'
  <2>1. pc[u] \notin Deleting /\ pc'[u] = pc[u]
    <3>1. hold[t] # "none"
      BY <1>1 DEF PlaceSays, GateAt, ReadAt, WriteAt, DeleteAt
    <3>q. QED
      BY <1>1, <3>1, DeleterAlone DEF HistInv, Elsewhere
  <2>q. QED
    BY <2>1 DEF Spares, Deleting
<1>5. Spares(t)'
  <2> SUFFICES ASSUME Wrote(t)'
               PROVE  /\ Want[t] \notin Doomed(t)' /\ on'[t] \notin todo'[t]
                      /\ \A r \in Doomed(t)' :
                           r \in late' \/ Cardinality((newer'[r] \cup late') \ Doomed(t)') >= History
    BY DEF Spares
  <2>1. /\ Want[t] \notin Doomed(t) /\ on[t] \notin todo[t]
        /\ \A r \in Doomed(t) : r \in late \/ Cardinality((newer[r] \cup late) \ Doomed(t)) >= History
    BY <1>1 DEF Spares, Wrote, DeleteAt
  <2>2. Doomed(t)' = todo[t] /\ Doomed(t) = todo[t] \cup {d} /\ todo[t] \subseteq Revs
    BY <1>1, <1>2, SMT DEF Doomed, TypeOK
  <2>3. ASSUME NEW r \in todo[t], r \notin late'
        PROVE  Cardinality((newer'[r] \cup late') \ todo[t]) >= History
    <3>1. r \in Revs /\ r # d /\ r \notin late
      BY <1>1, <2>1, <2>2, <2>3
    <3>2. Cardinality((newer[r] \cup late) \ (todo[t] \cup {d})) >= History
      BY <2>1, <2>2, <3>1
    <3>3. newer'[r] = newer[r] \ {d}
      BY <1>1, <3>1, SMT DEF Unstamped
    <3>4. (newer'[r] \cup late') \ todo[t] = (newer[r] \cup late) \ (todo[t] \cup {d})
      BY <1>1, <3>3
    <3>q. QED
      BY <3>2, <3>4
  <2>q. QED
    BY <1>1, <2>1, <2>2, <2>3
<1>q. QED
  BY <1>3, <1>4, <1>5 DEF HistInv

(* No manifest has a stamp at the start.                                   *)
LEMMA InitHist == Init => HistInv
<1> SUFFICES ASSUME Init PROVE HistInv
  OBVIOUS
<1>1. StampsAreAnOrder
  BY DEF Init, StampsAreAnOrder, Entries
<1>2. \A t \in Tasks : Spares(t)
  BY DEF Init, Spares, Wrote
<1>q. QED
  BY <1>1, <1>2, InitPath DEF HistInv

(* Every step keeps the stamps an order and the plans of the trims sparing. *)
LEMMA NextHist == HistInv /\ [Next]_vars => HistInv'
<1> SUFFICES ASSUME HistInv, [Next]_vars PROVE HistInv'
  OBVIOUS
<1>1. PathInv'
  BY NextPath DEF HistInv
<1>2. ASSUME NEW t \in Tasks, Work(t) PROVE HistInv'
  BY <1>1, <1>2, OtherSteps, ListPlans, PickPlans, DeletePlans DEF Work
<1>3. ASSUME NEW t \in Tasks, Land(t) \/ Contend(t) \/ CopyBlobs(t) \/ Finish(t) \/ Stop(t) PROVE HistInv'
  BY <1>1, <1>3, LandPlans, OtherSteps
<1>4. CASE UNCHANGED vars
  <2>1. UNCHANGED <<on, content, todo, newer, wrote, late, pc>>
    BY <1>4 DEF vars, absVars, lockVars, pathVars, histVars
  <2>2. StampsAreAnOrder' /\ \A t \in Tasks : Spares(t)'
    BY <2>1, SMT DEF HistInv, StampsAreAnOrder, Entries, Spares, Wrote, Doomed
  <2>q. QED
    BY <1>1, <2>2 DEF HistInv
<1>q. QED
  BY <1>2, <1>3, <1>4 DEF Next, Idle

(* Whatever lands and is deleted meanwhile, what a trim still has to       *)
(* delete has as many entries that it leaves, newer or landed since, as    *)
(* are kept, or has itself landed since.                                   *)
THEOREM TrimsSpare == Spec => []HistInv
BY InitHist, NextHist, PTL DEF Spec

(* What a trim deletes is not the revision it was submitted for, nor, at   *)
(* the time of the deletion, one of the newest, but for what has landed    *)
(* without the gateway since: that it may delete, or have to count.        *)
THEOREM TrimsKeepNewest == Spec => TrimKeepsNewest
<1> DEFINE Over(r) == r \in late \/ Cardinality(newer[r] \cup late) >= History
           Kept == \A t \in Tasks : Wrote(t) /\ pc[t] = "manifest" /\ pc'[t] = "deleting" =>
                     /\ on[t] # Want[t]
                     /\ on[t] \in Newest => Over(on[t])
<1>1. HistInv => Kept
  <2> SUFFICES ASSUME HistInv, NEW t \in Tasks, Wrote(t), pc[t] = "manifest"
               PROVE  on[t] # Want[t] /\ Over(on[t])
    OBVIOUS
  <2> DEFINE Above == newer[on[t]] \cup late
  <2>1. TypeOK /\ PlaceSays(t) /\ Spares(t)
    BY DEF HistInv, PathInv
  <2>2. on[t] \in Doomed(t) /\ on[t] \in Revs
    BY <2>1 DEF PlaceSays, DeleteAt, Doomed, TypeOK
  <2>3. /\ Want[t] \notin Doomed(t)
        /\ on[t] \in late \/ Cardinality(Above \ Doomed(t)) >= History
    BY <2>1, <2>2 DEF Spares, DeleteAt
  <2>4. Above \subseteq Revs
    BY <2>1, <2>2 DEF TypeOK
  <2> HIDE DEF Above
  <2>5. IsFiniteSet(Above) /\ IsFiniteSet(Above \ Doomed(t))
    BY <2>4, PathAssumption, FS_Subset
  <2>6. Cardinality(Above \ Doomed(t)) <= Cardinality(Above)
    BY <2>5, FS_Subset
  <2>7. on[t] \in late \/ Cardinality(Above) >= History
    BY <2>3, <2>5, <2>6, PathAssumption, FS_CardinalityType, SMT
  <2>q. QED
    BY <2>2, <2>3, <2>7 DEF Above
<1>2. TrimKeepsNewest <=> [][Kept]_vars
  BY DEF TrimKeepsNewest
<1>q. QED
  BY <1>1, <1>2, TrimsSpare, PTL
=============================================================================
