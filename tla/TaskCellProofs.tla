---------------------------- MODULE TaskCellProofs ---------------------------
(***************************************************************************)
(* The task cell keeps its waiters' tasks, for any number of callers and   *)
(* generations, inline-first or not, with or without a runtime shutdown.   *)
(*                                                                         *)
(* The counter is counted first: an action moves at most one caller into   *)
(* or out of Interested(g).  The rest of the invariant uses the counter    *)
(* only where cancel_abandoned reads zero.  On top of it, the places a     *)
(* task's handle can be in bound how many bodies can run.                  *)
(***************************************************************************)
EXTENDS TaskCell, TLAPS, FiniteSetTheorems

(* Few leaves need arithmetic: those name SMT.                             *)
USE Zenon

(* What the rest of the invariant says.                                    *)
Kept ==
  \A c \in Callers :
    pc[c] \in Waiting /\ outcome[own[c]] = "none" => map = own[c] /\ ~aborted[own[c]]

(* The type invariant without the range of the counters.                   *)
Shape ==
  /\ map \in Gens \cup {None} /\ graves \in Gens \cup {None} /\ born \in 0 .. MaxGen
  /\ outcome \in [Gens -> {"none", "ok", "poison"}]
  /\ slot \in [Gens -> BOOLEAN]
  /\ phase \in [Gens -> {"unborn", "draining", "body", "notifying", "dead"}]
  /\ grave \in [Gens -> Gens \cup {None}]
  /\ polling \in [Gens -> BOOLEAN] /\ aborted \in [Gens -> BOOLEAN]
  /\ pc \in [Callers -> Waiting \cup {"idle", "cancelling", "aborting"}]
  /\ own \in [Callers -> Gens \cup {None}]
  /\ woken \in [Callers -> BOOLEAN]
  /\ down \in BOOLEAN /\ lost \in BOOLEAN /\ inlineFirst \in BOOLEAN

Counters == interest \in [Gens -> Nat] /\ InterestIsWaiters

Rest == Shape /\ Kept /\ EndsWithOutcome /\ Unborn /\ Unfinished /\ AbortsTheEvicted

(* CellInv is the conjunction of the two halves that are proved apart.     *)
LEMMA Halves == CellInv <=> Rest /\ Counters
  BY DEF CellInv, Rest, Counters, Shape, Kept, TypeOK, WaitersKeepTheirTask

(* Adding one caller to a finite set of callers counts one more.           *)
LEMMA CountIn ==
  ASSUME NEW S \in SUBSET Callers, NEW c \in Callers, c \notin S
  PROVE  Cardinality(S \cup {c}) = Cardinality(S) + 1 /\ Cardinality(S) \in Nat
<1>1. IsFiniteSet(S)
  BY FS_Subset, CallersFinite
<1> QED BY <1>1, FS_AddElement, FS_CardinalityType

(* Removing one counts one less.                                           *)
LEMMA CountOut ==
  ASSUME NEW S \in SUBSET Callers, NEW c \in S
  PROVE  Cardinality(S \ {c}) = Cardinality(S) - 1 /\ Cardinality(S) - 1 \in Nat
<1>1. IsFiniteSet(S)
  BY FS_Subset, CallersFinite
<1>2. IsFiniteSet(S \ {c}) /\ Cardinality(S \ {c}) = Cardinality(S) - 1
  BY <1>1, FS_RemoveElement
<1> QED BY <1>2, FS_CardinalityType

(* A counter that reads zero has nobody behind it.                         *)
LEMMA ZeroIsNobody ==
  ASSUME Counters, NEW g \in Gens, interest[g] = 0
  PROVE  Interested(g) = {}
<1>1. IsFiniteSet(Interested(g))
  BY FS_Subset, CallersFinite DEF Interested
<1> QED BY <1>1, FS_EmptySet DEF Counters, InterestIsWaiters

(* A step that moves no caller in or out of a wait keeps the counters.     *)
LEMMA CountersStay ==
  ASSUME Counters, interest' = interest,
         \A g \in Gens : Interested(g)' = Interested(g)
  PROVE  Counters'
  BY DEF Counters, InterestIsWaiters

(* One caller starts to wait on h, which counts it.                        *)
LEMMA CountersIn ==
  ASSUME Counters, NEW c \in Callers, NEW h \in Gens, c \notin Interested(h),
         Interested(h)' = Interested(h) \cup {c},
         \A g \in Gens \ {h} : Interested(g)' = Interested(g),
         interest' = [interest EXCEPT ![h] = @ + 1]
  PROVE  Counters'
<1>1. Interested(h) \in SUBSET Callers
  BY DEF Interested
<1>2. interest'[h] = Cardinality(Interested(h)')
  BY <1>1, CountIn DEF Counters, InterestIsWaiters
<1> QED BY <1>2, SMT DEF Counters, InterestIsWaiters

(* One caller stops waiting on h, which discounts it.                      *)
LEMMA CountersOut ==
  ASSUME Counters, NEW h \in Gens, NEW c \in Interested(h),
         Interested(h)' = Interested(h) \ {c},
         \A g \in Gens \ {h} : Interested(g)' = Interested(g),
         interest' = [interest EXCEPT ![h] = @ - 1]
  PROVE  Counters'
<1>1. Interested(h) \in SUBSET Callers
  BY DEF Interested
<1>2. interest'[h] = Cardinality(Interested(h)') /\ interest'[h] \in Nat
  BY <1>1, CountOut DEF Counters, InterestIsWaiters
<1> QED BY <1>2, Zenon DEF Counters, InterestIsWaiters

(* Every action keeps the counters equal to the number of waiters.         *)
LEMMA CountersInductive ==
  ASSUME Rest, Counters, [Next]_vars
  PROVE  Counters'
<1>1. ASSUME NEW c \in Callers, Join(c) PROVE Counters'
  <2>1. PICK h \in Gens : h = map
    BY <1>1 DEF Join, Rest, Shape
  <2>2. c \notin Interested(h)
    BY <1>1 DEF Join, Interested, Waiting
  <2>3. Interested(h)' = Interested(h) \cup {c}
    BY <1>1, <2>1 DEF Join, Rest, Shape, Interested, Waiting
  <2>4. \A g \in Gens \ {h} : Interested(g)' = Interested(g)
    BY <1>1, <2>1 DEF Join, Rest, Shape, Interested, Waiting
  <2>5. interest' = [interest EXCEPT ![h] = @ + 1]
    BY <1>1, <2>1 DEF Join
  <2> QED BY <2>2, <2>3, <2>4, <2>5, CountersIn, Zenon
<1>2. ASSUME NEW c \in Callers, Build(c) PROVE Counters'
  <2>1. PICK h \in Gens : h = born + 1
    BY <1>2, MaxGenNat, SMT DEF Build, Rest, Shape, Gens
  <2>2. Interested(h) = {}
    <3>1. \A d \in Callers : own[d] \in 0 .. born
      BY SMT DEF Rest, Shape, Unborn, Gens, None
    <3>2. born \in Nat
      BY MaxGenNat, SMT DEF Rest, Shape
    <3> QED BY <2>1, <3>1, <3>2, SMT DEF Interested
  <2>3. Interested(h)' = Interested(h) \cup {c}
    BY <1>2, <2>1, <2>2 DEF Build, Rest, Shape, Interested, Waiting
  <2>4. \A g \in Gens \ {h} : Interested(g)' = Interested(g)
    BY <1>2, <2>1 DEF Build, Rest, Shape, Interested, Waiting
  <2>5. interest[h] = 0
    BY <2>2, FS_EmptySet DEF Counters, InterestIsWaiters
  <2>6. interest' = [interest EXCEPT ![h] = @ + 1]
    BY <1>2, <2>1, <2>5, SMT DEF Build, Counters
  <2> QED BY <2>2, <2>3, <2>4, <2>6, CountersIn, Zenon
<1>3. ASSUME NEW c \in Callers, Return(c) \/ Leave(c) PROVE Counters'
  <2>1. PICK h \in Gens : h = own[c]
    BY <1>3 DEF Return, Leave, Rest, Shape, Unfinished
  <2>2. c \in Interested(h)
    BY <1>3, <2>1 DEF Return, Leave, Interested, Waiting
  <2>3. Interested(h)' = Interested(h) \ {c}
    BY <1>3, <2>1 DEF Return, Leave, Rest, Shape, Gens, None, Interested, Waiting
  <2>4. \A g \in Gens \ {h} : Interested(g)' = Interested(g)
    BY <1>3, <2>1, SMT DEF Return, Leave, Rest, Shape, Gens, None, Interested, Waiting
  <2>5. interest' = [interest EXCEPT ![h] = @ - 1]
    BY <1>3, <2>1 DEF Return, Leave
  <2> QED BY <2>2, <2>3, <2>4, <2>5, CountersOut, Zenon
<1>4. ASSUME NEW c \in Callers, CallerStep(c), ~Return(c) PROVE Counters'
  <2>1. interest' = interest
    BY <1>4 DEF CallerStep, InlineDone, InlinePending, SpawnFails, Look, Park,
                Wake, CancelStandsDown, CancelEvict, Abort
  <2>2. \A g \in Gens : Interested(g)' = Interested(g)
    <3>1. CASE InlineDone(c) \/ InlinePending(c) \/ SpawnFails(c)
      BY <3>1, SMT DEF InlineDone, InlinePending, SpawnFails, Rest, Shape, Interested, Waiting
    <3>2. CASE Look(c) \/ Park(c) \/ Wake(c)
      BY <3>2, SMT DEF Look, Park, Wake, Rest, Shape, Interested, Waiting
    <3>3. CASE CancelStandsDown(c) \/ Abort(c)
      BY <3>3, SMT DEF CancelStandsDown, Abort, Rest, Shape, Interested, Waiting
    <3>4. CASE CancelEvict(c)
      BY <3>4 DEF CancelEvict, ParkHandle, Rest, Shape, Interested, Waiting
    <3> QED BY <1>4, <3>1, <3>2, <3>3, <3>4 DEF CallerStep
  <2> QED BY <2>1, <2>2, CountersStay
<1>5. ASSUME UNCHANGED <<interest, pc, own>> PROVE Counters'
  <2>1. \A g \in Gens : Interested(g)' = Interested(g)
    BY <1>5 DEF Interested
  <2> QED BY <1>5, <2>1, CountersStay
<1>6. ASSUME NEW g \in Gens, TaskStep(g) PROVE Counters'
  BY <1>5, <1>6 DEF TaskStep, BeginPoll, EndPoll, DrainAwait, DrainCheck, Publish, BodyPanics,
              DropAborted, Notify
<1>7. ASSUME EvictIf \/ ShutDown \/ UNCHANGED vars PROVE Counters'
  BY <1>5, <1>7 DEF EvictIf, ShutDown, vars
<1> QED BY <1>1, <1>2, <1>3, <1>4, <1>6, <1>7 DEF Next

(* Every action keeps the rest of the invariant.                           *)
LEMMA RestInductive ==
  ASSUME Rest, Counters, [Next]_vars
  PROVE  Rest'
<1> USE MaxGenNat DEF Rest, Shape, Kept, EndsWithOutcome, Unborn, Unfinished, AbortsTheEvicted,
                      Waiting, IsDone, Gens, None
<1>1. ASSUME NEW c \in Callers, Join(c) PROVE Rest'
  BY <1>1, SMT DEF Join
<1>2. ASSUME NEW c \in Callers, Build(c) PROVE Rest'
  <2>1. Shape'
    <3>1. born + 1 \in Gens
      BY <1>2, SMT DEF Build
    <3>2. /\ map' \in Gens \cup {None} /\ graves' \in Gens \cup {None}
          /\ born' \in 0 .. MaxGen
          /\ grave' \in [Gens -> Gens \cup {None}]
          /\ own' \in [Callers -> Gens \cup {None}]
      BY <1>2, <3>1, SMT DEF Build
    <3>3. slot' \in [Gens -> BOOLEAN] /\ polling' \in [Gens -> BOOLEAN]
      BY <1>2, <3>1 DEF Build
    <3>4. /\ phase' \in [Gens -> {"unborn", "draining", "body", "notifying", "dead"}]
          /\ pc' \in [Callers -> Waiting \cup {"idle", "cancelling", "aborting"}]
      BY <1>2, <3>1 DEF Build
    <3> QED BY <1>2, <3>2, <3>3, <3>4 DEF Build
  <2>2. Kept'
    BY <1>2, SMT DEF Build
  <2>3. EndsWithOutcome'
    BY <1>2, SMT DEF Build
  <2>4. Unborn'
    <3>1. born \in Nat /\ born' = born + 1 /\ map' = born'
      BY <1>2, SMT DEF Build
    <3>2. \A d \in Callers : own'[d] <= born'
      <4>1. \A d \in Callers : own'[d] = own[d] \/ own'[d] = born + 1
        BY <1>2 DEF Build
      <4>2. \A d \in Callers : own[d] \in Int /\ own[d] <= born
        BY SMT
      <4> QED BY <3>1, <4>1, <4>2, SMT
    <3>3. ASSUME NEW g \in Gens, g > born'
          PROVE  phase'[g] = "unborn" /\ outcome'[g] = "none" /\ ~slot'[g] /\ ~aborted'[g]
      BY <1>2, <3>1, <3>3, SMT DEF Build
    <3> QED BY <3>1, <3>2, <3>3, SMT
  <2>5. Unfinished'
    BY <1>2, SMT DEF Build
  <2>6. AbortsTheEvicted'
    BY <1>2, SMT DEF Build
  <2> QED BY <2>1, <2>2, <2>3, <2>4, <2>5, <2>6
<1>3. ASSUME NEW c \in Callers, InlineDone(c) \/ Look(c) \/ Park(c) \/ Wake(c) PROVE Rest'
  <2>1. Shape'
    BY <1>3, Zenon DEF InlineDone, Look, Park, Wake
  <2>2. Kept'
    BY <1>3, SMT DEF InlineDone, Look, Park, Wake
  <2>3. EndsWithOutcome'
    BY <1>3 DEF InlineDone, Look, Park, Wake
  <2>4. Unborn'
    BY <1>3, SMT DEF InlineDone, Look, Park, Wake
  <2>5. Unfinished'
    BY <1>3, SMT DEF InlineDone, Look, Park, Wake
  <2>6. AbortsTheEvicted'
    BY <1>3, SMT DEF InlineDone, Look, Park, Wake
  <2> QED BY <2>1, <2>2, <2>3, <2>4, <2>5, <2>6
<1>4. ASSUME NEW c \in Callers, InlinePending(c) PROVE Rest'
  BY <1>4, SMT DEF InlinePending, Suspends
<1>5. ASSUME NEW c \in Callers, SpawnFails(c) PROVE Rest'
  <2>1. DropBody(own[c]) /\ own[c] \in Gens
    BY <1>5 DEF SpawnFails, Suspends
  <2>2. Shape'
    <3>1. lost' \in BOOLEAN
      BY <2>1, Zenon DEF DropBody, PutInGrave
    <3>2. slot' \in [Gens -> BOOLEAN]
      BY <1>5, <2>1 DEF SpawnFails
    <3>3. grave' \in [Gens -> Gens \cup {None}] /\ graves' \in Gens \cup {None}
      BY <2>1, SMT DEF DropBody, PutInGrave
    <3> QED BY <1>5, <2>1, <3>1, <3>2, <3>3, SMT DEF SpawnFails, DropBody
  <2>3. Kept'
    BY <1>5, <2>1, SMT DEF SpawnFails, DropBody
  <2>4. EndsWithOutcome'
    BY <1>5, <2>1, SMT DEF SpawnFails, DropBody, Suspends
  <2>5. Unborn'
    BY <1>5, <2>1, SMT DEF SpawnFails, DropBody
  <2>6. Unfinished'
    BY <1>5, <2>1, SMT DEF SpawnFails, DropBody
  <2>7. AbortsTheEvicted'
    BY <1>5, <2>1 DEF SpawnFails, DropBody
  <2> QED BY <2>2, <2>3, <2>4, <2>5, <2>6, <2>7
<1>6. ASSUME NEW c \in Callers, Return(c) PROVE Rest'
  BY <1>6, SMT DEF Return
<1>7. ASSUME NEW c \in Callers, Leave(c) PROVE Rest'
  <2>1. Shape'
    BY <1>7, ZenonT(60) DEF Leave
  <2>2. Kept'
    BY <1>7, SMT DEF Leave
  <2>3. EndsWithOutcome'
    BY <1>7 DEF Leave
  <2>4. Unborn'
    <3>1. \A d \in Callers : own'[d] = own[d] \/ own'[d] = 0
      BY <1>7, SMT DEF Leave
    <3> QED BY <1>7, <3>1, SMT DEF Leave
  <2>5. Unfinished'
    BY <1>7, SMT DEF Leave
  <2>6. AbortsTheEvicted'
    BY <1>7, SMT DEF Leave
  <2> QED BY <2>1, <2>2, <2>3, <2>4, <2>5, <2>6
<1>8. ASSUME NEW c \in Callers, CancelStandsDown(c) PROVE Rest'
  BY <1>8, SMT DEF CancelStandsDown
<1>9. ASSUME NEW c \in Callers, CancelEvict(c) PROVE Rest'
  BY <1>9, ZeroIsNobody, SMT DEF CancelEvict, ParkHandle, PutInGrave, Interested
<1>10. ASSUME NEW c \in Callers, Abort(c) PROVE Rest'
  BY <1>10, SMT DEF Abort
<1>11. ASSUME NEW g \in Gens, BeginPoll(g) \/ EndPoll(g) \/ DrainAwait(g) PROVE Rest'
  <2>1. Shape'
    <3>1. CASE BeginPoll(g) BY <3>1 DEF BeginPoll
    <3>2. CASE EndPoll(g) BY <3>2 DEF EndPoll
    <3>3. CASE DrainAwait(g) BY <3>3 DEF DrainAwait
    <3> QED BY <1>11, <3>1, <3>2, <3>3
  <2>2. Kept'
    BY <1>11, SMT DEF BeginPoll, EndPoll, DrainAwait
  <2>3. EndsWithOutcome'
    BY <1>11, SMT DEF BeginPoll, EndPoll, DrainAwait
  <2>4. Unborn'
    BY <1>11, SMT DEF BeginPoll, EndPoll, DrainAwait
  <2>5. Unfinished'
    BY <1>11 DEF BeginPoll, EndPoll, DrainAwait
  <2>6. AbortsTheEvicted'
    BY <1>11 DEF BeginPoll, EndPoll, DrainAwait
  <2> QED BY <2>1, <2>2, <2>3, <2>4, <2>5, <2>6
<1>12. ASSUME NEW g \in Gens, DrainCheck(g) PROVE Rest'
  BY <1>12, SMT DEF DrainCheck
<1>13. ASSUME NEW g \in Gens, Publish(g) PROVE Rest'
  BY <1>13, SMT DEF Publish
<1>14. ASSUME NEW g \in Gens, BodyPanics(g) \/ DropAborted(g) PROVE Rest'
  <2>1. Shape'
    <3>1. DropBody(g) /\ UNCHANGED <<map, born, slot, aborted, pc, own, woken, down, inlineFirst>>
      BY <1>14 DEF BodyPanics, DropAborted
    <3>2. outcome' \in [Gens -> {"none", "ok", "poison"}]
      BY <3>1 DEF DropBody
    <3>3. grave' \in [Gens -> Gens \cup {None}] /\ graves' \in Gens \cup {None}
      BY <3>1, SMT DEF DropBody, PutInGrave
    <3>4. lost' \in BOOLEAN
      BY <3>1, Zenon DEF DropBody, PutInGrave
    <3> QED BY <3>1, <3>2, <3>3, <3>4 DEF DropBody
  <2>2. Kept'
    BY <1>14, SMT DEF BodyPanics, DropAborted, DropBody
  <2>3. EndsWithOutcome'
    BY <1>14, SMT DEF BodyPanics, DropAborted, DropBody
  <2>4. Unborn'
    BY <1>14, SMT DEF BodyPanics, DropAborted, DropBody
  <2>5. Unfinished'
    BY <1>14, SMT DEF BodyPanics, DropAborted, DropBody
  <2>6. AbortsTheEvicted'
    BY <1>14 DEF BodyPanics, DropAborted, DropBody
  <2> QED BY <2>1, <2>2, <2>3, <2>4, <2>5, <2>6
<1>15. ASSUME NEW g \in Gens, Notify(g) PROVE Rest'
  BY <1>15 DEF Notify
<1>16. ASSUME EvictIf \/ ShutDown \/ UNCHANGED vars PROVE Rest'
  <2>1. Shape'
    BY <1>16, Zenon DEF EvictIf, ShutDown, vars
  <2>2. Kept'
    BY <1>16, SMT DEF EvictIf, ShutDown, vars
  <2>3. EndsWithOutcome'
    BY <1>16 DEF EvictIf, ShutDown, vars
  <2>4. Unborn'
    BY <1>16, SMT DEF EvictIf, ShutDown, vars
  <2>5. Unfinished'
    BY <1>16 DEF EvictIf, ShutDown, vars
  <2>6. AbortsTheEvicted'
    BY <1>16 DEF EvictIf, ShutDown, vars
  <2> QED BY <2>1, <2>2, <2>3, <2>4, <2>5, <2>6
<1> QED BY <1>1, <1>2, <1>3, <1>4, <1>5, <1>6, <1>7, <1>8, <1>9, <1>10, <1>11, <1>12, <1>13, <1>14, <1>15, <1>16, Zenon DEF Next, CallerStep, TaskStep

(* The invariant of the task cell is inductive.                            *)
THEOREM CellInvariant == Spec => []CellInv
<1>1. Init => CellInv
  <2> SUFFICES ASSUME Init PROVE Rest /\ Counters
    BY Halves
  <2>1. Rest
    <3>1. Shape
      <4>1. /\ slot \in [Gens -> BOOLEAN] /\ polling \in [Gens -> BOOLEAN]
            /\ aborted \in [Gens -> BOOLEAN] /\ woken \in [Callers -> BOOLEAN]
            /\ down \in BOOLEAN /\ lost \in BOOLEAN
        BY Zenon DEF Init
      <4>0. inlineFirst \in BOOLEAN
        BY SettingsType, SMT DEF Init
      <4>2. /\ outcome \in [Gens -> {"none", "ok", "poison"}]
            /\ phase \in [Gens -> {"unborn", "draining", "body", "notifying", "dead"}]
            /\ grave \in [Gens -> Gens \cup {None}]
            /\ pc \in [Callers -> Waiting \cup {"idle", "cancelling", "aborting"}]
            /\ own \in [Callers -> Gens \cup {None}]
        BY DEF Init
      <4>3. map \in Gens \cup {None} /\ graves \in Gens \cup {None} /\ born \in 0 .. MaxGen
        BY MaxGenNat, SMT DEF Init, None
      <4> QED BY <4>0, <4>1, <4>2, <4>3 DEF Shape
    <3>2. Kept /\ EndsWithOutcome /\ Unfinished /\ AbortsTheEvicted
      BY DEF Init, Kept, EndsWithOutcome, Unfinished, AbortsTheEvicted, Waiting, IsDone, None
    <3>3. Unborn
      BY MaxGenNat, SMT DEF Init, Unborn, Gens, None
    <3> QED BY <3>1, <3>2, <3>3 DEF Rest
  <2>2. \A g \in Gens : Interested(g) = {}
    BY DEF Init, Interested, Waiting
  <2>3. Counters
    BY <2>2, FS_EmptySet DEF Init, Counters, InterestIsWaiters
  <2> QED BY <2>1, <2>3
<1>2. CellInv /\ [Next]_vars => CellInv'
  <2>1. CellInv' <=> Rest' /\ Counters'
    BY DEF CellInv, Rest, Counters, Shape, Kept, TypeOK, WaitersKeepTheirTask
  <2> QED BY <2>1, Halves, RestInductive, CountersInductive
<1> QED BY <1>1, <1>2, PTL DEF Spec

(* Every variable keeps its type; the interest never underflows.           *)
THEOREM CellTypes == Spec => []TypeOK
  BY CellInvariant, PTL DEF CellInv

(* Nobody waits on a cancelled task, whatever the interleaving of joins,   *)
(* departures and cancellations.                                           *)
THEOREM NobodyStranded == Spec => []WaitersKeepTheirTask
  BY CellInvariant, PTL DEF CellInv

(* A task that ended left an outcome, and a completed cell pins no handle. *)
THEOREM OutcomeLeft == Spec => []EndsWithOutcome
  BY CellInvariant, PTL DEF CellInv

(* A cell leaves the map only when unwanted or done.                       *)
THEOREM OnlyAbandonedEvicted == Spec => EvictsOnlyAbandoned
<1>1. CellInv /\ [Next]_vars =>
        [map # None /\ map' # map => IsDone(map) \/ interest[map] = 0]_vars
  <2> SUFFICES ASSUME CellInv, Next, map # None, map' # map
               PROVE  IsDone(map) \/ interest[map] = 0
    OBVIOUS
  <2>1. ASSUME NEW c \in Callers, CancelEvict(c) PROVE interest[map] = 0
    BY <2>1 DEF CancelEvict
  <2>2. ASSUME EvictIf PROVE IsDone(map)
    BY <2>2 DEF EvictIf
  <2>3. ASSUME NEW g \in Gens, TaskStep(g) PROVE FALSE
    BY <2>3 DEF TaskStep, BeginPoll, EndPoll, DrainAwait, DrainCheck, Publish, BodyPanics,
                DropAborted, Notify
  <2>4. ASSUME NEW c \in Callers, Join(c) \/ Build(c) \/ Leave(c) \/ CallerStep(c), ~CancelEvict(c)
        PROVE  FALSE
    BY <2>4 DEF Join, Build, Leave, CallerStep, InlineDone, InlinePending, SpawnFails, Look,
                Park, Wake, Return, CancelStandsDown, Abort
  <2>5. ~ShutDown
    BY DEF ShutDown
  <2> QED BY <2>1, <2>2, <2>3, <2>4, <2>5 DEF Next
<1> QED BY <1>1, CellInvariant, PTL DEF Spec, EvictsOnlyAbandoned

-----------------------------------------------------------------------------
(* One body per key as long as no handle is overwritten.  An action moves  *)
(* one handle, so at most one end appears or goes, and a start with it.    *)
Linked == HandleInOnePlace /\ EndsHaveStarts /\ NoTwoBodies

(* The absent handle is no generation.                                    *)
LEMMA NoneApart == None \notin Gens
  BY MaxGenNat, SMT DEF None, Gens

(* What becomes of the ends when one of them goes.                         *)
LEMMA EndSwapped ==
  ASSUME NEW S, NEW T, NEW x \in S, NEW P, AtMostOne(P), \A g \in T : g # x /\ (g \in S \/ g \in P)
  PROVE  /\ AtMostTwo(S) => AtMostTwo(T)
         /\ AtMostOne(S) => AtMostOne(T)
         /\ P = {} /\ AtMostTwo(S) => AtMostOne(T)
         /\ P = {} /\ AtMostOne(S) => T = {}
  BY DEF AtMostOne, AtMostTwo

(* What becomes of them when one appears.                                  *)
LEMMA EndAdded ==
  ASSUME NEW S, NEW T, NEW P, AtMostOne(P), \A g \in T : g \in S \/ g \in P
  PROVE  /\ AtMostOne(S) => AtMostTwo(T)
         /\ S = {} => AtMostOne(T)
         /\ P = {} /\ AtMostTwo(S) => AtMostTwo(T)
         /\ P = {} /\ AtMostOne(S) => AtMostOne(T)
         /\ P = {} /\ S = {} => T = {}
  BY DEF AtMostOne, AtMostTwo

(* A task ends: who awaited it becomes an end, and what it awaited goes    *)
(* back to the grave.                                                      *)
LEMMA LinkedDrop ==
  ASSUME Shape, Linked, NEW x \in Gens, Alive(x), map' = map, born' = born,
         phase' = [phase EXCEPT ![x] = "notifying"],
         grave' = [grave EXCEPT ![x] = None],
         \/ grave[x] = None /\ graves' = graves
         \/ grave[x] # None /\ graves' = grave[x] /\ graves \in {None, x}
  PROVE  Linked'
<1> DEFINE P == {p \in Gens \ {x} : grave[p] = x}
<1>1. \A g \in Gens : /\ Alive(g)' <=> Alive(g) /\ g # x
                      /\ grave'[g] = IF g = x THEN None ELSE grave[g]
  BY DEF Shape, Alive
<1>2. HandleInOnePlace'
  BY <1>1, SMT DEF Shape, Linked, HandleInOnePlace
<1>3. NoTwoBodies'
  BY DEF Shape, Linked, NoTwoBodies
<1>4. \A h \in Gens \cup {None} : AliveIn(h)' <=> AliveIn(h) /\ h # x
  BY <1>1, NoneApart DEF AliveIn
<1>5. \A g \in Ends' : g # x /\ (g \in Ends \/ g \in P)
  BY <1>1, <1>4 DEF Ends, Shape
<1>6. AtMostOne(P)
  BY NoneApart DEF Linked, HandleInOnePlace, AtMostOne
<1>7. map = x \/ graves = x => P = {}
  BY NoneApart DEF Linked, HandleInOnePlace
<1>8. map \in Gens \cup {None} /\ graves \in Gens \cup {None} /\ grave[x] \in Gens \cup {None}
  BY DEF Shape
<1>9. ~(map = x /\ graves = x)
  BY NoneApart DEF Linked, HandleInOnePlace
<1>10. AliveIn(map)' <=> AliveIn(map) /\ map # x
  BY <1>4, <1>8
<1>11. AliveIn(x)
  BY NoneApart DEF AliveIn
<1> HIDE DEF P
<1>12. CASE x \in Ends
  <2>1. AliveIn(graves)' <=> AliveIn(graves) /\ graves # x
    <3>1. CASE grave[x] = None
      BY <1>4, <1>8, <3>1
    <3>2. CASE grave[x] # None
      <4>1. ~AliveIn(grave[x])
        BY <1>12 DEF Ends
      <4> QED BY <1>4, <1>8, <3>2, <4>1 DEF AliveIn
    <3> QED BY <3>1, <3>2
  <2>2. /\ AtMostTwo(Ends) => AtMostTwo(Ends')
        /\ AtMostOne(Ends) => AtMostOne(Ends')
        /\ P = {} /\ AtMostTwo(Ends) => AtMostOne(Ends')
        /\ P = {} /\ AtMostOne(Ends) => Ends' = {}
    BY <1>5, <1>6, <1>12, EndSwapped, SMT
  <2>3. EndsHaveStarts /\ Ends # {}
    BY <1>12 DEF Linked
  <2>4. AtMostTwo(Ends)' = AtMostTwo(Ends') /\ AtMostOne(Ends)' = AtMostOne(Ends')
    BY DEF AtMostOne, AtMostTwo
  <2> QED
    BY <1>2, <1>3, <1>7, <1>9, <1>10, <1>11, <2>1, <2>2, <2>3, <2>4, SMT DEF Linked, EndsHaveStarts
<1>13. CASE x \notin Ends
  <2>1. AliveIn(grave[x]) /\ grave[x] # None
    BY <1>13 DEF Ends, AliveIn
  <2>2. grave[x] # graves /\ graves' = grave[x] /\ graves \in {None, x}
    BY <2>1 DEF Linked, HandleInOnePlace
  <2>3. AliveIn(graves)' <=> grave[x] # x
    BY <1>4, <1>8, <2>1, <2>2
  <2>4. grave[x] = x => P = {} /\ graves = None /\ map # x
    <3>1. grave[x] = x => P = {}
      BY <2>1 DEF P, Linked, HandleInOnePlace
    <3> QED BY <2>1, <2>2, <3>1 DEF Linked, HandleInOnePlace
  <2>5. ~AliveIn(None)
    BY DEF AliveIn
  <2>6. /\ AtMostOne(Ends) => AtMostTwo(Ends')
        /\ Ends = {} => AtMostOne(Ends')
        /\ P = {} /\ AtMostTwo(Ends) => AtMostTwo(Ends')
        /\ P = {} /\ AtMostOne(Ends) => AtMostOne(Ends')
        /\ P = {} /\ Ends = {} => Ends' = {}
    BY <1>5, <1>6, EndAdded
  <2>7. EndsHaveStarts
    BY DEF Linked
  <2>8. AtMostTwo(Ends)' = AtMostTwo(Ends') /\ AtMostOne(Ends)' = AtMostOne(Ends')
    BY DEF AtMostOne, AtMostTwo
  <2>9. AtMostOne(Ends') => AtMostTwo(Ends')
    BY DEF AtMostOne, AtMostTwo
  <2> QED
    BY <1>2, <1>3, <1>7, <1>9, <1>10, <1>11, <2>2, <2>3, <2>4, <2>5, <2>6, <2>7, <2>8, <2>9, SMT
    DEF Linked, EndsHaveStarts
<1> QED
  BY <1>12, <1>13

(* A draining task takes the handle in the grave, or starts its body if    *)
(* there is none: then it is the only end.                                 *)
LEMMA LinkedCheck ==
  ASSUME Shape, Linked, NEW x \in Gens, DrainCheck(x)
  PROVE  Linked'
<1>1. /\ phase[x] = "draining" /\ grave[x] = None /\ map' = map /\ born' = born
      /\ grave' = [grave EXCEPT ![x] = graves] /\ graves' = None
      /\ phase' = [phase EXCEPT ![x] = IF graves = None THEN "body" ELSE @]
  BY DEF DrainCheck
<1>2. \A g \in Gens : /\ Alive(g)' <=> Alive(g)
                      /\ grave'[g] = IF g = x THEN graves ELSE grave[g]
  BY <1>1 DEF Shape, Alive
<1>3. \A h \in Gens \cup {None} : AliveIn(h)' <=> AliveIn(h)
  BY <1>2, NoneApart DEF AliveIn
<1>4. x \in Ends /\ ~AliveIn(None) /\ EndsHaveStarts
  BY <1>1 DEF Ends, Alive, AliveIn, Linked
<1>5. /\ AliveIn(map)' <=> AliveIn(map)
      /\ ~AliveIn(graves)'
  BY <1>1, <1>3 DEF Shape, AliveIn
<1>6. HandleInOnePlace'
  <2>1. graves' <= born'
    BY <1>1, MaxGenNat, SMT DEF Shape, None
  <2>2. ASSUME NEW g \in Gens, grave'[g] # None
        PROVE  /\ phase'[g] = "draining" /\ grave'[g] <= born'
               /\ grave'[g] # map' /\ grave'[g] # graves'
               /\ \A h \in Gens : grave'[h] = grave'[g] => h = g
    BY <1>1, <1>2, <2>2 DEF Shape, Linked, HandleInOnePlace
  <2> QED BY <1>1, <2>1, <2>2 DEF HandleInOnePlace
<1>7. AtMostTwo(Ends)' = AtMostTwo(Ends') /\ AtMostOne(Ends)' = AtMostOne(Ends')
  BY DEF AtMostOne, AtMostTwo
<1>8. CASE AliveIn(graves)
  <2>1. \A g \in Ends' : g # x /\ g \in Ends
    BY <1>1, <1>2, <1>3, <1>8, SMT DEF Ends, Shape
  <2>2. /\ AtMostTwo(Ends) => AtMostOne(Ends')
        /\ AtMostOne(Ends) => Ends' = {}
    BY <1>4, <2>1 DEF AtMostOne, AtMostTwo
  <2>3. EndsHaveStarts'
    <3>1. AtMostOne(Ends') => AtMostTwo(Ends')
      BY DEF AtMostOne, AtMostTwo
    <3>2. Ends' = {} => AtMostOne(Ends')
      BY DEF AtMostOne
    <3> QED BY <1>4, <1>5, <1>7, <1>8, <2>2, <3>1, <3>2 DEF EndsHaveStarts
  <2>4. NoTwoBodies'
    BY <1>1, <1>8 DEF Shape, Linked, NoTwoBodies, AliveIn
  <2> QED BY <1>6, <2>3, <2>4 DEF Linked
<1>9. CASE ~AliveIn(graves)
  <2>1. Ends' = Ends
    BY <1>1, <1>2, <1>3, <1>4, <1>9 DEF Ends, Shape
  <2>2. EndsHaveStarts'
    BY <1>4, <1>5, <1>7, <1>9, <2>1, SMT DEF EndsHaveStarts
  <2>3. AtMostOne(Ends)
    BY <1>4, <1>9 DEF EndsHaveStarts
  <2>4. \A g \in Gens : phase[g] = "body" => g \in Ends
    BY <1>4 DEF Linked, HandleInOnePlace, Ends, Alive, Shape
  <2>5. NoTwoBodies'
    BY <1>1, <1>4, <2>3, <2>4, SMT DEF Shape, Linked, NoTwoBodies, AtMostOne
  <2> QED BY <1>6, <2>2, <2>5 DEF Linked
<1> QED
  BY <1>8, <1>9

(* A handle awaited to its end is dropped, and links nothing.              *)
LEMMA LinkedAwait ==
  ASSUME Shape, Linked, NEW x \in Gens, DrainAwait(x)
  PROVE  Linked'
<1>1. /\ grave[x] # None /\ phase[grave[x]] = "dead" /\ map' = map /\ born' = born
      /\ grave' = [grave EXCEPT ![x] = None] /\ graves' = graves /\ phase' = phase
  BY DEF DrainAwait, Finished
<1>2. \A g \in Gens : grave'[g] = IF g = x THEN None ELSE grave[g]
  BY <1>1 DEF Shape
<1>3. ~AliveIn(grave[x]) /\ ~AliveIn(None)
  BY <1>1 DEF AliveIn, Alive
<1>4. Ends' = Ends
  BY <1>1, <1>2, <1>3 DEF Ends, AliveIn, Alive
<1>5. EndsHaveStarts'
  BY <1>1, <1>4 DEF Linked, EndsHaveStarts, AliveIn, Alive, AtMostOne, AtMostTwo
<1>6. HandleInOnePlace'
  BY <1>1, <1>2, SMT DEF Linked, HandleInOnePlace
<1> QED
  BY <1>1, <1>5, <1>6 DEF Linked, NoTwoBodies

(* A new task takes the handle in the grave with it.                       *)
LEMMA LinkedBuild ==
  ASSUME Shape, Unborn, Linked, NEW c \in Callers, Build(c)
  PROVE  Linked'
<1> DEFINE x == born + 1
<1>1. /\ map = None /\ map' = x /\ born' = x /\ graves' = None
      /\ grave' = [grave EXCEPT ![x] = graves]
      /\ phase' = [phase EXCEPT ![x] = "draining"]
  BY DEF Build
<1>2. x \in Gens /\ x > born /\ born \in Nat
  BY MaxGenNat, SMT DEF Build, Shape, Gens
<1>3. phase[x] = "unborn"
  BY <1>2 DEF Unborn
<1>4. grave[x] = None
  BY <1>2, <1>3 DEF Linked, HandleInOnePlace
<1>5. graves # x /\ \A g \in Gens : grave[g] # x
  <2>1. \A h \in Gens \cup {None} : h <= born => h # x
    BY <1>2, SMT DEF Gens, None
  <2>2. x # None
    BY <1>2, NoneApart
  <2> QED BY <2>1, <2>2 DEF Linked, HandleInOnePlace, Shape
<1> HIDE DEF x
<1>6. \A g \in Gens : /\ Alive(g)' <=> Alive(g) \/ g = x
                      /\ grave'[g] = IF g = x THEN graves ELSE grave[g]
  BY <1>1, <1>2 DEF Shape, Alive
<1>7. \A h \in Gens \cup {None} : h # x => (AliveIn(h)' <=> AliveIn(h))
  BY <1>6, NoneApart DEF AliveIn
<1>8. AliveIn(map)' /\ ~AliveIn(graves)' /\ ~AliveIn(map) /\ ~Alive(x)
  BY <1>1, <1>2, <1>3, <1>6, NoneApart DEF AliveIn, Alive
<1>9. \A g \in Ends' : (g \in Ends /\ g # x) \/ (g = x /\ ~AliveIn(graves))
  BY <1>1, <1>2, <1>5, <1>6, <1>7 DEF Ends, Shape
<1>10. AtMostOne(Ends')
  BY <1>8, <1>9 DEF Linked, EndsHaveStarts, AtMostOne
<1>11. EndsHaveStarts'
  BY <1>8, <1>10 DEF EndsHaveStarts, AtMostOne, AtMostTwo
<1>12. HandleInOnePlace'
  <2>1. \A h \in Gens \cup {None} : h <= born => h <= born'
    BY <1>1, <1>2, SMT DEF x, Gens, None
  <2>2. graves' <= born'
    BY <1>1, <1>2, SMT DEF x, None
  <2>3. ASSUME NEW g \in Gens, grave'[g] # None
        PROVE  /\ phase'[g] = "draining" /\ grave'[g] <= born'
               /\ grave'[g] # map' /\ grave'[g] # graves'
               /\ \A h \in Gens : grave'[h] = grave'[g] => h = g
    BY <1>1, <1>2, <1>5, <1>6, <2>1, <2>3, SMT DEF Shape, Linked, HandleInOnePlace
  <2> QED BY <1>1, <2>2, <2>3 DEF HandleInOnePlace
<1>13. NoTwoBodies'
  BY <1>1, <1>2 DEF Shape, Linked, NoTwoBodies
<1> QED
  BY <1>11, <1>12, <1>13 DEF Linked

(* A step that moves no handle and ends no task.                           *)
LEMMA LinkedStays ==
  ASSUME Linked, born' = born, graves' = graves, grave' = grave,
         map' = map \/ (map' = None /\ ~AliveIn(map)),
         \A g \in Gens : phase'[g] = phase[g] \/ {phase[g], phase'[g]} \subseteq {"notifying", "dead"},
         Shape
  PROVE  Linked'
<1>1. \A g \in Gens : Alive(g)' <=> Alive(g)
  BY Zenon DEF Alive
<1>2. \A h \in Gens \cup {None} : AliveIn(h)' <=> AliveIn(h)
  BY <1>1, Zenon DEF AliveIn
<1>3. Ends' = Ends
  BY <1>1, <1>2 DEF Ends, Shape
<1>4. (AliveIn(map)' <=> AliveIn(map)) /\ (AliveIn(graves)' <=> AliveIn(graves))
  BY <1>2 DEF Shape, AliveIn
<1>5. EndsHaveStarts'
  BY <1>3, <1>4 DEF Linked, EndsHaveStarts, AtMostOne, AtMostTwo
<1>6. HandleInOnePlace'
  BY DEF Linked, HandleInOnePlace
<1>7. NoTwoBodies'
  BY DEF Linked, NoTwoBodies
<1> QED
  BY <1>5, <1>6, <1>7 DEF Linked

(* The handle of an abandoned cell goes to the grave with its chain.       *)
LEMMA LinkedEvict ==
  ASSUME Rest, Counters, HandleInCell, Linked, NEW c \in Callers, CancelEvict(c), ~lost'
  PROVE  Linked'
<1>1. own[c] \in Gens
  BY DEF CancelEvict, Rest, Shape, Unfinished
<1>2. /\ born' = born /\ grave' = grave /\ phase' = phase
      /\ map' = IF map = own[c] THEN None ELSE map
      /\ IF slot[own[c]] THEN PutInGrave(own[c], own[c]) ELSE UNCHANGED <<graves, lost>>
  BY DEF CancelEvict, ParkHandle
<1>3. Interested(own[c]) = {}
  BY <1>1, ZeroIsNobody DEF CancelEvict
<1>4. ~Inline(own[c])
  BY <1>3 DEF Inline, Interested, Waiting
<1>5. CASE ~slot[own[c]]
  <2>1. map = own[c] => ~AliveIn(map)
    BY <1>4, <1>5 DEF HandleInCell
  <2> QED BY <1>2, <1>5, <2>1, LinkedStays, Zenon DEF Rest
<1>6. CASE slot[own[c]]
  <2>1. map = own[c] /\ map' = None /\ graves' = map
    BY <1>1, <1>2, <1>6 DEF HandleInCell, PutInGrave
  <2>2. graves = None
    BY <1>1, <1>2, <1>6, <2>1, NoneApart, Zenon DEF PutInGrave, Linked, HandleInOnePlace
  <2>3. ~AliveIn(None)
    BY DEF AliveIn
  <2>4. \A h : AliveIn(h)' <=> AliveIn(h)
    BY <1>2 DEF AliveIn, Alive
  <2>5. Ends' = Ends
    BY <1>2 DEF Ends, AliveIn, Alive
  <2>6. EndsHaveStarts'
    <3>1. ~AliveIn(map)' /\ (AliveIn(graves)' <=> AliveIn(map)) /\ ~AliveIn(graves)
      BY <1>2, <2>1, <2>2 DEF AliveIn, Alive
    <3> QED BY <2>5, <3>1 DEF Linked, EndsHaveStarts, AtMostOne, AtMostTwo
  <2>7. HandleInOnePlace'
    BY <1>1, <1>2, <2>1, <2>2, NoneApart, SMT DEF Linked, HandleInOnePlace, Rest, Unborn
  <2> QED BY <1>2, <2>6, <2>7 DEF Linked, NoTwoBodies
<1> QED
  BY <1>5, <1>6

(* As long as nothing is overwritten every step keeps the links.           *)
LEMMA LinkedInductive ==
  ASSUME Rest, Counters, HandleInCell, Linked, [Next]_vars, ~lost'
  PROVE  Linked'
<1> Shape /\ Kept /\ EndsWithOutcome /\ Unborn /\ Unfinished
  BY DEF Rest
<1>1. ASSUME NEW c \in Callers, Build(c) PROVE Linked'
  BY <1>1, LinkedBuild
<1>2. ASSUME NEW x \in Gens, DropBody(x), Alive(x), map' = map, born' = born PROVE Linked'
  <2>1. \/ grave[x] = None /\ graves' = graves
        \/ grave[x] # None /\ graves' = grave[x] /\ graves \in {None, x}
    BY <1>2, Zenon DEF DropBody, PutInGrave
  <2> QED BY <1>2, <2>1, LinkedDrop, Zenon DEF DropBody
<1>3. ASSUME NEW c \in Callers, SpawnFails(c) PROVE Linked'
  <2>1. own[c] \in Gens /\ Alive(own[c])
    BY <1>3 DEF SpawnFails, Suspends, Alive, Shape, Unfinished
  <2> QED BY <1>2, <1>3, <2>1 DEF SpawnFails
<1>4. ASSUME NEW g \in Gens, BodyPanics(g) \/ DropAborted(g) PROVE Linked'
  <2>1. Alive(g)
    BY <1>4 DEF BodyPanics, DropAborted, Alive
  <2> QED BY <1>2, <1>4, <2>1, Zenon DEF BodyPanics, DropAborted
<1>5. ASSUME NEW g \in Gens, Publish(g) PROVE Linked'
  <2>1. Alive(g) /\ grave[g] = None
    BY <1>5 DEF Publish, Alive, Linked, HandleInOnePlace
  <2>2. grave' = [grave EXCEPT ![g] = None]
    BY <1>5, <2>1 DEF Publish, Shape
  <2> QED BY <1>5, <2>1, <2>2, LinkedDrop, Zenon DEF Publish
<1>6. ASSUME NEW g \in Gens, DrainAwait(g) \/ DrainCheck(g) PROVE Linked'
  BY <1>6, LinkedAwait, LinkedCheck
<1>7. ASSUME NEW c \in Callers, CancelEvict(c) PROVE Linked'
  BY <1>7, LinkedEvict
<1>8. ASSUME EvictIf PROVE Linked'
  <2>1. ~AliveIn(map)
    BY <1>8 DEF EvictIf, IsDone, AliveIn, Alive, Shape, Unfinished
  <2> QED BY <1>8, <2>1, LinkedStays DEF EvictIf
<1>9. ASSUME NEW g \in Gens, Notify(g) PROVE Linked'
  BY <1>9, LinkedStays DEF Notify, Shape
<1>10. ASSUME NEW g \in Gens, BeginPoll(g) \/ EndPoll(g) PROVE Linked'
  BY <1>10, LinkedStays DEF BeginPoll, EndPoll
<1>11. ASSUME NEW c \in Callers,
              \/ Join(c) \/ Leave(c) \/ InlineDone(c) \/ InlinePending(c) \/ Look(c)
              \/ Park(c) \/ Wake(c) \/ Return(c) \/ CancelStandsDown(c) \/ Abort(c)
       PROVE  Linked'
  BY <1>11, LinkedStays, Zenon
  DEF Join, Leave, InlineDone, InlinePending, Look, Park, Wake, Return, CancelStandsDown, Abort
<1>12. ASSUME ShutDown \/ UNCHANGED vars PROVE Linked'
  BY <1>12, LinkedStays DEF ShutDown, vars
<1> QED
  BY <1>1, <1>3, <1>4, <1>5, <1>6, <1>7, <1>8, <1>9, <1>10, <1>11, <1>12, SMT
  DEF Next, CallerStep, TaskStep

(* Handles are stored in, taken from and dropped with the cell in the map. *)
LEMMA InCellInductive ==
  ASSUME Rest, Counters, HandleInCell, [Next]_vars
  PROVE  HandleInCell'
<1> Shape /\ Kept /\ EndsWithOutcome /\ Unborn /\ Unfinished
  BY DEF Rest
<1>1. ASSUME NEW c \in Callers, Build(c) PROVE HandleInCell'
  <2>1. PICK x \in Gens : x = born + 1
    BY <1>1, MaxGenNat, SMT DEF Build, Shape, Gens
  <2>2. \A g \in Gens : ~slot[g]
    BY <1>1, NoneApart DEF Build, HandleInCell
  <2>3. /\ map' = x /\ slot' = [slot EXCEPT ![x] = ~inlineFirst]
        /\ own' = [own EXCEPT ![c] = x]
        /\ pc' = [pc EXCEPT ![c] = IF inlineFirst THEN "inline" ELSE "look"]
    BY <1>1, <2>1 DEF Build
  <2>4. \A g \in Gens : slot'[g] => g = x
    BY <2>2, <2>3 DEF Shape
  <2>5. inlineFirst => Inline(x)'
    BY <2>3 DEF Shape, Inline
  <2>6. ~inlineFirst => slot'[x]
    <3>1. slot \in [Gens -> BOOLEAN]
      BY DEF Shape
    <3> QED BY <2>3, <3>1, Zenon
  <2> QED BY <2>3, <2>4, <2>5, <2>6 DEF HandleInCell
<1>2. ASSUME NEW c \in Callers, InlinePending(c) \/ SpawnFails(c) PROVE HandleInCell'
  <2>1. own[c] \in Gens /\ outcome[own[c]] = "none"
    BY <1>2 DEF InlinePending, SpawnFails, Suspends, Shape, Unfinished
  <2>2. map = own[c]
    BY <1>2, <2>1, Zenon DEF InlinePending, SpawnFails, Kept, Waiting
  <2>3. map' = map /\ own' = own /\ \A g \in Gens \ {own[c]} : slot'[g] = slot[g]
    <3>1. /\ map' = map /\ own' = own
          /\ \E b \in BOOLEAN : slot' = [slot EXCEPT ![own[c]] = b]
      BY <1>2, Zenon DEF InlinePending, SpawnFails
    <3> QED BY <3>1 DEF Shape
  <2>4. \A g \in Gens : slot'[g] => map' = g
    BY <2>2, <2>3 DEF HandleInCell
  <2>5. slot'[own[c]] \/ ~AliveIn(own[c])'
    <3>1. CASE InlinePending(c)
      BY <3>1, <2>1, Zenon DEF InlinePending, Shape
    <3>2. CASE SpawnFails(c)
      BY <3>2, <2>1 DEF SpawnFails, DropBody, Shape, AliveIn, Alive
    <3> QED BY <1>2, <3>1, <3>2, Zenon
  <2>6. map' = own[c] /\ own[c] # None
    BY <2>1, <2>2, <2>3, NoneApart, Zenon
  <2>7. AliveIn(map)' => slot'[own[c]]
    BY <2>3, <2>5, <2>6, Zenon DEF AliveIn, Alive
  <2> QED BY <2>4, <2>6, <2>7, Zenon DEF HandleInCell
<1>3. ASSUME NEW c \in Callers, InlineDone(c) PROVE HandleInCell'
  <2>1. map' = map /\ slot' = slot /\ phase' = phase /\ own' = own
    BY <1>3, Zenon DEF InlineDone
  <2>2. AliveIn(map) => own[c] # map
    BY <1>3, Zenon DEF InlineDone, AliveIn, Alive
  <2>3. AliveIn(map) /\ Inline(map) => Inline(map)'
    <3>1. \A d \in Callers \ {c} : pc'[d] = pc[d]
      BY <1>3 DEF InlineDone, Shape
    <3> QED BY <2>1, <2>2, <3>1, Zenon DEF Inline
  <2> QED BY <2>1, <2>3, Zenon DEF HandleInCell, AliveIn, Alive
<1>4. ASSUME NEW c \in Callers, CancelEvict(c) PROVE HandleInCell'
  <2>1. own[c] \in Gens
    BY <1>4 DEF CancelEvict, Shape, Unfinished
  <2>2. /\ map' = IF map = own[c] THEN None ELSE map
        /\ slot' = [slot EXCEPT ![own[c]] = FALSE] /\ phase' = phase
    BY <1>4 DEF CancelEvict, ParkHandle
  <2>3. \A g \in Gens : slot'[g] => slot[g] /\ g # own[c]
    BY <2>1, <2>2 DEF Shape
  <2>4. \A g \in Gens : slot'[g] => map' = g
    BY <2>1, <2>2, <2>3, Zenon DEF HandleInCell
  <2>5. Inline(map) /\ map # own[c] => Inline(map)'
    BY <1>4, <2>2, Zenon DEF CancelEvict, ParkHandle, Inline, Shape
  <2>6. AliveIn(map)' => AliveIn(map) /\ map' = map /\ map # own[c] /\ map \in Gens
    BY <2>2 DEF AliveIn, Alive, Shape
  <2>7. AliveIn(map)' => slot'[map] = slot[map]
    BY <2>1, <2>2, <2>6 DEF Shape
  <2> QED BY <2>4, <2>5, <2>6, <2>7, Zenon DEF HandleInCell
<1>5. ASSUME EvictIf PROVE HandleInCell'
  <2>1. \A g \in Gens : ~slot[g]
    BY <1>5 DEF EvictIf, HandleInCell, EndsWithOutcome, Shape
  <2> QED BY <1>5, <2>1 DEF EvictIf, HandleInCell, AliveIn
<1>6. ASSUME NEW g \in Gens,
             \/ BeginPoll(g) \/ EndPoll(g) \/ DrainAwait(g) \/ DrainCheck(g) \/ Publish(g)
             \/ BodyPanics(g) \/ DropAborted(g) \/ Notify(g)
      PROVE  HandleInCell'
  <2>1. map' = map /\ pc' = pc /\ own' = own
    BY <1>6, Zenon
    DEF BeginPoll, EndPoll, DrainAwait, DrainCheck, Publish, BodyPanics, DropAborted, Notify
  <2>2. \A h \in Gens : Alive(h)' => Alive(h)
    <3>1. CASE BeginPoll(g) \/ EndPoll(g) \/ DrainAwait(g)
      BY <3>1 DEF BeginPoll, EndPoll, DrainAwait, Alive
    <3>2. CASE DrainCheck(g)
      BY <3>2, SMTT(20) DEF DrainCheck, Alive, Shape
    <3>3. CASE Publish(g) \/ BodyPanics(g) \/ DropAborted(g) \/ Notify(g)
      BY <3>3, SMTT(20) DEF Publish, BodyPanics, DropAborted, DropBody, Notify, Alive, Shape
    <3> QED BY <1>6, <3>1, <3>2, <3>3, Zenon
  <2>3. \/ slot' = slot
        \/ slot' = [slot EXCEPT ![g] = FALSE] /\ ~Alive(g)'
    BY <1>6 DEF BeginPoll, EndPoll, DrainAwait, DrainCheck, Publish, BodyPanics, DropAborted,
                Notify, Alive, Shape
  <2>4. Inline(map)' <=> Inline(map)
    BY <2>1 DEF Inline
  <2>5. \A h \in Gens : (slot'[h] => slot[h]) /\ (Alive(h)' /\ slot[h] => slot'[h])
    BY <2>3, Zenon DEF Shape
  <2>6. AliveIn(map)' => AliveIn(map) /\ Alive(map)' /\ map \in Gens
    BY <2>1, <2>2 DEF AliveIn, Shape
  <2> QED BY <2>1, <2>4, <2>5, <2>6, Zenon DEF HandleInCell
<1>7. ASSUME NEW c \in Callers,
             \/ Join(c) \/ Leave(c) \/ Look(c) \/ Park(c) \/ Wake(c) \/ Return(c)
             \/ CancelStandsDown(c) \/ Abort(c)
      PROVE  HandleInCell'
  <2>1. /\ map' = map /\ slot' = slot /\ phase' = phase
        /\ \A d \in Callers : pc[d] = "inline" => pc'[d] = "inline" /\ own'[d] = own[d]
    BY <1>7 DEF Join, Leave, Look, Park, Wake, Return, CancelStandsDown, Abort, Shape
  <2>2. Inline(map) => Inline(map)'
    BY <2>1 DEF Inline
  <2> QED BY <2>1, <2>2, Zenon DEF HandleInCell, AliveIn, Alive
<1>8. ASSUME ShutDown \/ UNCHANGED vars PROVE HandleInCell'
  BY <1>8, Zenon DEF ShutDown, vars, HandleInCell, AliveIn, Alive, Inline
<1> QED
  BY <1>1, <1>2, <1>3, <1>4, <1>5, <1>6, <1>7, <1>8, SMT DEF Next, CallerStep, TaskStep

(* A parked handle once overwritten stays so recorded.                     *)
LEMMA LostForGood ==
  ASSUME Shape, [Next]_vars, lost
  PROVE  lost'
<1>1. ASSUME NEW c \in Callers,
             \/ Join(c) \/ Build(c) \/ Leave(c) \/ InlineDone(c) \/ InlinePending(c) \/ Look(c)
             \/ Park(c) \/ Wake(c) \/ Return(c) \/ CancelStandsDown(c) \/ Abort(c)
      PROVE  lost'
  BY <1>1, Zenon DEF Join, Build, Leave, InlineDone, InlinePending, Look, Park, Wake, Return,
              CancelStandsDown, Abort
<1>2. ASSUME NEW c \in Callers, SpawnFails(c) \/ CancelEvict(c) PROVE lost'
  BY <1>2, Zenon DEF SpawnFails, CancelEvict, ParkHandle, DropBody, PutInGrave
<1>3. ASSUME NEW g \in Gens, TaskStep(g) PROVE lost'
  BY <1>3, Zenon DEF TaskStep, BeginPoll, EndPoll, DrainAwait, DrainCheck, Publish, BodyPanics,
              DropAborted, Notify, DropBody, PutInGrave
<1>4. ASSUME EvictIf \/ ShutDown \/ UNCHANGED vars PROVE lost'
  BY <1>4, Zenon DEF EvictIf, ShutDown, vars
<1> QED
  BY <1>1, <1>2, <1>3, <1>4, Zenon DEF Next, CallerStep

(* HandleInv is inductive on top of CellInv.                               *)
THEOREM HandleInvariant == Spec => []HandleInv
<1>1. Init => HandleInv
  <2> SUFFICES ASSUME Init PROVE HandleInv
    OBVIOUS
  <2>1. Ends = {}
    BY DEF Init, Ends, Alive
  <2>2. HandleInCell
    BY DEF Init, HandleInCell, AliveIn
  <2>3. HandleInOnePlace
    BY SMT DEF Init, HandleInOnePlace, None
  <2>4. EndsHaveStarts /\ NoTwoBodies
    BY <2>1, Zenon DEF Init, EndsHaveStarts, AtMostOne, AtMostTwo, NoTwoBodies
  <2> QED BY <2>2, <2>3, <2>4 DEF HandleInv
<1>2. CellInv /\ HandleInv /\ [Next]_vars => HandleInv'
  <2> SUFFICES ASSUME CellInv, HandleInv, [Next]_vars PROVE HandleInv'
    OBVIOUS
  <2>1. Rest /\ Counters /\ HandleInCell
    BY Halves DEF HandleInv
  <2>2. HandleInCell'
    BY <2>1, InCellInductive
  <2>3. ASSUME ~lost' PROVE Linked'
    BY <2>1, <2>3, LinkedInductive, LostForGood DEF HandleInv, Linked, Rest
  <2> QED BY <2>2, <2>3 DEF HandleInv, Linked
<1> QED
  BY <1>1, <1>2, CellInvariant, PTL DEF Spec

(* Two bodies of one key run at once only after a parked handle was        *)
(* overwritten, for any number of callers and generations: a task drains   *)
(* every handle there is, whoever cancels, panics or takes its own.        *)
THEOREM BodiesOverlapOnlyIfLost == Spec => []OneBodyUnlessOverwritten
  BY HandleInvariant, PTL DEF HandleInv, OneBodyUnlessOverwritten

====
