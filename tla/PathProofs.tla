----------------------------- MODULE PathProofs -----------------------------
(***************************************************************************)
(* The result path, for any number of requests, revisions and runs.        *)
(* PathInv says of every place of a request which locks it has there, and  *)
(* which versions of manifest, blobs and request agree; so there is one    *)
(* run at a time, no entry is built twice, and a request stages what it    *)
(* resolved to.  First what a step does to the lock, then the steps that   *)
(* only take, give back or pass on locks, and last those that touch        *)
(* entries and versions.                                                   *)
(***************************************************************************)
EXTENDS ResultPath, TLAPS

(* Few leaves need arithmetic: those name SMT.                             *)
USE Zenon

(* Every place a task can be at.                                           *)
Places == GateAt \cup ReadAt \cup WriteAt \cup DeleteAt \cup RideAt \cup BareAt

(* A step of task t on the lock.                                           *)
LockMove(t) ==
  \/ UNCHANGED lockVars
  \/ \E r \in Revs : Ride(t, r) \/ Alight(t, r) \/ Exclude(t, r)
  \/ Gate(t) \/ Demote(t) \/ LetGo(t) \/ Ungate(t)
  \/ /\ hold' = [hold EXCEPT ![t] = "none"] /\ on' = [on EXCEPT ![t] = None]
     /\ riding' = [riding EXCEPT ![t] = {}]

(* Whatever a task does with the lock, the gateway has one owner and a     *)
(* writer no readers.                                                      *)
LEMMA LockMoves ==
  ASSUME TypeOK, OneGateway, WriteExcludesRides, NEW t \in Tasks, LockMove(t)
  PROVE  /\ OneGateway' /\ WriteExcludesRides'
         /\ hold' \in [Tasks -> {"none", "gate", "read", "write"}]
         /\ on' \in [Tasks -> Revs \cup {None}] /\ riding' \in [Tasks -> SUBSET Revs]
         /\ \A u \in Tasks \ {t} : hold'[u] = hold[u] /\ on'[u] = on[u] /\ riding'[u] = riding[u]
<1> DEFINE Frame ==
      /\ hold' \in [Tasks -> {"none", "gate", "read", "write"}]
      /\ on' \in [Tasks -> Revs \cup {None}] /\ riding' \in [Tasks -> SUBSET Revs]
      /\ \A u \in Tasks \ {t} : hold'[u] = hold[u] /\ on'[u] = on[u] /\ riding'[u] = riding[u]
<1> /\ hold \in [Tasks -> {"none", "gate", "read", "write"}]
    /\ on \in [Tasks -> Revs \cup {None}] /\ riding \in [Tasks -> SUBSET Revs]
  BY DEF TypeOK
<1>1. CASE UNCHANGED lockVars
  BY <1>1 DEF lockVars, OneGateway, WriteExcludesRides
<1>2. CASE \E r \in Revs : Ride(t, r)
  <2> PICK r \in Revs : Ride(t, r)
    BY <1>2
  <2>1. Frame /\ UNCHANGED <<hold, on>> /\ riding'[t] = riding[t] \cup {r} /\ ~Excluded(r)
    BY DEF Ride
  <2>2. OneGateway'
    BY <2>1 DEF OneGateway
  <2>3. WriteExcludesRides'
    BY <2>1 DEF WriteExcludesRides, Excluded
  <2>q. QED
    BY <2>1, <2>2, <2>3
<1>3. CASE \E r \in Revs : Alight(t, r)
  <2>1. Frame /\ UNCHANGED <<hold, on>> /\ riding'[t] \subseteq riding[t]
    BY <1>3 DEF Alight
  <2>2. OneGateway'
    BY <2>1 DEF OneGateway
  <2>3. WriteExcludesRides'
    BY <2>1 DEF WriteExcludesRides
  <2>q. QED
    BY <2>1, <2>2, <2>3
<1>4. CASE \E r \in Revs : Exclude(t, r)
  <2> PICK r \in Revs : Exclude(t, r)
    BY <1>4
  <2>1. Frame /\ UNCHANGED riding /\ hold[t] # "none" /\ on'[t] = r /\ ~Ridden(r)
    BY DEF Exclude
  <2>2. \A u \in Tasks \ {t} : hold[u] = "none" /\ hold'[u] = "none"
    BY <2>1 DEF OneGateway
  <2>3. OneGateway'
    BY <2>2 DEF OneGateway
  <2>4. WriteExcludesRides'
    BY <2>1, <2>2 DEF WriteExcludesRides, Ridden
  <2>q. QED
    BY <2>1, <2>3, <2>4
<1>5. CASE Gate(t)
  <2>1. Frame /\ UNCHANGED <<on, riding>> /\ hold'[t] = "gate" /\ \A u \in Tasks : hold[u] = "none"
    BY <1>5 DEF Gate
  <2>q. QED
    BY <2>1 DEF OneGateway, WriteExcludesRides
<1>6. CASE Demote(t) \/ LetGo(t) \/ Ungate(t)
  <2>1. Frame /\ UNCHANGED riding /\ hold[t] # "none" /\ hold'[t] # "write"
    BY <1>6 DEF Demote, LetGo, Ungate
  <2>2. OneGateway'
    BY <2>1 DEF OneGateway
  <2>3. WriteExcludesRides'
    BY <2>1 DEF WriteExcludesRides
  <2>q. QED
    BY <2>1, <2>2, <2>3
<1>7. CASE /\ hold' = [hold EXCEPT ![t] = "none"] /\ on' = [on EXCEPT ![t] = None]
           /\ riding' = [riding EXCEPT ![t] = {}]
  <2>1. Frame /\ hold'[t] = "none" /\ riding'[t] = {}
    BY <1>7
  <2>2. OneGateway'
    BY <2>1 DEF OneGateway
  <2>3. WriteExcludesRides'
    BY <2>1 DEF WriteExcludesRides
  <2>q. QED
    BY <2>1, <2>2, <2>3
<1>q. QED
  BY <1>1, <1>2, <1>3, <1>4, <1>5, <1>6, <1>7 DEF LockMove

(* The types of all but the lock, and a step of task t that touches no     *)
(* entry but r's.                                                          *)
PathTypes ==
  /\ content \in [Revs -> 0 .. MaxRuns] /\ bytes \in [Revs -> 0 .. MaxRuns]
  /\ exec \in Tasks \cup {None} /\ pc \in [Tasks -> Places]
  /\ seen \in [Tasks -> 0 .. MaxRuns]
  /\ todo \in [Tasks -> SUBSET Revs] /\ runs \in 0 .. MaxRuns
  /\ queued \in [Tasks -> SUBSET {"mirror", "blobs", "manifest"}]
  /\ made \in [Tasks -> 0 .. MaxRuns] /\ into \in [Tasks -> Revs]
  /\ newer \in [Revs -> SUBSET Revs] /\ torn \in SUBSET Revs /\ late \in SUBSET Revs
  /\ wrote \in SUBSET Tasks

SameEntry(r) == content'[r] = content[r] /\ bytes'[r] = bytes[r] /\ (r \in torn' <=> r \in torn)
Building == {"run", "running", "stored"}

Touches(t, r) ==
  /\ \A u \in Tasks \ {t} :
       /\ pc'[u] = pc[u] /\ seen'[u] = seen[u] /\ (u \in wrote' <=> u \in wrote)
       /\ queued'[u] = queued[u] /\ made'[u] = made[u] /\ into'[u] = into[u]
  /\ \A x \in Revs \ {r} : SameEntry(x)
  /\ pc'[t] \in Runs => exec' = t /\ exec \in {t, None}
  /\ pc'[t] \notin Runs => exec' = IF exec = t THEN None ELSE exec

(* It preserves the invariant if the task then holds what its place says,  *)
(* r's entry is right for it, and for whoever else is after r.             *)
LEMMA TouchStep ==
  ASSUME PathInv, NEW t \in Tasks, NEW r \in Revs, LockMove(t), Touches(t, r), PathTypes',
         PlaceSays(t)', KeepsToItsPart(t)', Agrees(t)', SameEntry(r) \/ Matches(r)', NeverBuiltTwice',
         \A u \in Tasks \ {t} : Want[u] # r \/ SameEntry(r) \/ Agrees(u)'
  PROVE  PathInv'
<1> TypeOK /\ RunnerHasLock
  BY DEF PathInv
<1>1. /\ OneGateway' /\ WriteExcludesRides'
      /\ hold' \in [Tasks -> {"none", "gate", "read", "write"}]
      /\ on' \in [Tasks -> Revs \cup {None}] /\ riding' \in [Tasks -> SUBSET Revs]
      /\ \A u \in Tasks \ {t} : hold'[u] = hold[u] /\ on'[u] = on[u] /\ riding'[u] = riding[u]
  BY LockMoves DEF PathInv
<1>2. TypeOK'
  BY <1>1 DEF TypeOK, PathTypes, Places
<1>3. ASSUME NEW u \in Tasks PROVE (pc[u] \in Runs <=> exec = u)'
  <2>1. pc[u] \in Runs <=> exec = u
    BY DEF RunnerHasLock
  <2>q. QED
    BY <2>1, PathAssumption DEF Touches
<1>4. ASSUME NEW u \in Tasks \ {t} PROVE (PlaceSays(u) /\ KeepsToItsPart(u))'
  <2>1. /\ PlaceSays(u) /\ KeepsToItsPart(u) /\ pc'[u] = pc[u]
        /\ (u \in wrote' <=> u \in wrote) /\ queued'[u] = queued[u]
    BY DEF PathInv, Touches
  <2>2. PlaceSays(u)'
    BY <1>1, <2>1 DEF PlaceSays
  <2>3. KeepsToItsPart(u)'
    BY <2>1 DEF KeepsToItsPart, Wrote
  <2>q. QED
    BY <2>2, <2>3
<1>5. ASSUME NEW u \in Tasks \ {t} PROVE Agrees(u)'
  <2>1. /\ Agrees(u) /\ pc'[u] = pc[u] /\ seen'[u] = seen[u] /\ Want[u] \in Revs
        /\ queued'[u] = queued[u] /\ made'[u] = made[u] /\ into'[u] = into[u]
    BY PathAssumption DEF PathInv, Touches
  <2>2. CASE SameEntry(Want[u])
    BY <2>1, <2>2 DEF Agrees, Named, SameEntry
  <2>q. QED
    BY <2>1, <2>2 DEF Touches
<1>7. ASSUME NEW x \in Revs PROVE Matches(x)'
  <2>1. CASE SameEntry(x)
    BY <2>1 DEF PathInv, Matches, SameEntry
  <2>q. QED
    BY <2>1 DEF Touches
<1>8. RunnerHasLock'
  BY <1>3 DEF RunnerHasLock
<1>q. QED
  BY <1>1, <1>2, <1>4, <1>5, <1>7, <1>8 DEF PathInv

(* Where no manifest changes, a miss that runs still has none, if what     *)
(* landed without the gateway is forgotten only as that is taken.          *)
LateKept(t) == late \subseteq late' \/ Gate(t)

LEMMA StillUnbuilt ==
  ASSUME PathInv, NEW t \in Tasks, Touches(t, Want[t]), content' = content, LateKept(t),
         Kind[t] = "plain" /\ pc'[t] \in Building => pc[t] \in Building \/ content[Want[t]] = 0
  PROVE  NeverBuiltTwice'
<1>1. ASSUME NEW u \in Tasks, Kind[u] = "plain", pc'[u] \in Building, content[Want[u]] # 0
      PROVE  Want[u] \in late'
  <2>1. pc[u] \in Building
    BY <1>1 DEF Touches
  <2>2. Want[u] \in late
    BY <1>1, <2>1 DEF PathInv, NeverBuiltTwice, Building
  <2>3. hold[u] = "write"
    BY <2>1 DEF PathInv, PlaceSays, Building, GateAt, ReadAt, WriteAt
  <2>q. QED
    BY <2>2, <2>3 DEF LateKept, Gate
<1>q. QED
  BY <1>1 DEF NeverBuiltTwice, Building

(* Where nothing is held but a riding read.                                *)
RideOnlyAt == RideAt \ (GateAt \cup ReadAt)

(* What a task that wants w holds at place p, and the same by kinds of     *)
(* places.                                                                 *)
Says(p, w, h, o, d) ==
  /\ h = IF p \in GateAt THEN "gate" ELSE IF p \in ReadAt THEN "read"
         ELSE IF p \in WriteAt \cup DeleteAt THEN "write" ELSE "none"
  /\ p \in ReadAt \cup WriteAt => o = w
  /\ p \in ReadAt \cup WriteAt \cup DeleteAt <=> o # None
  /\ d = IF p \in RideAt THEN {w} ELSE {}

LEMMA Sorted ==
  ASSUME NEW p, NEW w, NEW h, NEW o, NEW d, w # None
  PROVE  /\ p \in BareAt => (Says(p, w, h, o, d) <=> h = "none" /\ o = None /\ d = {})
         /\ p \in GateAt \ RideAt => (Says(p, w, h, o, d) <=> h = "gate" /\ o = None /\ d = {})
         /\ p \in GateAt \cap RideAt => (Says(p, w, h, o, d) <=> h = "gate" /\ o = None /\ d = {w})
         /\ p \in ReadAt \ RideAt => (Says(p, w, h, o, d) <=> h = "read" /\ o = w /\ d = {})
         /\ p \in ReadAt \cap RideAt => (Says(p, w, h, o, d) <=> h = "read" /\ o = w /\ d = {w})
         /\ p \in RideOnlyAt => (Says(p, w, h, o, d) <=> h = "none" /\ o = None /\ d = {w})
         /\ p \in WriteAt => (Says(p, w, h, o, d) <=> h = "write" /\ o = w /\ d = {})
         /\ p \in DeleteAt => (Says(p, w, h, o, d) <=> h = "write" /\ o # None /\ d = {})
<1>1. ASSUME p \in BareAt PROVE Says(p, w, h, o, d) <=> h = "none" /\ o = None /\ d = {}
  BY <1>1 DEF Says, GateAt, ReadAt, WriteAt, DeleteAt, RideAt, BareAt, Ended
<1>2. ASSUME p \in GateAt \ RideAt PROVE Says(p, w, h, o, d) <=> h = "gate" /\ o = None /\ d = {}
  BY <1>2 DEF Says, GateAt, ReadAt, WriteAt, DeleteAt, RideAt
<1>3. ASSUME p \in GateAt \cap RideAt PROVE Says(p, w, h, o, d) <=> h = "gate" /\ o = None /\ d = {w}
  BY <1>3 DEF Says, GateAt, ReadAt, WriteAt, DeleteAt, RideAt
<1>4. ASSUME p \in ReadAt \ RideAt PROVE Says(p, w, h, o, d) <=> h = "read" /\ o = w /\ d = {}
  BY <1>4 DEF Says, GateAt, ReadAt, WriteAt, DeleteAt, RideAt
<1>5. ASSUME p \in ReadAt \cap RideAt PROVE Says(p, w, h, o, d) <=> h = "read" /\ o = w /\ d = {w}
  BY <1>5 DEF Says, GateAt, ReadAt, WriteAt, DeleteAt, RideAt
<1>6. ASSUME p \in RideOnlyAt PROVE Says(p, w, h, o, d) <=> h = "none" /\ o = None /\ d = {w}
  BY <1>6 DEF Says, GateAt, ReadAt, WriteAt, DeleteAt, RideAt, RideOnlyAt
<1>7. ASSUME p \in WriteAt PROVE Says(p, w, h, o, d) <=> h = "write" /\ o = w /\ d = {}
  BY <1>7 DEF Says, GateAt, ReadAt, WriteAt, DeleteAt, RideAt
<1>8. ASSUME p \in DeleteAt PROVE Says(p, w, h, o, d) <=> h = "write" /\ o # None /\ d = {}
  BY <1>8 DEF Says, GateAt, ReadAt, WriteAt, DeleteAt, RideAt
<1>q. QED
  BY <1>1, <1>2, <1>3, <1>4, <1>5, <1>6, <1>7, <1>8

(* What task t does to the lock fits where it goes.                        *)
Fits(t) ==
  \/ Gate(t) /\ pc[t] \in BareAt /\ pc'[t] \in GateAt \ RideAt
  \/ Ungate(t) /\ pc[t] \in GateAt \ RideAt /\ pc'[t] \in BareAt
  \/ Ungate(t) /\ pc[t] \in GateAt \cap RideAt /\ pc'[t] \in RideOnlyAt
  \/ Ride(t, Want[t]) /\ pc[t] \in BareAt /\ pc'[t] \in RideOnlyAt
  \/ Ride(t, Want[t]) /\ pc[t] \in ReadAt \ RideAt /\ pc'[t] \in ReadAt \cap RideAt
  \/ Alight(t, Want[t]) /\ pc[t] \in RideOnlyAt /\ pc'[t] \in BareAt
  \/ Exclude(t, Want[t]) /\ pc[t] \in GateAt \ RideAt /\ pc'[t] \in WriteAt
  \/ (\E r \in Revs : Exclude(t, r)) /\ pc[t] \in GateAt \ RideAt /\ pc'[t] \in DeleteAt
  \/ Demote(t) /\ pc[t] \in WriteAt /\ pc'[t] \in ReadAt \ RideAt
  \/ LetGo(t) /\ pc[t] \in ReadAt \cap RideAt /\ pc'[t] \in GateAt \cap RideAt
  \/ LetGo(t) /\ pc[t] \in DeleteAt /\ pc'[t] \in GateAt \ RideAt
  \/ UNCHANGED lockVars /\ \E at \in {BareAt, GateAt \ RideAt, WriteAt, DeleteAt, RideOnlyAt} :
                             pc[t] \in at /\ pc'[t] \in at

(* It then holds what its new place says.                                  *)
LEMMA Fitting ==
  ASSUME TypeOK, NEW t \in Tasks, PlaceSays(t), Fits(t)
  PROVE  LockMove(t) /\ PlaceSays(t)'
<1>1. /\ hold \in [Tasks -> {"none", "gate", "read", "write"}]
      /\ on \in [Tasks -> Revs \cup {None}] /\ riding \in [Tasks -> SUBSET Revs]
      /\ Want[t] \in Revs /\ None \notin Revs
  BY PathAssumption, NoneIsNoRev DEF TypeOK
<1>2. LockMove(t)
  BY <1>1 DEF Fits, LockMove
<1> SUFFICES PlaceSays(t)'
  BY <1>2
<1>a. /\ pc[t] \in BareAt => (PlaceSays(t) <=> hold[t] = "none" /\ on[t] = None /\ riding[t] = {})
      /\ pc[t] \in GateAt \ RideAt => (PlaceSays(t) <=> hold[t] = "gate" /\ on[t] = None /\ riding[t] = {})
      /\ pc[t] \in GateAt \cap RideAt => (PlaceSays(t) <=> hold[t] = "gate" /\ on[t] = None /\ riding[t] = {Want[t]})
      /\ pc[t] \in ReadAt \ RideAt => (PlaceSays(t) <=> hold[t] = "read" /\ on[t] = Want[t] /\ riding[t] = {})
      /\ pc[t] \in ReadAt \cap RideAt => (PlaceSays(t) <=> hold[t] = "read" /\ on[t] = Want[t] /\ riding[t] = {Want[t]})
      /\ pc[t] \in RideOnlyAt => (PlaceSays(t) <=> hold[t] = "none" /\ on[t] = None /\ riding[t] = {Want[t]})
      /\ pc[t] \in WriteAt => (PlaceSays(t) <=> hold[t] = "write" /\ on[t] = Want[t] /\ riding[t] = {})
      /\ pc[t] \in DeleteAt => (PlaceSays(t) <=> hold[t] = "write" /\ on[t] # None /\ riding[t] = {})
  <2>1. PlaceSays(t) <=> Says(pc[t], Want[t], hold[t], on[t], riding[t])
    BY DEF PlaceSays, Says
  <2>q. QED
    BY <1>1, <2>1, Sorted, SMT
<1>b. /\ pc'[t] \in BareAt => (PlaceSays(t)' <=> hold'[t] = "none" /\ on'[t] = None /\ riding'[t] = {})
      /\ pc'[t] \in GateAt \ RideAt => (PlaceSays(t)' <=> hold'[t] = "gate" /\ on'[t] = None /\ riding'[t] = {})
      /\ pc'[t] \in GateAt \cap RideAt => (PlaceSays(t)' <=> hold'[t] = "gate" /\ on'[t] = None /\ riding'[t] = {Want[t]})
      /\ pc'[t] \in ReadAt \ RideAt => (PlaceSays(t)' <=> hold'[t] = "read" /\ on'[t] = Want[t] /\ riding'[t] = {})
      /\ pc'[t] \in ReadAt \cap RideAt => (PlaceSays(t)' <=> hold'[t] = "read" /\ on'[t] = Want[t] /\ riding'[t] = {Want[t]})
      /\ pc'[t] \in RideOnlyAt => (PlaceSays(t)' <=> hold'[t] = "none" /\ on'[t] = None /\ riding'[t] = {Want[t]})
      /\ pc'[t] \in WriteAt => (PlaceSays(t)' <=> hold'[t] = "write" /\ on'[t] = Want[t] /\ riding'[t] = {})
      /\ pc'[t] \in DeleteAt => (PlaceSays(t)' <=> hold'[t] = "write" /\ on'[t] # None /\ riding'[t] = {})
  <2>1. PlaceSays(t)' <=> Says(pc'[t], Want[t], hold'[t], on'[t], riding'[t])
    BY DEF PlaceSays, Says
  <2>q. QED
    BY <1>1, <2>1, Sorted, SMT
<1>3. CASE Gate(t) /\ pc[t] \in BareAt /\ pc'[t] \in GateAt \ RideAt
  BY <1>1, <1>3, <1>a, <1>b DEF Gate
<1>4. CASE Ungate(t) /\ pc[t] \in GateAt \ RideAt /\ pc'[t] \in BareAt
  BY <1>1, <1>4, <1>a, <1>b DEF Ungate
<1>5. CASE Ungate(t) /\ pc[t] \in GateAt \cap RideAt /\ pc'[t] \in RideOnlyAt
  BY <1>1, <1>5, <1>a, <1>b DEF Ungate
<1>6. CASE Ride(t, Want[t]) /\ pc[t] \in BareAt /\ pc'[t] \in RideOnlyAt
  BY <1>1, <1>6, <1>a, <1>b DEF Ride
<1>7. CASE Ride(t, Want[t]) /\ pc[t] \in ReadAt \ RideAt /\ pc'[t] \in ReadAt \cap RideAt
  BY <1>1, <1>7, <1>a, <1>b DEF Ride
<1>8. CASE Alight(t, Want[t]) /\ pc[t] \in RideOnlyAt /\ pc'[t] \in BareAt
  BY <1>1, <1>8, <1>a, <1>b DEF Alight
<1>9. CASE Exclude(t, Want[t]) /\ pc[t] \in GateAt \ RideAt /\ pc'[t] \in WriteAt
  BY <1>1, <1>9, <1>a, <1>b DEF Exclude
<1>10. CASE (\E r \in Revs : Exclude(t, r)) /\ pc[t] \in GateAt \ RideAt /\ pc'[t] \in DeleteAt
  BY <1>1, <1>10, <1>a, <1>b DEF Exclude
<1>11. CASE Demote(t) /\ pc[t] \in WriteAt /\ pc'[t] \in ReadAt \ RideAt
  BY <1>1, <1>11, <1>a, <1>b DEF Demote
<1>12. CASE LetGo(t) /\ pc[t] \in ReadAt \cap RideAt /\ pc'[t] \in GateAt \cap RideAt
  BY <1>1, <1>12, <1>a, <1>b DEF LetGo
<1>13. CASE LetGo(t) /\ pc[t] \in DeleteAt /\ pc'[t] \in GateAt \ RideAt
  BY <1>1, <1>13, <1>a, <1>b DEF LetGo
<1>14. CASE UNCHANGED lockVars /\ \E at \in {BareAt, GateAt \ RideAt, WriteAt, DeleteAt, RideOnlyAt} :
                                    pc[t] \in at /\ pc'[t] \in at
  BY <1>1, <1>14, <1>a, <1>b DEF lockVars
<1>q. QED
  BY <1>3, <1>4, <1>5, <1>6, <1>7, <1>8, <1>9, <1>10, <1>11, <1>12, <1>13, <1>14 DEF Fits

(* A step from one place to another.                                       *)
LEMMA Going ==
  ASSUME TypeOK, NEW t \in Tasks, NEW q, NEW p, At(t, q, p)
  PROVE  pc[t] = q /\ pc'[t] = p /\ pc' = [pc EXCEPT ![t] = pc'[t]]
BY DEF At, TypeOK

(* A step of task t from one place to another that changes no entry, makes *)
(* no version and leaves the execute lock alone.                           *)
Quiet(t) ==
  /\ UNCHANGED <<content, bytes, exec, seen, runs, queued, made, into, newer, wrote, torn>>
  /\ late' = late \/ (Gate(t) /\ late' = {})
  /\ pc' = [pc EXCEPT ![t] = pc'[t]] /\ todo' \in [Tasks -> SUBSET Revs]
QuietPlaces(t) ==
  /\ pc'[t] \in Places /\ pc[t] \notin Runs /\ pc'[t] \notin Runs /\ pc'[t] # "copying"
  /\ pc'[t] \in Knows => pc[t] \in Knows
  /\ pc'[t] = "run" => Kind[t] = "force"

(* It preserves the invariant if the task then holds what its place says.  *)
LEMMA QuietStep ==
  ASSUME PathInv, NEW t \in Tasks, Fits(t), Quiet(t), QuietPlaces(t), KeepsToItsPart(t)'
  PROVE  PathInv'
<1>1. Want[t] \in Revs /\ Agrees(t) /\ exec # t
  BY PathAssumption DEF PathInv, QuietPlaces, RunnerHasLock
<1>2. TypeOK /\ PlaceSays(t)
  BY DEF PathInv
<1>3. PathTypes'
  BY <1>2 DEF Quiet, QuietPlaces, TypeOK, PathTypes, Places
<1>4. Touches(t, Want[t]) /\ SameEntry(Want[t])
  BY <1>1, <1>2 DEF Quiet, QuietPlaces, TypeOK, Touches, SameEntry
<1>5. Agrees(t)'
  BY <1>1 DEF Quiet, QuietPlaces, Agrees, Named, Runs
<1>6. NeverBuiltTwice'
  <2>1. pc'[t] \in Building => Kind[t] = "force"
    BY DEF QuietPlaces, Runs, Building
  <2>q. QED
    BY <1>4, <2>1, StillUnbuilt DEF Quiet, LateKept
<1>7. LockMove(t) /\ PlaceSays(t)'
  BY <1>2, Fitting
<1>q. QED
  BY <1>1, <1>3, <1>4, <1>5, <1>6, <1>7, TouchStep

(* The steps that only take, give back or pass on locks.                   *)
LEMMA LockingSteps ==
  ASSUME PathInv, NEW t \in Tasks,
         \/ TakeRead(t) \/ ProbeMiss(t) \/ TryGateway(t) \/ TryRevision(t) \/ Contend(t)
         \/ ForceWrite(t) \/ HandOff(t) \/ Unavailable(t) \/ Finish(t) \/ EndDeleting(t)
  PROVE  PathInv'
<1> DEFINE Moves(q, p) == pc[t] = q /\ pc'[t] = p
           Moved == pc' = [pc EXCEPT ![t] = pc'[t]]
           Kept == KeepAll /\ (late' = late \/ (Gate(t) /\ late' = {}))
<1>t. TypeOK /\ PlaceSays(t) /\ KeepsToItsPart(t)
  BY DEF PathInv
<1>k. ASSUME Kept, Moved PROVE Quiet(t) /\ (Wrote(t)' <=> Wrote(t)) /\ queued' = queued
  BY <1>t, <1>k DEF Quiet, KeepAll, pathVars, queueVars, TypeOK, Wrote
<1>l. Keep => Kept
  BY DEF Keep, KeepAll, histVars
<1>1. CASE TakeRead(t)
  <2>1. /\ Kept /\ Moved
        /\ Moves("start", "probe") /\ Ride(t, Want[t])
    BY <1>t, <1>l, <1>1, Going DEF TakeRead
  <2>2. Fits(t) /\ QuietPlaces(t)
    BY <2>1 DEF Fits, QuietPlaces, Runs, Knows, Places, GateAt, ReadAt, RideAt, BareAt, RideOnlyAt
  <2>3. KeepsToItsPart(t)'
    BY <1>t, <1>k, <2>1 DEF KeepsToItsPart, Unwritten, DeleteAt
  <2>q. QED
    BY <1>k, <2>1, <2>2, <2>3, QuietStep
<1>2. CASE ProbeMiss(t)
  <2>1. /\ Kept /\ Moved
        /\ \/ Moves("probe", "unknown") /\ Alight(t, Want[t])
           \/ Moves("probe", "try") /\ Alight(t, Want[t])
           \/ Moves("reprobe", "try") /\ Alight(t, Want[t])
    BY <1>t, <1>l, <1>2, Going DEF ProbeMiss
  <2>2. Fits(t) /\ QuietPlaces(t)
    BY <2>1 DEF Fits, QuietPlaces, Runs, Knows, Places, GateAt, ReadAt, RideAt, BareAt, RideOnlyAt, Ended
  <2>3. KeepsToItsPart(t)'
    BY <1>t, <1>k, <2>1 DEF KeepsToItsPart, Unwritten, DeleteAt
  <2>q. QED
    BY <1>k, <2>1, <2>2, <2>3, QuietStep
<1>3. CASE TryGateway(t)
  <2>1. /\ Kept /\ Moved
        /\ \/ Moves("try", "try_inner") /\ Gate(t)
           \/ Moves("try", "contend") /\ UNCHANGED lockVars
    BY <1>t, <1>l, <1>3, Going DEF TryGateway, TakeGate
  <2>2. Fits(t) /\ QuietPlaces(t)
    BY <2>1 DEF Fits, QuietPlaces, Runs, Knows, Places, GateAt, RideAt, BareAt
  <2>3. KeepsToItsPart(t)'
    BY <1>t, <1>k, <2>1 DEF KeepsToItsPart, Unwritten, DeleteAt
  <2>q. QED
    BY <1>k, <2>1, <2>2, <2>3, QuietStep
<1>4. CASE TryRevision(t)
  <2>1. /\ Kept /\ Moved
        /\ \/ Moves("try_inner", "recheck") /\ Exclude(t, Want[t])
           \/ Moves("try_inner", "contend") /\ Ungate(t)
    BY <1>t, <1>l, <1>4, Going DEF TryRevision
  <2>2. Fits(t) /\ QuietPlaces(t)
    BY <2>1 DEF Fits, QuietPlaces, Runs, Knows, Places, GateAt, RideAt, WriteAt, BareAt
  <2>3. KeepsToItsPart(t)'
    BY <1>t, <1>k, <2>1 DEF KeepsToItsPart, Unwritten, DeleteAt
  <2>q. QED
    BY <1>k, <2>1, <2>2, <2>3, QuietStep
<1>5. CASE Contend(t)
  <2>1. /\ Kept /\ Moved
        /\ \/ Moves("contend", "pass") /\ Gate(t)
           \/ Moves("pass", "reread") /\ Ungate(t)
           \/ Moves("reread", "reprobe") /\ Ride(t, Want[t])
    BY <1>t, <1>l, <1>5, Going DEF Contend, TakeGate
  <2>2. Fits(t) /\ QuietPlaces(t)
    BY <2>1 DEF Fits, QuietPlaces, Runs, Knows, Places, GateAt, ReadAt, RideAt, BareAt, RideOnlyAt
  <2>3. KeepsToItsPart(t)'
    BY <1>t, <1>k, <2>1 DEF KeepsToItsPart, Unwritten, DeleteAt
  <2>q. QED
    BY <1>k, <2>1, <2>2, <2>3, QuietStep
<1>6. CASE ForceWrite(t)
  <2>1. /\ Kept /\ Moved
        /\ \/ Moves("fgate", "fwrite") /\ Gate(t)
           \/ Moves("fwrite", "run") /\ Exclude(t, Want[t])
    BY <1>t, <1>l, <1>6, Going DEF ForceWrite, TakeGate
  <2>2. Fits(t) /\ QuietPlaces(t)
    BY <1>t, <2>1 DEF Fits, QuietPlaces, KeepsToItsPart, Runs, Knows, Places, GateAt, RideAt, WriteAt, BareAt
  <2>3. KeepsToItsPart(t)'
    BY <1>t, <1>k, <2>1 DEF KeepsToItsPart, Unwritten, DeleteAt
  <2>q. QED
    BY <1>k, <2>1, <2>2, <2>3, QuietStep
<1>7. CASE HandOff(t)
  <2>1. /\ Kept /\ Moved
        /\ \/ Moves("written", "up") /\ Demote(t)
           \/ Moves("up", "handed") /\ Ride(t, Want[t])
           \/ Moves("handed", "letting") /\ LetGo(t)
           \/ Moves("letting", "riding") /\ Ungate(t)
    BY <1>t, <1>l, <1>7, Going DEF HandOff
  <2>2. Fits(t) /\ QuietPlaces(t)
    BY <2>1 DEF Fits, QuietPlaces, Runs, Knows, Places, GateAt, ReadAt, WriteAt, RideAt, RideOnlyAt
  <2>3. KeepsToItsPart(t)'
    BY <1>t, <1>k, <2>1 DEF KeepsToItsPart, Unwritten, DeleteAt
  <2>q. QED
    BY <1>k, <2>1, <2>2, <2>3, QuietStep
<1>8. CASE Unavailable(t)
  <2>1. /\ Kept /\ Moved
        /\ \/ Moves("riding", "unknown") /\ Alight(t, Want[t])
           \/ Moves("riding", "rerun") /\ UNCHANGED lockVars
    BY <1>t, <1>l, <1>8, Going DEF Unavailable
  <2>2. Fits(t) /\ QuietPlaces(t)
    BY <2>1 DEF Fits, QuietPlaces, Runs, Knows, Places, GateAt, ReadAt, RideAt, BareAt, RideOnlyAt, Ended
  <2>3. KeepsToItsPart(t)'
    BY <1>t, <1>k, <2>1 DEF KeepsToItsPart, Unwritten, DeleteAt
  <2>q. QED
    BY <1>k, <2>1, <2>2, <2>3, QuietStep
<1>9. CASE Finish(t)
  <2>1. /\ Kept /\ Moved
        /\ pc[t] \in {"riding", "copied"} /\ pc'[t] \in {"trim", "done"} /\ Alight(t, Want[t])
    BY <1>t, <1>l, <1>9, Going DEF Finish
  <2>2. Fits(t) /\ QuietPlaces(t)
    BY <2>1 DEF Fits, QuietPlaces, Runs, Knows, Places, GateAt, ReadAt, RideAt, BareAt, RideOnlyAt, Ended
  <2>3. KeepsToItsPart(t)'
    BY <1>t, <1>k, <2>1 DEF KeepsToItsPart, Unwritten, DeleteAt
  <2>q. QED
    BY <1>k, <2>1, <2>2, <2>3, QuietStep
<1>10. CASE EndDeleting(t)
  <2>1. /\ Kept /\ Moved
        /\ Moves("deleting", "done") /\ Ungate(t)
    BY <1>t, <1>l, <1>10, Going DEF EndDeleting
  <2>2. Fits(t) /\ QuietPlaces(t)
    BY <2>1 DEF Fits, QuietPlaces, Runs, Knows, Places, GateAt, RideAt, BareAt, Ended
  <2>3. KeepsToItsPart(t)'
    BY <1>t, <1>k, <2>1 DEF KeepsToItsPart, Unwritten, DeleteAt
  <2>q. QED
    BY <1>k, <2>1, <2>2, <2>3, QuietStep
<1>q. QED
  BY <1>1, <1>2, <1>3, <1>4, <1>5, <1>6, <1>7, <1>8, <1>9, <1>10

(* The steps of a trim, a gc and a clean that choose what to delete.       *)
LEMMA ChoosingSteps ==
  ASSUME PathInv, NEW t \in Tasks,
         \/ SkipListing(t) \/ Count(t) \/ GiveUp(t) \/ List(t)
         \/ \E r \in Revs : Pick(t, r)
  PROVE  PathInv'
<1> DEFINE Moves(q, p) == pc[t] = q /\ pc'[t] = p
           Moved == pc' = [pc EXCEPT ![t] = pc'[t]]
           Same == /\ UNCHANGED <<content, bytes, exec, seen, runs, queueVars, newer, wrote, torn>>
                   /\ late' = late \/ (Gate(t) /\ late' = {})
<1>t. TypeOK /\ PlaceSays(t) /\ KeepsToItsPart(t)
  BY DEF PathInv
<1>k. ASSUME Same, Moved, todo' \in [Tasks -> SUBSET Revs]
      PROVE  Quiet(t) /\ (Wrote(t)' <=> Wrote(t)) /\ queued' = queued
  BY <1>k DEF Quiet, queueVars, Wrote
<1>1. CASE SkipListing(t) \/ Count(t) \/ GiveUp(t)
  <2>1. /\ Same /\ UNCHANGED <<lockVars, todo>> /\ Moved
        /\ \/ Moves("listing", "done") \/ Moves("trimming", "done")
           \/ Moves("trim", "trimming") \/ Moves("trim", "done")
    BY <1>t, <1>1, Going DEF SkipListing, Count, GiveUp, absVars, pathVars, histVars
  <2>2. Fits(t) /\ QuietPlaces(t)
    BY <2>1 DEF Fits, QuietPlaces, Runs, Knows, Places, BareAt, Ended
  <2>3. Quiet(t) /\ (Wrote(t)' <=> Wrote(t)) /\ queued' = queued
    BY <1>t, <1>k, <2>1 DEF TypeOK
  <2>4. KeepsToItsPart(t)'
    BY <1>t, <2>1, <2>3 DEF KeepsToItsPart, Unwritten, DeleteAt
  <2>q. QED
    BY <2>2, <2>3, <2>4, QuietStep
<1>2. CASE List(t)
  <2>1. todo' \in [Tasks -> SUBSET Revs]
    BY <1>t, <1>2, SMT DEF List, Entries, Surplus, TypeOK
  <2>2. Same /\ Gate(t) /\ Moved /\ (Moves("listing", "deleting") \/ Moves("trimming", "deleting"))
    BY <1>t, <1>2, Going DEF List, TakeGate
  <2>3. Fits(t) /\ QuietPlaces(t)
    BY <2>2 DEF Fits, QuietPlaces, Runs, Knows, Places, GateAt, RideAt, BareAt
  <2>4. KeepsToItsPart(t)'
    BY <1>t, <1>k, <2>1, <2>2 DEF KeepsToItsPart, Unwritten, DeleteAt
  <2>q. QED
    BY <1>k, <2>1, <2>2, <2>3, <2>4, QuietStep
<1>3. ASSUME NEW r \in Revs, Pick(t, r) PROVE PathInv'
  <2>1. todo' \in [Tasks -> SUBSET Revs]
    BY <1>t, <1>3 DEF Pick, TypeOK
  <2>2. /\ Same /\ Moved
        /\ \/ Moves("deleting", "blobs") /\ Exclude(t, r)
           \/ Moves("deleting", "deleting") /\ UNCHANGED lockVars
    BY <1>t, <1>3, Going DEF Pick, histVars
  <2>3. Fits(t) /\ QuietPlaces(t)
    BY <2>2 DEF Fits, QuietPlaces, Runs, Knows, Places, GateAt, RideAt, DeleteAt
  <2>4. KeepsToItsPart(t)'
    BY <1>t, <1>k, <2>1, <2>2 DEF KeepsToItsPart, Unwritten, DeleteAt
  <2>q. QED
    BY <1>k, <2>1, <2>2, <2>3, <2>4, QuietStep
<1>q. QED
  BY <1>1, <1>2, <1>3

(* While a task has the write lock of a revision, nobody else runs for it, *)
(* writes it or rides it.                                                  *)
LEMMA WriterIsAlone ==
  ASSUME PathInv, NEW t \in Tasks, hold[t] = "write", NEW u \in Tasks \ {t}
  PROVE  /\ pc[u] \notin WriteAt \cup ReadAt \cup DeleteAt \cup GateAt
         /\ pc[u] \in Knows \cup RideAt => Want[u] # on[t]
<1>1. hold[u] = "none" /\ on[t] \notin riding[u] /\ PlaceSays(u)
  BY DEF PathInv, OneGateway, WriteExcludesRides
<1>2. pc[u] \notin WriteAt \cup ReadAt \cup DeleteAt \cup GateAt
  BY <1>1 DEF PlaceSays
<1>3. pc[u] \in Knows => pc[u] \in RideAt
  BY <1>2 DEF Knows, RideAt, WriteAt, ReadAt
<1>4. pc[u] \in RideAt => Want[u] # on[t]
  BY <1>1 DEF PlaceSays
<1>q. QED
  BY <1>2, <1>3, <1>4

(* A revision is torn when versions meet, and only then.                   *)
LEMMA Mixed ==
  ASSUME TypeOK, NEW r \in Revs, NEW v \in Nat, v # 0, Mix(r, v)
  PROVE  /\ torn' \in SUBSET Revs
         /\ \A x \in torn : x \in torn'
         /\ \A x \in torn' : x \in torn \/ x = r
         /\ r \notin torn' =>
              /\ content[r] \in {0, v} /\ bytes[r] \in {0, v}
              /\ \A u \in Tasks : Want[u] = r /\ "mirror" \in queued[u] => v = 1
<1>1. /\ torn' \in SUBSET Revs
      /\ \A x \in torn : x \in torn'
      /\ \A x \in torn' : x \in torn \/ x = r
      /\ r \notin torn' => Versions(r) \subseteq {0, v}
  BY DEF Mix, TypeOK
<1>2. ASSUME Versions(r) \subseteq {0, v}
      PROVE  /\ content[r] \in {0, v} /\ bytes[r] \in {0, v}
             /\ \A u \in Tasks : Want[u] = r /\ "mirror" \in queued[u] => v = 1
  <2>1. content[r] \in Versions(r) /\ bytes[r] \in Versions(r)
    BY DEF Versions
  <2>2. \A u \in Tasks : Want[u] = r /\ "mirror" \in queued[u] => 1 \in Versions(r)
    BY DEF Versions, Mirroring
  <2>3. 1 \in {0, v} => v = 1
    BY SMT
  <2>q. QED
    BY <1>2, <2>1, <2>2, <2>3
<1>q. QED
  BY <1>1, <1>2

-----------------------------------------------------------------------------
(* A step of task t that changes no entry: it may change the task's place, *)
(* what it resolved to, and what it has queued.                            *)
Still(t) ==
  /\ UNCHANGED <<lockVars, content, bytes, todo, newer, wrote, torn, late>>
  /\ pc' = [pc EXCEPT ![t] = pc'[t]] /\ seen' = [seen EXCEPT ![t] = seen'[t]]
  /\ queued' = [queued EXCEPT ![t] = queued'[t]]
  /\ made' = [made EXCEPT ![t] = made'[t]] /\ into' = [into EXCEPT ![t] = into'[t]]
  /\ pc'[t] \in Places /\ seen'[t] \in 0 .. MaxRuns
  /\ queued'[t] \subseteq {"mirror", "blobs", "manifest"}
  /\ made'[t] \in 0 .. MaxRuns /\ into'[t] \in Revs
  /\ runs' \in 0 .. MaxRuns
  /\ pc'[t] \in Runs => exec' = t /\ exec \in {t, None}
  /\ pc'[t] \notin Runs => exec' = exec /\ exec # t

(* It preserves the invariant if it keeps the kind of its place, and the   *)
(* entry is right for it.                                                  *)
LEMMA StillStep ==
  ASSUME PathInv, NEW t \in Tasks, Still(t), KeepsToItsPart(t)', Agrees(t)',
         \E at \in {WriteAt, RideOnlyAt} : pc[t] \in at /\ pc'[t] \in at,
         Kind[t] = "plain" /\ pc'[t] \in Building => pc[t] \in Building \/ content[Want[t]] = 0
  PROVE  PathInv'
<1>1. TypeOK /\ PlaceSays(t) /\ Want[t] \in Revs
  BY PathAssumption DEF PathInv
<1>2. PathTypes'
  <2>1. /\ content' \in [Revs -> 0 .. MaxRuns] /\ bytes' \in [Revs -> 0 .. MaxRuns]
        /\ todo' \in [Tasks -> SUBSET Revs] /\ runs' \in 0 .. MaxRuns
        /\ newer' \in [Revs -> SUBSET Revs] /\ torn' \in SUBSET Revs /\ late' \in SUBSET Revs
        /\ wrote' \in SUBSET Tasks
    BY <1>1 DEF Still, TypeOK
  <2>2. exec' \in Tasks \cup {None}
    BY <1>1 DEF Still, TypeOK
  <2>3. pc' \in [Tasks -> Places] /\ seen' \in [Tasks -> 0 .. MaxRuns]
    BY <1>1 DEF Still, TypeOK, Places
  <2>4. /\ queued' \in [Tasks -> SUBSET {"mirror", "blobs", "manifest"}]
        /\ made' \in [Tasks -> 0 .. MaxRuns] /\ into' \in [Tasks -> Revs]
    BY <1>1 DEF Still, TypeOK
  <2>q. QED
    BY <2>1, <2>2, <2>3, <2>4 DEF PathTypes
<1>3. Touches(t, Want[t]) /\ SameEntry(Want[t])
  <2>1. \A x \in Revs : SameEntry(x)
    BY DEF Still, SameEntry
  <2>2. \A u \in Tasks \ {t} :
          /\ pc'[u] = pc[u] /\ seen'[u] = seen[u] /\ (u \in wrote' <=> u \in wrote)
          /\ queued'[u] = queued[u] /\ made'[u] = made[u] /\ into'[u] = into[u]
    BY <1>1 DEF Still, TypeOK
  <2>q. QED
    BY <1>1, <2>1, <2>2 DEF Still, Touches
<1>4. Fits(t)
  BY DEF Fits, Still
<1>5. LockMove(t) /\ PlaceSays(t)'
  BY <1>1, <1>4, Fitting
<1>6. NeverBuiltTwice'
  BY <1>3, StillUnbuilt DEF Still, LateKept
<1>q. QED
  BY <1>1, <1>2, <1>3, <1>5, <1>6, TouchStep

(* A hit, under a read.                                                    *)
LEMMA ProbeHitStep ==
  ASSUME PathInv, NEW t \in Tasks, ProbeHit(t)
  PROVE  PathInv'
<1> DEFINE r == Want[t]
<1> TypeOK /\ KeepsToItsPart(t) /\ Agrees(t) /\ Matches(r) /\ r \in Revs /\ exec # t
  <2>1. pc[t] \notin Runs
    BY DEF ProbeHit, At, Runs
  <2>q. QED
    BY <2>1, PathAssumption DEF PathInv, RunnerHasLock
<1>1. /\ pc[t] \in {"probe", "reprobe"} /\ pc' = [pc EXCEPT ![t] = "riding"]
      /\ content[r] # 0 /\ seen' = [seen EXCEPT ![t] = content[r]]
      /\ UNCHANGED <<lockVars, content, bytes, exec, todo, runs, queued, made, into, newer, wrote, torn, late>>
  BY DEF ProbeHit, At, Resolved, absVars, queueVars, histVars
<1>2. pc'[t] = "riding" /\ seen'[t] = content[r] /\ queued[t] = {}
  BY <1>1 DEF TypeOK, KeepsToItsPart, Unwritten
<1>3. Still(t)
  BY <1>1, <1>2 DEF Still, TypeOK, Places, RideAt, Runs
<1>4. KeepsToItsPart(t)'
  BY <1>1, <1>2 DEF KeepsToItsPart, Wrote, Unwritten, DeleteAt
<1>5. Agrees(t)'
  BY <1>1, <1>2 DEF Agrees, Matches, Named
<1>6. pc[t] \in RideOnlyAt /\ pc'[t] \in RideOnlyAt
  BY <1>1, <1>2 DEF RideOnlyAt, RideAt, GateAt, ReadAt
<1>q. QED
  BY <1>2, <1>3, <1>4, <1>5, <1>6, StillStep DEF Building

(* The second look, under the write lock.                                  *)
LEMMA RecheckStep ==
  ASSUME PathInv, NEW t \in Tasks, Recheck(t)
  PROVE  PathInv'
<1> DEFINE r == Want[t]
<1> TypeOK /\ PlaceSays(t) /\ KeepsToItsPart(t) /\ Agrees(t) /\ Matches(r) /\ r \in Revs /\ exec # t
  <2>1. pc[t] \notin Runs
    BY DEF Recheck, At, Runs
  <2>q. QED
    BY <2>1, PathAssumption DEF PathInv, RunnerHasLock
<1>1. /\ pc[t] = "recheck"
      /\ UNCHANGED <<lockVars, content, bytes, exec, todo, runs, made, into, newer, wrote, late>>
      /\ \/ /\ content[r] # 0 /\ pc' = [pc EXCEPT ![t] = "written"]
            /\ seen' = [seen EXCEPT ![t] = content[r]] /\ UNCHANGED <<queued, torn>>
         \/ /\ content[r] = 0 /\ pc' = [pc EXCEPT ![t] = "written"]
            /\ seen' = [seen EXCEPT ![t] = 1] /\ queued' = [queued EXCEPT ![t] = @ \cup {"mirror"}]
            /\ Mix(r, 1)
         \/ /\ content[r] = 0 /\ pc' = [pc EXCEPT ![t] = "run"]
            /\ UNCHANGED <<seen, queued, torn>>
  BY DEF Recheck, At, Resolved, Queue, absVars
<1>2. queued[t] = {}
  BY <1>1 DEF KeepsToItsPart, Unwritten
<1>3. ASSUME UNCHANGED <<queued, torn>>,
             \/ /\ content[r] # 0 /\ pc' = [pc EXCEPT ![t] = "written"]
                /\ seen' = [seen EXCEPT ![t] = content[r]]
             \/ content[r] = 0 /\ pc' = [pc EXCEPT ![t] = "run"] /\ seen' = seen
      PROVE  PathInv'
  <2>1. /\ pc'[t] \in {"written", "run"} /\ (pc'[t] = "run" => content[r] = 0 /\ seen'[t] = seen[t])
        /\ pc'[t] = "written" => content[r] # 0 /\ seen'[t] = content[r]
    BY <1>3 DEF TypeOK
  <2>2. Still(t)
    BY <1>1, <1>3, <2>1 DEF Still, TypeOK, Places, WriteAt, Runs
  <2>3. KeepsToItsPart(t)'
    BY <1>1, <1>2, <1>3, <2>1 DEF KeepsToItsPart, Wrote, Unwritten, DeleteAt
  <2>4. Agrees(t)'
    BY <1>1, <1>2, <1>3, <2>1 DEF Agrees, Matches, Named, Knows
  <2>5. pc[t] \in WriteAt /\ pc'[t] \in WriteAt
    BY <1>1, <2>1 DEF WriteAt
  <2>q. QED
    BY <2>1, <2>2, <2>3, <2>4, <2>5, StillStep DEF Building
<1>4. ASSUME content[r] = 0, pc' = [pc EXCEPT ![t] = "written"], seen' = [seen EXCEPT ![t] = 1],
             queued' = [queued EXCEPT ![t] = @ \cup {"mirror"}], Mix(r, 1)
      PROVE  PathInv'
  <2>1. /\ torn' \in SUBSET Revs /\ \A x \in Revs \ {r} : x \in torn' <=> x \in torn
        /\ r \in torn => r \in torn'
        /\ bytes[r] \in {0, 1} \/ r \in torn'
    BY <1>4, Mixed, SMT
  <2>2. /\ pc'[t] = "written" /\ seen'[t] = 1 /\ queued'[t] = {"mirror"}
        /\ made'[t] = made[t] /\ into'[t] = into[t] /\ content'[r] = 0 /\ bytes'[r] = bytes[r]
    BY <1>1, <1>2, <1>4 DEF TypeOK
  <2>3. PathTypes'
    <3>1. 1 \in 0 .. MaxRuns
      BY PathAssumption, SMT
    <3>2. pc' \in [Tasks -> Places] /\ seen' \in [Tasks -> 0 .. MaxRuns]
      BY <1>4, <3>1 DEF TypeOK, Places, WriteAt
    <3>3. queued' \in [Tasks -> SUBSET {"mirror", "blobs", "manifest"}]
      BY <1>4, SMT DEF TypeOK
    <3>q. QED
      BY <1>1, <2>1, <3>2, <3>3 DEF TypeOK, PathTypes
  <2>4. PlaceSays(t)'
    BY <1>1, <2>2 DEF PlaceSays, lockVars, GateAt, ReadAt, WriteAt, DeleteAt, RideAt
  <2>5. KeepsToItsPart(t)'
    BY <1>1, <2>2 DEF KeepsToItsPart, Wrote, Unwritten, DeleteAt
  <2>6. Agrees(t)'
    <3>1. 1 # 0 /\ 1 < 2
      BY SMT
    <3>q. QED
      BY <2>1, <2>2, <3>1 DEF Agrees, Named
  <2>7. Matches(r)'
    <3>1. 0 < 2
      BY SMT
    <3>q. QED
      BY <2>2, <3>1 DEF Matches
  <2>8. Touches(t, r) /\ LockMove(t)
    BY <1>1, <1>4, <2>1, <2>2 DEF Touches, SameEntry, TypeOK, Runs, LockMove
  <2>9. ASSUME NEW u \in Tasks \ {t}, Want[u] = r PROVE Agrees(u)'
    <3>1. /\ Agrees(u) /\ pc'[u] = pc[u] /\ seen'[u] = seen[u]
          /\ queued'[u] = queued[u] /\ made'[u] = made[u] /\ into'[u] = into[u]
      BY <2>8 DEF PathInv, Touches
    <3>2. pc[u] \notin Knows \cup {"stored", "landing"}
      BY <1>1, <2>9, WriterIsAlone DEF PlaceSays, GateAt, ReadAt, WriteAt
    <3>q. QED
      BY <3>1, <3>2 DEF Agrees
  <2>10. NeverBuiltTwice'
    BY <1>1, <2>2, <2>8, StillUnbuilt DEF LateKept, Building
  <2>q. QED
    BY <2>3, <2>4, <2>5, <2>6, <2>7, <2>8, <2>9, <2>10, TouchStep
<1>q. QED
  BY <1>1, <1>3, <1>4

(* A run starts.                                                           *)
LEMMA ExecuteStep ==
  ASSUME PathInv, NEW t \in Tasks, Execute(t)
  PROVE  PathInv'
<1> DEFINE r == Want[t]
<1> TypeOK /\ KeepsToItsPart(t) /\ Agrees(t)
  BY DEF PathInv
<1>1. /\ \/ pc[t] = "run" /\ pc' = [pc EXCEPT ![t] = "running"]
         \/ pc[t] = "rerun" /\ pc' = [pc EXCEPT ![t] = "rerunning"]
      /\ exec = None /\ exec' = t
      /\ UNCHANGED <<lockVars, content, bytes, seen, todo, runs, queued, made, into, newer, wrote, torn, late>>
  BY DEF Execute, At, absVars, queueVars, histVars
<1>2. /\ pc'[t] \in {"running", "rerunning"}
      /\ pc'[t] = "running" => pc[t] = "run"
      /\ pc'[t] = "rerunning" => pc[t] = "rerun"
  BY <1>1 DEF TypeOK
<1>3. Still(t)
  BY <1>1, <1>2 DEF Still, TypeOK, Places, WriteAt, RideAt, Runs
<1>4. KeepsToItsPart(t)'
  BY <1>1, <1>2 DEF KeepsToItsPart, Wrote, Unwritten, DeleteAt
<1>5. Agrees(t)'
  BY <1>1, <1>2 DEF Agrees, Named, Knows
<1>6. \E at \in {WriteAt, RideOnlyAt} : pc[t] \in at /\ pc'[t] \in at
  BY <1>1, <1>2 DEF WriteAt, RideOnlyAt, RideAt, GateAt, ReadAt
<1>7. pc'[t] \in Building => pc[t] \in Building
  BY <1>2 DEF Building
<1>q. QED
  BY <1>3, <1>4, <1>5, <1>6, <1>7, StillStep

(* A run's blobs are queued.                                               *)
LEMMA StoreBlobsStep ==
  ASSUME PathInv, NEW t \in Tasks, StoreBlobs(t)
  PROVE  PathInv'
<1> DEFINE r == Want[t]
           v == Made(t)
<1> TypeOK /\ KeepsToItsPart(t) /\ Agrees(t) /\ r \in Revs
  BY PathAssumption DEF PathInv
<1>1. /\ \/ pc[t] = "running" /\ pc' = [pc EXCEPT ![t] = "stored"] /\ seen' = [seen EXCEPT ![t] = v]
         \/ pc[t] = "rerunning" /\ pc' = [pc EXCEPT ![t] = "restored"] /\ seen' = seen
      /\ queued' = [queued EXCEPT ![t] = @ \cup {"blobs"}]
      /\ made' = [made EXCEPT ![t] = v] /\ into' = [into EXCEPT ![t] = r]
      /\ UNCHANGED <<lockVars, content, bytes, exec, todo, newer, wrote, torn, late>>
  BY DEF StoreBlobs, At, Resolved, Queue, absVars, histVars
<1>2. /\ v \in 1 .. MaxRuns /\ (r \in Reproducible => v = 1) /\ runs' \in 0 .. MaxRuns
      /\ v \in 0 .. MaxRuns /\ v # 0 /\ (r \in Reproducible => v < 2)
  BY PathAssumption, SMT DEF StoreBlobs, Made, TypeOK
<1>3. exec = t
  BY <1>1 DEF PathInv, RunnerHasLock, Runs
<1>4. /\ pc'[t] \in {"stored", "restored"} /\ queued'[t] = queued[t] \cup {"blobs"}
      /\ pc'[t] = "stored" => pc[t] = "running" /\ seen'[t] = v
      /\ pc'[t] = "restored" => pc[t] = "rerunning" /\ seen'[t] = seen[t]
      /\ made'[t] = v /\ into'[t] = r
  BY <1>1 DEF TypeOK
<1>5. Still(t)
  <2>1. /\ seen' = [seen EXCEPT ![t] = seen'[t]] /\ seen'[t] \in 0 .. MaxRuns
        /\ queued[t] \subseteq {"mirror", "blobs", "manifest"}
    <3>1. /\ seen \in [Tasks -> 0 .. MaxRuns] /\ queued[t] \subseteq {"mirror", "blobs", "manifest"}
          /\ seen' = [seen EXCEPT ![t] = v] \/ seen' = seen
      BY <1>1 DEF TypeOK
    <3>q. QED
      BY <1>2, <3>1
  <2>2. pc' = [pc EXCEPT ![t] = pc'[t]] /\ pc'[t] \in Places
    BY <1>1, <1>4 DEF Places, WriteAt, RideAt
  <2>q. QED
    BY <1>1, <1>2, <1>3, <1>4, <2>1, <2>2 DEF Still, Runs
<1>6. KeepsToItsPart(t)'
  BY <1>1, <1>4 DEF KeepsToItsPart, Wrote, Unwritten, DeleteAt
<1>7. Agrees(t)'
  BY <1>1, <1>2, <1>4 DEF Agrees, Named, Knows
<1>8. \E at \in {WriteAt, RideOnlyAt} : pc[t] \in at /\ pc'[t] \in at
  BY <1>1, <1>4 DEF WriteAt, RideOnlyAt, RideAt, GateAt, ReadAt
<1>9. pc'[t] \in Building => pc[t] \in Building
  BY <1>4 DEF Building
<1>q. QED
  BY <1>5, <1>6, <1>7, <1>8, <1>9, StillStep

(* Its manifest is queued, and that of a copy.                             *)
LEMMA StoreManifestStep ==
  ASSUME PathInv, NEW t \in Tasks, StoreManifest(t) \/ CopyManifest(t)
  PROVE  PathInv'
<1> TypeOK /\ KeepsToItsPart(t) /\ Agrees(t)
  BY DEF PathInv
<1>1. /\ \/ pc[t] = "stored" /\ pc' = [pc EXCEPT ![t] = "landing"]
         \/ pc[t] = "restored" /\ pc' = [pc EXCEPT ![t] = "relanding"]
         \/ pc[t] = "copying" /\ pc' = [pc EXCEPT ![t] = "copied"]
      /\ queued' = [queued EXCEPT ![t] = @ \cup {"manifest"}]
      /\ UNCHANGED <<lockVars, content, bytes, exec, seen, todo, runs, made, into, newer, wrote, torn, late>>
  BY DEF StoreManifest, CopyManifest, At, Queue, absVars, histVars
<1>2. /\ pc'[t] \in {"landing", "relanding", "copied"} /\ queued'[t] = queued[t] \cup {"manifest"}
      /\ pc'[t] = "landing" => pc[t] = "stored"
      /\ pc'[t] = "relanding" => pc[t] = "restored"
      /\ pc'[t] = "copied" => pc[t] = "copying"
  BY <1>1 DEF TypeOK
<1>3. pc'[t] \in Runs => exec = t
  BY <1>2 DEF PathInv, RunnerHasLock, Runs
<1>4. pc'[t] \notin Runs => exec # t
  BY <1>2 DEF PathInv, RunnerHasLock, Runs
<1>5. Still(t)
  BY <1>1, <1>2, <1>3, <1>4 DEF Still, TypeOK, Places, WriteAt, RideAt
<1>6. KeepsToItsPart(t)'
  BY <1>1, <1>2 DEF KeepsToItsPart, Wrote, Unwritten, DeleteAt
<1>7. Agrees(t)'
  BY <1>1, <1>2 DEF Agrees, Named, Knows
<1>8. \E at \in {WriteAt, RideOnlyAt} : pc[t] \in at /\ pc'[t] \in at
  BY <1>1, <1>2 DEF WriteAt, RideOnlyAt, RideAt, GateAt, ReadAt
<1>q. QED
  BY <1>2, <1>5, <1>6, <1>7, <1>8, StillStep DEF Building

(* Missing blobs are pulled, and those of an entry copied to its fixpoint, *)
(* of which there is one version.                                          *)
LEMMA PullSteps ==
  ASSUME PathInv, NEW t \in Tasks, Pull(t) \/ CopyBlobs(t)
  PROVE  PathInv'
<1> DEFINE r == Want[t]
<1> TypeOK /\ KeepsToItsPart(t) /\ Agrees(t) /\ Matches(r) /\ r \in Revs
  BY PathAssumption DEF PathInv
<1>1. PICK v \in 0 .. MaxRuns, f \in Revs :
        /\ v # 0 /\ (f \in Reproducible => v < 2)
        /\ pc[t] = "riding" /\ ((pc' = [pc EXCEPT ![t] = "copying"] /\ f # r) \/ UNCHANGED pc)
        /\ queued' = [queued EXCEPT ![t] = @ \cup {"blobs"}]
        /\ made' = [made EXCEPT ![t] = v] /\ into' = [into EXCEPT ![t] = f]
        /\ f \in {r, Fix[r]}
        /\ UNCHANGED <<lockVars, content, bytes, exec, seen, todo, runs, newer, wrote, torn, late>>
  <2>1. CASE Pull(t)
    <3>1. 1 \in 0 .. MaxRuns /\ 1 # 0 /\ 1 < 2
      BY PathAssumption, SMT
    <3>q. QED
      BY <2>1, <3>1 DEF Pull, Queue, absVars, histVars
  <2>2. CASE CopyBlobs(t)
    <3>1. /\ bytes[r] \in 0 .. MaxRuns /\ bytes[r] # 0 /\ r \in Reproducible /\ Fix[r] \in Revs /\ Fix[r] # r
      BY <2>2, PathAssumption DEF CopyBlobs, TypeOK
    <3>q. QED
      BY <2>2, <3>1 DEF CopyBlobs, At, Queue, absVars, histVars, Matches
  <2>q. QED
    BY <2>1, <2>2
<1>2. /\ pc'[t] \in {"riding", "copying"} /\ queued'[t] = queued[t] \cup {"blobs"}
      /\ made'[t] = v /\ into'[t] = f /\ pc' = [pc EXCEPT ![t] = pc'[t]]
      /\ pc'[t] = "copying" => Fix[r] # r
  BY <1>1 DEF TypeOK
<1>3. exec # t
  BY <1>1 DEF PathInv, RunnerHasLock, Runs
<1>4. Still(t)
  BY <1>1, <1>2, <1>3 DEF Still, TypeOK, Places, RideAt, Runs
<1>5. KeepsToItsPart(t)'
  BY <1>1, <1>2 DEF KeepsToItsPart, Wrote, Unwritten, DeleteAt
<1>6. Agrees(t)'
  BY <1>1, <1>2 DEF Agrees, Named, Knows
<1>7. pc[t] \in RideOnlyAt /\ pc'[t] \in RideOnlyAt
  BY <1>1, <1>2 DEF RideOnlyAt, RideAt, GateAt, ReadAt
<1>q. QED
  BY <1>2, <1>4, <1>5, <1>6, <1>7, StillStep DEF Building

(* Whatever version lands, what a task knows of its revision stays right   *)
(* unless that is torn by it.                                              *)
LEMMA LandedAgrees ==
  ASSUME TypeOK, NEW u \in Tasks, Agrees(u), NEW r \in Revs, Want[u] = r, NEW v \in Nat, v # 0,
         pc'[u] = pc[u], seen'[u] = seen[u], made'[u] = made[u], into'[u] = into[u],
         queued'[u] \subseteq queued[u],
         content'[r] \in {content[r], v}, bytes'[r] \in {bytes[r], v},
         "mirror" \in queued[u] \ queued'[u] => content'[r] = 1,
         "blobs" \in queued[u] \ queued'[u] /\ into[u] = r => bytes'[r] = made[u],
         "manifest" \in queued[u] \ queued'[u] /\ into[u] = r => content'[r] = made[u],
         r \in torn => r \in torn',
         r \notin torn' => /\ content[r] \in {0, v} /\ bytes[r] \in {0, v}
                           /\ "mirror" \in queued[u] => v = 1
  PROVE  Agrees(u)'
<1>1. CASE r \in torn'
  BY <1>1 DEF Agrees
<1>2. CASE r \notin torn'
  <2>1. /\ r \notin torn /\ content[r] \in {0, v} /\ bytes[r] \in {0, v}
        /\ "mirror" \in queued[u] => v = 1
    BY <1>2
  <2>2. ASSUME pc[u] \in {"stored", "landing"}
        PROVE  /\ "blobs" \in queued'[u] \/ bytes'[r] = made[u]
               /\ pc[u] = "stored" \/ "manifest" \in queued'[u] \/ content'[r] = made[u]
    <3>1. /\ made[u] # 0 /\ into[u] = r
          /\ "blobs" \in queued[u] \/ bytes[r] = made[u]
          /\ pc[u] = "stored" \/ "manifest" \in queued[u] \/ content[r] = made[u]
      BY <2>1, <2>2 DEF Agrees
    <3>2. "blobs" \in queued'[u] \/ bytes'[r] = made[u]
      BY <2>1, <3>1
    <3>3. pc[u] = "stored" \/ "manifest" \in queued'[u] \/ content'[r] = made[u]
      BY <2>1, <3>1
    <3>q. QED
      BY <3>2, <3>3
  <2>3. ASSUME pc[u] \in Knows
        PROVE  Named(u)' = seen[u] /\ bytes'[r] \in {0, seen[u]}
    <3>1. seen[u] # 0 /\ Named(u) = seen[u] /\ bytes[r] \in {0, seen[u]}
      BY <2>1, <2>3 DEF Agrees
    <3>2. CASE "mirror" \in queued[u]
      BY <2>1, <3>1, <3>2 DEF Named
    <3>3. CASE "mirror" \notin queued[u]
      BY <2>1, <3>1, <3>3 DEF Named
    <3>q. QED
      BY <3>2, <3>3
  <2>q. QED
    BY <2>2, <2>3 DEF Agrees
<1>q. QED
  BY <1>1, <1>2

(* A part that was queued lands, or is lost, wherever its task is by then. *)
LEMMA LandStep ==
  ASSUME PathInv, NEW t \in Tasks, Land(t)
  PROVE  PathInv'
<1> TypeOK /\ PlaceSays(t) /\ KeepsToItsPart(t) /\ Agrees(t) /\ Want[t] \in Revs
  BY PathAssumption DEF PathInv
<1>1. PICK part \in {"mirror", "blobs", "manifest"} :
        (part = "blobs" /\ LandBlobs(t)) \/ LandManifest(t, part) \/ Lose(t, part)
  BY DEF Land
<1>r. PICK r : r = Goes(t, part)
  OBVIOUS
<1>v. PICK v : v = IF part = "mirror" THEN 1 ELSE made[t]
  OBVIOUS
<1>2. /\ part \in queued[t] /\ queued[t] \cap Before(part) = {}
      /\ queued' = [queued EXCEPT ![t] = @ \ {part}]
      /\ UNCHANGED <<lockVars, exec, pc, seen, todo, runs, made, into, wrote>>
  BY <1>1 DEF LandBlobs, LandManifest, Lose, Write
<1>3. /\ r \in Revs /\ v \in 0 .. MaxRuns /\ v \in Nat /\ v # 0
      /\ r \in Reproducible => v < 2
      /\ part = "mirror" => r = Want[t] /\ v = 1
      /\ part # "mirror" => r = into[t] /\ v = made[t]
  <2>1. 1 \in 0 .. MaxRuns /\ 1 < 2 /\ 1 # 0 /\ \A x \in 0 .. MaxRuns : x \in Nat
    BY PathAssumption, SMT
  <2>q. QED
    BY <1>1, <1>2, <1>r, <1>v, <2>1 DEF Goes, Agrees, TypeOK
<1>4. /\ content' \in [Revs -> 0 .. MaxRuns] /\ bytes' \in [Revs -> 0 .. MaxRuns]
      /\ content'[r] \in {content[r], v} /\ bytes'[r] \in {bytes[r], v}
      /\ \A x \in Revs \ {r} : content'[x] = content[x] /\ bytes'[x] = bytes[x]
      /\ r \in torn' \/ part # "blobs" \/ bytes'[r] = v
      /\ r \in torn' \/ part = "blobs" \/ content'[r] = v
      /\ newer' \in [Revs -> SUBSET Revs]
      /\ \/ content' = content /\ late' = late
         \/ part # "blobs" /\ late' = IF pc[t] \in Locked THEN late ELSE late \cup {r}
      /\ Mix(r, v) \/ (torn' = torn \cup {r} /\ UNCHANGED <<content, bytes>>)
  <2>1. CASE part = "blobs" /\ LandBlobs(t)
    <3>1. bytes' = [bytes EXCEPT ![r] = v] /\ Mix(r, v) /\ UNCHANGED <<content, newer, late>>
      BY <1>3, <2>1 DEF LandBlobs
    <3>q. QED
      BY <1>3, <2>1, <3>1 DEF TypeOK
  <2>2. CASE LandManifest(t, part)
    <3>1. PICK S \in SUBSET (Entries \ {r}) : newer' = Stamped(r, S)
      BY <1>r, <2>2 DEF LandManifest
    <3>2. newer' \in [Revs -> SUBSET Revs]
      BY <1>3, <3>1, SMT DEF Stamped, TypeOK, Entries
    <3>3. /\ content' = [content EXCEPT ![r] = v] /\ Mix(r, v) /\ bytes' = bytes /\ part # "blobs"
          /\ late' = IF pc[t] \in Locked THEN late ELSE late \cup {r}
      BY <1>r, <1>v, <2>2 DEF LandManifest
    <3>q. QED
      BY <1>3, <3>2, <3>3 DEF TypeOK
  <2>3. CASE Lose(t, part)
    BY <1>r, <1>3, <2>3 DEF Lose, TypeOK
  <2>q. QED
    BY <1>1, <2>1, <2>2, <2>3
<1>5. /\ torn' \in SUBSET Revs /\ (\A x \in Revs \ {r} : x \in torn' <=> x \in torn)
      /\ r \in torn => r \in torn'
      /\ r \notin torn' =>
           /\ content[r] \in {0, v} /\ bytes[r] \in {0, v}
           /\ \A u \in Tasks : Want[u] = r /\ "mirror" \in queued[u] => v = 1
  <2>1. CASE Mix(r, v)
    BY <1>3, <2>1, Mixed
  <2>2. CASE torn' = torn \cup {r}
    BY <1>3, <2>2 DEF TypeOK
  <2>q. QED
    BY <1>4, <2>1, <2>2
<1>6. /\ queued'[t] = queued[t] \ {part} /\ queued' \in [Tasks -> SUBSET {"mirror", "blobs", "manifest"}]
      /\ \A u \in Tasks \ {t} : queued'[u] = queued[u]
  BY <1>2, SMT DEF TypeOK
<1>7. PathTypes'
  <2>1. late' \in SUBSET Revs
    <3>1. late' \in {late, late \cup {r}}
      BY <1>4
    <3>q. QED
      BY <1>3, <3>1 DEF TypeOK
  <2>q. QED
    BY <1>2, <1>4, <1>5, <1>6, <2>1 DEF TypeOK, PathTypes, Places, lockVars
<1>8. PlaceSays(t)' /\ KeepsToItsPart(t)'
  BY <1>2, <1>6 DEF PlaceSays, KeepsToItsPart, lockVars, Wrote
<1>9. Touches(t, r) /\ LockMove(t)
  <2>1. pc[t] \in Runs <=> exec = t
    BY DEF PathInv, RunnerHasLock
  <2>q. QED
    BY <1>2, <1>4, <1>5, <1>6, <2>1 DEF Touches, SameEntry, LockMove
<1>10. Matches(r)'
  <2>1. Matches(r)
    BY <1>3 DEF PathInv
  <2>q. QED
    BY <1>4, <1>5, <2>1, <1>3 DEF Matches
<1>11. ASSUME NEW u \in Tasks \ {t}, Want[u] = r PROVE Agrees(u)'
  <2>1. Agrees(u)
    BY DEF PathInv
  <2>q. QED
    BY <1>2, <1>3, <1>4, <1>5, <1>6, <1>11, <2>1, LandedAgrees
<1>12. Agrees(t)'
  <2>1. CASE Want[t] = r
    <3>1. /\ "mirror" \in queued[t] \ queued'[t] => r \in torn' \/ content'[r] = 1
          /\ "blobs" \in queued[t] \ queued'[t] => r \in torn' \/ bytes'[r] = made[t]
          /\ "manifest" \in queued[t] \ queued'[t] => r \in torn' \/ content'[r] = made[t]
      BY <1>1, <1>3, <1>4, <1>6
    <3>2. CASE r \in torn'
      BY <1>2, <1>6, <2>1, <3>2 DEF Agrees
    <3>3. CASE r \notin torn'
      BY <1>2, <1>3, <1>4, <1>5, <1>6, <2>1, <3>1, <3>3, LandedAgrees
    <3>q. QED
      BY <3>2, <3>3
  <2>2. CASE Want[t] # r
    <3>1. /\ part # "mirror" /\ pc[t] \notin {"stored", "landing"}
          /\ content'[Want[t]] = content[Want[t]] /\ bytes'[Want[t]] = bytes[Want[t]]
          /\ Want[t] \in torn' <=> Want[t] \in torn
      BY <1>1, <1>3, <1>4, <1>5, <2>2 DEF Agrees
    <3>q. QED
      BY <1>2, <1>6, <3>1 DEF Agrees, Named
  <2>q. QED
    BY <2>1, <2>2
<1>13. NeverBuiltTwice'
  <2>1. ASSUME NEW u \in Tasks, Kind[u] = "plain", pc[u] \in Building
        PROVE  content'[Want[u]] = 0 \/ Want[u] \in late'
    <3>1. content[Want[u]] = 0 \/ Want[u] \in late
      BY <2>1 DEF PathInv, NeverBuiltTwice, Building
    <3>2. CASE content' = content /\ late' = late
      BY <3>1, <3>2
    <3>3. CASE part # "blobs" /\ late' = IF pc[t] \in Locked THEN late ELSE late \cup {r}
      <4>1. pc[u] # pc[t]
        BY <1>2, <2>1, <3>3 DEF KeepsToItsPart, Building, Unwritten
      <4>2. hold[u] = "write" /\ (pc[t] \in Locked => hold[t] # "none")
        BY <2>1 DEF PathInv, PlaceSays, Locked, Building, GateAt, ReadAt, WriteAt
      <4>3. pc[t] \notin Locked
        BY <4>1, <4>2, SMT DEF PathInv, OneGateway
      <4>4. Want[u] \in Revs
        BY PathAssumption
      <4>q. QED
        BY <1>4, <3>1, <3>3, <4>3, <4>4
    <3>q. QED
      BY <1>4, <3>2, <3>3
  <2>q. QED
    BY <1>2, <2>1 DEF NeverBuiltTwice, Building
<1>q. QED
  BY <1>3, <1>7, <1>8, <1>9, <1>10, <1>11, <1>12, <1>13, TouchStep

(* The wait for them is over, and a rebuild is reconciled.                 *)
LEMMA StoredStep ==
  ASSUME PathInv, NEW t \in Tasks, Stored(t)
  PROVE  PathInv'
<1> DEFINE r == Want[t]
<1> TypeOK /\ PlaceSays(t) /\ KeepsToItsPart(t) /\ Agrees(t) /\ Matches(r) /\ r \in Revs
  BY PathAssumption DEF PathInv
<1>1. /\ queued[t] = {} /\ wrote' = wrote \cup {t} /\ exec' = None
      /\ \/ /\ pc[t] = "landing" /\ pc' = [pc EXCEPT ![t] = "written"] /\ UNCHANGED lockVars
            /\ torn' = IF {content[r], bytes[r]} = {made[t]} THEN torn \ {r} ELSE torn
         \/ pc[t] = "relanding" /\ pc' = [pc EXCEPT ![t] = "riding"] /\ UNCHANGED <<lockVars, torn>>
         \/ pc[t] = "relanding" /\ pc' = [pc EXCEPT ![t] = "trim"] /\ Alight(t, r) /\ UNCHANGED torn
      /\ UNCHANGED <<content, bytes, seen, todo, runs, queued, made, into, newer, late>>
  BY DEF Stored, At, queueVars
<1>2. exec = t
  BY <1>1 DEF PathInv, RunnerHasLock, Runs
<1>3. /\ PathTypes' /\ t \in wrote'
      /\ pc[t] = "landing" => pc'[t] = "written"
      /\ pc[t] = "relanding" => pc'[t] \in {"riding", "trim"} /\ torn' = torn
      /\ \A x \in Revs \ {r} : x \in torn' <=> x \in torn
  <2>1. /\ pc' \in [Tasks -> Places]
        /\ pc[t] = "landing" => pc'[t] = "written"
        /\ pc[t] = "relanding" => pc'[t] \in {"riding", "trim"} /\ torn' = torn
    BY <1>1 DEF TypeOK, Places, WriteAt, RideAt, BareAt
  <2>2. /\ wrote' \in SUBSET Tasks /\ t \in wrote' /\ torn' \in SUBSET Revs
        /\ \A x \in Revs \ {r} : x \in torn' <=> x \in torn
    BY <1>1 DEF TypeOK
  <2>q. QED
    BY <1>1, <2>1, <2>2 DEF TypeOK, PathTypes
<1>4. PlaceSays(t)'
  <2>1. CASE pc[t] = "relanding" /\ pc'[t] = "trim" /\ Alight(t, r)
    BY <2>1 DEF PlaceSays, TypeOK, Alight, GateAt, ReadAt, WriteAt, DeleteAt, RideAt, BareAt
  <2>2. CASE UNCHANGED lockVars /\ pc'[t] # "trim"
    BY <1>1, <1>3, <2>2 DEF PlaceSays, lockVars, GateAt, ReadAt, WriteAt, DeleteAt, RideAt
  <2>q. QED
    BY <1>1, <2>1, <2>2 DEF TypeOK
<1>5. KeepsToItsPart(t)'
  BY <1>1, <1>3 DEF KeepsToItsPart, Unwritten, DeleteAt
<1>6. Touches(t, r) /\ LockMove(t)
  BY <1>1, <1>2, <1>3 DEF Touches, SameEntry, TypeOK, Runs, LockMove
<1>7. NeverBuiltTwice'
  BY <1>1, <1>3, <1>6, StillUnbuilt DEF LateKept, Building
<1>8. CASE pc[t] = "landing"
  <2>1. /\ seen[t] # 0 /\ seen[t] = made[t] /\ pc'[t] = "written"
        /\ r \in torn \/ (content[r] = made[t] /\ bytes[r] = made[t])
    BY <1>1, <1>3, <1>8 DEF Agrees
  <2>2. r \in torn' \/ (content[r] = made[t] /\ bytes[r] = made[t])
    BY <1>1, <1>8, <2>1
  <2>3. Agrees(t)' /\ Matches(r)'
    BY <1>1, <2>1, <2>2 DEF Agrees, Matches, Named
  <2>4. ASSUME NEW u \in Tasks \ {t}, Want[u] = r PROVE Agrees(u)'
    <3>1. /\ Agrees(u) /\ pc'[u] = pc[u] /\ seen'[u] = seen[u]
          /\ queued'[u] = queued[u] /\ made'[u] = made[u] /\ into'[u] = into[u]
      BY <1>6 DEF PathInv, Touches
    <3>2. pc[u] \notin Knows \cup {"stored", "landing"}
      BY <1>8, <2>4, WriterIsAlone DEF PlaceSays, GateAt, ReadAt, WriteAt
    <3>q. QED
      BY <3>1, <3>2 DEF Agrees
  <2>q. QED
    BY <1>3, <1>4, <1>5, <1>6, <1>7, <2>3, <2>4, TouchStep
<1>9. CASE pc[t] = "relanding"
  <2>1. SameEntry(r)
    BY <1>1, <1>3, <1>9 DEF SameEntry
  <2>2. Agrees(t)'
    BY <1>1, <1>3, <1>9 DEF Agrees, Knows, Named
  <2>q. QED
    BY <1>3, <1>4, <1>5, <1>6, <1>7, <2>1, <2>2, TouchStep
<1>q. QED
  BY <1>1, <1>8, <1>9

(* The blobs and then the manifest are deleted, under the write lock.      *)
LEMMA DeleteSteps ==
  ASSUME PathInv, NEW t \in Tasks, DeleteBlobs(t) \/ DeleteManifest(t)
  PROVE  PathInv'
<1> TypeOK /\ PlaceSays(t) /\ KeepsToItsPart(t) /\ Agrees(t) /\ pc[t] \in DeleteAt
  BY DEF PathInv, DeleteBlobs, DeleteManifest, At, DeleteAt
<1> PICK r \in Revs : r = on[t]
  BY DEF PlaceSays, TypeOK
<1>1. /\ \/ /\ pc[t] = "blobs" /\ pc' = [pc EXCEPT ![t] = "manifest"] /\ UNCHANGED lockVars
            /\ bytes' = [bytes EXCEPT ![r] = 0] /\ UNCHANGED <<content, newer, torn>>
         \/ /\ pc[t] = "manifest" /\ pc' = [pc EXCEPT ![t] = "deleting"] /\ LetGo(t)
            /\ content' = [content EXCEPT ![r] = 0] /\ newer' = Unstamped(r)
            /\ torn' = torn \ {r} /\ UNCHANGED bytes
      /\ late' \in {late, late \ {r}}
      /\ UNCHANGED <<exec, seen, todo, runs, queued, made, into, wrote>>
  BY DEF DeleteBlobs, DeleteManifest, At, absVars, histVars, pathVars, queueVars
<1>2. hold[t] = "write" /\ exec # t
  BY DEF PathInv, PlaceSays, RunnerHasLock, Runs, GateAt, ReadAt, DeleteAt
<1>3. \A u \in Tasks \ {t} : pc[u] \notin WriteAt \cup ReadAt /\ (pc[u] \in Knows \cup RideAt => Want[u] # r)
  BY <1>2, WriterIsAlone
<1>4. /\ PathTypes' /\ pc'[t] \in {"manifest", "deleting"}
      /\ pc[t] = "blobs" => pc'[t] = "manifest"
      /\ pc[t] = "manifest" => pc'[t] = "deleting"
      /\ content'[r] \in {0, content[r]} /\ bytes'[r] \in {0, bytes[r]}
      /\ r \in torn' => r \in torn
      /\ content'[r] = 0 \/ bytes'[r] = 0
  <2>1. newer' \in [Revs -> SUBSET Revs] /\ torn' \in SUBSET Revs /\ late' \in SUBSET Revs
    BY <1>1, SMT DEF Unstamped, TypeOK
  <2>2. content' \in [Revs -> 0 .. MaxRuns] /\ bytes' \in [Revs -> 0 .. MaxRuns]
    <3>1. 0 \in 0 .. MaxRuns
      BY PathAssumption, SMT
    <3>q. QED
      BY <1>1, <3>1, SMT DEF TypeOK
  <2>3. /\ pc' \in [Tasks -> Places] /\ pc'[t] \in {"manifest", "deleting"}
        /\ pc[t] = "blobs" => pc'[t] = "manifest"
        /\ pc[t] = "manifest" => pc'[t] = "deleting"
    BY <1>1 DEF TypeOK, Places, GateAt, DeleteAt
  <2>4. /\ content'[r] \in {0, content[r]} /\ bytes'[r] \in {0, bytes[r]}
        /\ r \in torn' => r \in torn
        /\ content'[r] = 0 \/ bytes'[r] = 0
    BY <1>1, <1>2 DEF TypeOK
  <2>5. UNCHANGED <<exec, seen, todo, runs, queued, made, into, wrote>>
    BY <1>1
  <2>6. PathTypes'
    BY <2>1, <2>2, <2>3, <2>5 DEF TypeOK, PathTypes
  <2>q. QED
    BY <2>3, <2>4, <2>6
<1>5. PlaceSays(t)'
  <2>1. CASE pc[t] = "blobs"
    BY <1>1, <1>4, <2>1 DEF PlaceSays, lockVars, GateAt, ReadAt, WriteAt, DeleteAt, RideAt
  <2>2. CASE pc[t] = "manifest"
    BY <1>1, <2>2, SMT DEF PlaceSays, TypeOK, LetGo, GateAt, ReadAt, WriteAt, DeleteAt, RideAt
  <2>q. QED
    BY <1>1, <2>1, <2>2
<1>6. KeepsToItsPart(t)' /\ Agrees(t)'
  BY <1>1, <1>4 DEF KeepsToItsPart, Wrote, Unwritten, DeleteAt, Agrees, Knows
<1>7. Touches(t, r) /\ LockMove(t)
  BY <1>1, <1>2, <1>4 DEF Touches, SameEntry, TypeOK, Runs, LockMove
<1>8. Matches(r)' /\ pc'[t] \notin Building
  <2>1. Matches(r)
    BY <1>2 DEF PathInv
  <2>q. QED
    BY <1>4, <2>1, SMT DEF Matches, Building
<1>9. ASSUME NEW u \in Tasks \ {t}, Want[u] = r PROVE Agrees(u)'
  <2>1. /\ Agrees(u) /\ pc'[u] = pc[u] /\ seen'[u] = seen[u]
        /\ queued'[u] = queued[u] /\ made'[u] = made[u] /\ into'[u] = into[u]
        /\ pc[u] \notin Knows \cup {"stored", "landing"}
    BY <1>3, <1>7, <1>9 DEF PathInv, Touches, WriteAt
  <2>q. QED
    BY <2>1 DEF Agrees
<1>10. NeverBuiltTwice'
  <2>1. ASSUME NEW u \in Tasks, Kind[u] = "plain", pc'[u] \in Building
        PROVE  content'[Want[u]] = 0 \/ Want[u] \in late'
    <3>1. u # t /\ pc[u] \in Building
      BY <1>7, <1>8, <2>1 DEF Touches
    <3>q. QED
      BY <1>3, <3>1 DEF Building, WriteAt
  <2>q. QED
    BY <2>1 DEF NeverBuiltTwice, Building
<1>q. QED
  BY <1>2, <1>4, <1>5, <1>6, <1>7, <1>8, <1>9, <1>10, TouchStep

(* A task fails, is cancelled or is killed.                                *)
LEMMA StopStep ==
  ASSUME PathInv, NEW t \in Tasks, Stop(t)
  PROVE  PathInv'
<1> DEFINE r == Want[t]
<1> TypeOK /\ PlaceSays(t) /\ KeepsToItsPart(t) /\ Agrees(t) /\ r \in Revs
  BY PathAssumption DEF PathInv
<1>1. /\ pc' = [pc EXCEPT ![t] = pc'[t]] /\ pc'[t] \in {"failed", "trim"}
      /\ pc'[t] = "trim" => Kind[t] \notin {"gc", "clean"}
  BY DEF Stop, TypeOK, KeepsToItsPart
<1>2. /\ hold' = [hold EXCEPT ![t] = "none"] /\ on' = [on EXCEPT ![t] = None]
      /\ riding' = [riding EXCEPT ![t] = {}]
      /\ exec' = IF exec = t THEN None ELSE exec
      /\ queued' = [queued EXCEPT ![t] = queued'[t]] /\ queued'[t] \subseteq queued[t]
      /\ "mirror" \in queued'[t] => "mirror" \in queued[t]
      /\ UNCHANGED <<content, bytes, seen, todo, runs, made, into, newer, wrote, torn, late>>
  <2>1. queued' = [queued EXCEPT ![t] = queued'[t]] /\ queued'[t] \subseteq queued[t]
    <3>1. PICK q \in {{}, queued[t]} : queued' = [queued EXCEPT ![t] = q]
      BY DEF Stop, TypeOK
    <3>q. QED
      BY <3>1 DEF TypeOK
  <2>q. QED
    BY <2>1 DEF Stop, histVars
<1>3. PathTypes'
  <2>1. queued' \in [Tasks -> SUBSET {"mirror", "blobs", "manifest"}]
    BY <1>2, SMT DEF TypeOK
  <2>2. pc' \in [Tasks -> Places]
    BY <1>1 DEF TypeOK, Places, BareAt, Ended
  <2>3. exec' \in Tasks \cup {None}
    BY <1>2 DEF TypeOK
  <2>q. QED
    BY <1>2, <2>1, <2>2, <2>3 DEF TypeOK, PathTypes
<1>4. PlaceSays(t)'
  BY <1>1, <1>2 DEF PlaceSays, TypeOK, GateAt, ReadAt, WriteAt, DeleteAt, RideAt
<1>5. KeepsToItsPart(t)' /\ Agrees(t)'
  BY <1>1, <1>2 DEF KeepsToItsPart, Wrote, Unwritten, DeleteAt, Agrees, Knows
<1>6. Touches(t, r) /\ SameEntry(r) /\ LockMove(t)
  BY <1>1, <1>2 DEF Touches, SameEntry, TypeOK, Runs, LockMove
<1>7. NeverBuiltTwice'
  BY <1>1, <1>2, <1>6, StillUnbuilt DEF LateKept, Building
<1>q. QED
  BY <1>3, <1>4, <1>5, <1>6, <1>7, TouchStep

(* The initial states satisfy the inductive invariant.                     *)
LEMMA InitPath == Init => PathInv
<1> SUFFICES ASSUME Init PROVE PathInv
  OBVIOUS
<1> USE PathAssumption, NoneIsNoRev DEF Init, InitLock
<1>1. \A t \in Tasks : /\ pc[t] \in {"start", "fgate", "listing"}
                       /\ pc[t] = "fgate" => Kind[t] = "force"
                       /\ pc[t] = "listing" <=> Kind[t] \in {"gc", "clean"}
  BY DEF Start
<1>2. pc \in [Tasks -> Places]
  BY <1>1 DEF Places, BareAt
<1>3. TypeOK
  BY <1>2, SMT DEF TypeOK, Places
<1>4. OneGateway /\ WriteExcludesRides
  BY DEF OneGateway, WriteExcludesRides
<1>5. RunnerHasLock /\ NeverBuiltTwice
  BY <1>1 DEF RunnerHasLock, NeverBuiltTwice, Runs
<1>6. \A t \in Tasks : PlaceSays(t)
  BY <1>1 DEF PlaceSays, GateAt, ReadAt, WriteAt, DeleteAt, RideAt, BareAt, Ended
<1>7. \A t \in Tasks : KeepsToItsPart(t) /\ Agrees(t)
  BY <1>1, SMT DEF KeepsToItsPart, Agrees, Knows, Wrote, Unwritten, DeleteAt
<1>8. \A r \in Revs : Matches(r)
  BY SMT DEF Matches
<1>q. QED
  BY <1>3, <1>4, <1>5, <1>6, <1>7, <1>8 DEF PathInv

(* Every step preserves it.                                                *)
LEMMA NextPath == PathInv /\ [Next]_vars => PathInv'
<1> SUFFICES ASSUME PathInv, [Next]_vars PROVE PathInv'
  OBVIOUS
<1>1. ASSUME NEW t \in Tasks, Work(t) PROVE PathInv'
  BY <1>1, LockingSteps, ChoosingSteps, ProbeHitStep, RecheckStep, ExecuteStep, StoreBlobsStep,
     StoreManifestStep, StoredStep, PullSteps, DeleteSteps DEF Work
<1>2. ASSUME NEW t \in Tasks, Land(t) \/ Contend(t) \/ CopyBlobs(t) \/ Finish(t) \/ Stop(t) PROVE PathInv'
  BY <1>2, LandStep, LockingSteps, PullSteps, StopStep
<1>3. CASE UNCHANGED vars
  <2>1. UNCHANGED <<hold, on, riding, content, bytes, exec, seen, todo, runs, queued, made, into,
                    newer, wrote, torn, late, pc>>
    BY <1>3 DEF vars, absVars, lockVars, pathVars, queueVars, histVars
  <2>2. TypeOK' /\ OneGateway' /\ WriteExcludesRides' /\ RunnerHasLock' /\ NeverBuiltTwice'
    BY <2>1 DEF PathInv, TypeOK, OneGateway, WriteExcludesRides, RunnerHasLock, NeverBuiltTwice
  <2>3. ASSUME NEW t \in Tasks PROVE (PlaceSays(t) /\ KeepsToItsPart(t) /\ Agrees(t))'
    BY <2>1 DEF PathInv, PlaceSays, KeepsToItsPart, Agrees, Named, Wrote
  <2>4. \A r \in Revs : Matches(r)'
    BY <2>1 DEF PathInv, Matches
  <2>q. QED
    BY <2>2, <2>3, <2>4 DEF PathInv
<1>q. QED
  BY <1>1, <1>2, <1>3 DEF Next, Idle

(* The locks a place implies, and versions that agree, in every state.     *)
THEOREM PathSafe == Spec => []PathInv
BY InitPath, NextPath, PTL DEF Spec

(* The sandbox, which is per target, is never shared by two runs: not by   *)
(* runs of different revisions, nor by a rebuild under a riding read.      *)
THEOREM RunsExclude == Spec => []OneRunAtATime
<1>1. PathInv => OneRunAtATime
  BY PathAssumption DEF PathInv, RunnerHasLock, OneRunAtATime
<1>q. QED
  BY <1>1, PathSafe, PTL

(* A miss never replaces an entry, but for one that a task without the     *)
(* lock landed under its run, however requests, forced runs, trims, gc and *)
(* clean interleave, wherever they stop, and whatever they queued lands.   *)
THEOREM MissesShare == Spec => []NeverBuiltTwice
<1>1. PathInv => NeverBuiltTwice
  BY DEF PathInv
<1>q. QED
  BY <1>1, PathSafe, PTL

(* A request stages the bytes it resolved to, unless the revision is torn, *)
(* and of a reproducible target none but those without exception.          *)
THEOREM StagesWhatItNamed == Spec => []StagedIsNamed
<1>1. PathInv => StagedIsNamed
  <2> SUFFICES ASSUME PathInv, NEW t \in Tasks, pc[t] \in {"riding", "copying", "copied"}
               PROVE  /\ Want[t] \in torn \/ (Named(t) = seen[t] /\ bytes[Want[t]] \in {0, seen[t]})
                      /\ Want[t] \in Reproducible => {Named(t), bytes[Want[t]]} \subseteq {0, seen[t]}
    BY DEF StagedIsNamed
  <2>1. Agrees(t) /\ Matches(Want[t]) /\ pc[t] \in Knows /\ TypeOK /\ Want[t] \in Revs
    BY PathAssumption DEF PathInv, Knows
  <2>2. Want[t] \in torn \/ (Named(t) = seen[t] /\ bytes[Want[t]] \in {0, seen[t]})
    BY <2>1 DEF Agrees
  <2>3. ASSUME Want[t] \in Reproducible PROVE {Named(t), bytes[Want[t]]} \subseteq {0, seen[t]}
    <3>1. /\ seen[t] \in 0 .. MaxRuns /\ seen[t] # 0 /\ seen[t] < 2
          /\ content[Want[t]] \in 0 .. MaxRuns /\ content[Want[t]] < 2
          /\ bytes[Want[t]] \in 0 .. MaxRuns /\ bytes[Want[t]] < 2
      BY <2>1, <2>3 DEF Agrees, Matches, TypeOK
    <3>2. seen[t] = 1 /\ content[Want[t]] \in {0, 1} /\ bytes[Want[t]] \in {0, 1}
      BY <3>1, PathAssumption, SMT
    <3>q. QED
      BY <3>2 DEF Named
  <2>q. QED
    BY <2>2, <2>3
<1>q. QED
  BY <1>1, PathSafe, PTL
=============================================================================
