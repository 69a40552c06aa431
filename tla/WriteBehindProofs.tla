-------------------------- MODULE WriteBehindProofs -------------------------
(***************************************************************************)
(* Proofs about the write-behind queue, for any clients, keys and bounds.  *)
(***************************************************************************)
EXTENDS WriteBehind, TLAPS

(* The invariant holds at the start.                                       *)
LEMMA InitInv == Init => QueueInv
  BY DEF Init, QueueInv, TypeOK, Cursors, ReleasedIsOver, MapIsLast,
     WaitsForTheLast, SeesWhatWasQueued, Sent, Slots, Working

(* The two halves of the types: the queue's, and the clients'.             *)
QueueTypes ==
  /\ cmds \in Seq(Keys) /\ map \in [Keys -> Nat]
  /\ applied \subseteq Slots /\ failed \subseteq Slots
  /\ done \subseteq Slots /\ orphans \subseteq Slots
  /\ writer \in {"recv", "batch", "release", "unwinding", "drained", "gone"}
  /\ taken \in Nat /\ released \in Nat
ClientTypes ==
  /\ pc \in [Clients -> {"idle", "waiting", "probe", "answer"}]
  /\ about \in [Clients -> SUBSET Keys] /\ waits \in [Clients -> SUBSET Slots]
  /\ mark \in [Clients -> Nat] /\ tries \in [Clients -> Nat]
  /\ calls \in [Clients -> Nat]

LEMMA Halves == TypeOK <=> QueueTypes /\ ClientTypes
  BY DEF TypeOK, QueueTypes, ClientTypes

LEMMA RegisterTypes ==
  ASSUME QueueTypes, NEW k \in Keys, Register(k) \/ RollBack(k)
  PROVE  QueueTypes'
<1>1. CASE Register(k)
  <2>1. cmds' \in Seq(Keys) /\ Len(cmds) + 1 \in Slots /\ Len(cmds) + 1 \in Nat
    BY <1>1 DEF Register, QueueTypes, Slots
  <2>2. map' \in [Keys -> Nat] /\ orphans' \subseteq Slots
    BY <1>1, <2>1 DEF Register, QueueTypes
  <2> QED BY <1>1, <2>1, <2>2 DEF Register, QueueTypes, writerVars
<1>2. CASE RollBack(k)
  BY <1>2, ZenonT(60) DEF RollBack, QueueTypes, Slots, writerVars
<1> QED BY <1>1, <1>2

LEMMA BeginTypes ==
  ASSUME ClientTypes, NEW c \in Clients, Begin(c)
  PROVE  calls' \in [Clients -> Nat]
  BY DEF Begin, ClientTypes

LEMMA LookTypes ==
  ASSUME TypeOK, NEW c \in Clients, NEW ks \in SUBSET Keys, Look(c, ks),
         tries' \in [Clients -> Nat], calls' \in [Clients -> Nat]
  PROVE  TypeOK'
<1>1. QueueTypes'
  BY Halves DEF Look, QueueTypes, writerVars
<1>2. ClientTypes'
  <2>1. {map[k] : k \in ks} \ {0} \in SUBSET Slots
    BY DEF TypeOK, Slots
  <2>2. Len(cmds) \in Nat
    BY DEF TypeOK
  <2> QED BY Halves, <2>1, <2>2 DEF Look, ClientTypes, Goto
<1> QED BY <1>1, <1>2, Halves DEF TypeOK, QueueTypes, ClientTypes

(* Every step keeps the types.                                             *)
LEMMA TypeStep == TypeOK /\ [Next]_vars => TypeOK'
<1> SUFFICES ASSUME TypeOK, [Next]_vars PROVE TypeOK'
  OBVIOUS
<1> SUFFICES QueueTypes' /\ ClientTypes'
  BY DEF TypeOK, QueueTypes, ClientTypes
<1>0. QueueTypes /\ ClientTypes
  BY Halves
<1>1. ASSUME NEW c \in Clients, NEW k \in Keys, Write(c, k)
      PROVE  QueueTypes' /\ ClientTypes'
  <2>1. QueueTypes'
    BY <1>0, <1>1, RegisterTypes DEF Write
  <2>2. ClientTypes'
    BY <1>0, <1>1, BeginTypes DEF Write, ClientTypes
  <2> QED BY <2>1, <2>2
<1>2. ASSUME NEW c \in Clients, NEW k \in Keys, Delete(c, k)
      PROVE  QueueTypes' /\ ClientTypes'
  <2>1. QueueTypes'
    BY <1>0, <1>2, RegisterTypes DEF Delete
  <2>2. Len(cmds) + 1 \in Slots /\ Len(cmds) + 1 \in Nat
    BY <1>0 DEF QueueTypes, Slots
  <2>3. calls' \in [Clients -> Nat] /\ tries' = tries
    BY <1>0, <1>2, BeginTypes DEF Delete
  <2>4. waits' \in [Clients -> SUBSET Slots] /\ about' \in [Clients -> SUBSET Keys]
    <3>1. {Len(cmds) + 1} \in SUBSET Slots /\ {k} \in SUBSET Keys
      BY <2>2
    <3>2. /\ waits' = waits \/ waits' = [waits EXCEPT ![c] = {Len(cmds) + 1}]
          /\ about' = about \/ about' = [about EXCEPT ![c] = {k}]
      BY <1>2 DEF Delete
    <3> QED BY <1>0, <3>1, <3>2 DEF ClientTypes
  <2>5. /\ mark' \in [Clients -> Nat]
        /\ pc' \in [Clients -> {"idle", "waiting", "probe", "answer"}]
    BY <1>0, <1>2, <2>2, ZenonT(60) DEF Delete, ClientTypes, Goto
  <2>6. ClientTypes'
    BY <1>0, <2>3, <2>4, <2>5 DEF ClientTypes
  <2> QED BY <2>1, <2>6
<1>4. ASSUME NEW c \in Clients, NEW k \in Keys, Park(c, k) \/ Probe(c, k)
      PROVE  QueueTypes' /\ ClientTypes'
  <2>1. tries' \in [Clients -> Nat]
    BY <1>0, <1>4, WriteBehindAssumption DEF Park, Probe, ClientTypes
  <2>2. calls' \in [Clients -> Nat]
    BY <1>0, <1>4, BeginTypes DEF Park, Probe
  <2> QED BY <1>4, <2>1, <2>2, LookTypes, {k} \in SUBSET Keys
          DEF Park, Probe, TypeOK, QueueTypes, ClientTypes
<1>5. ASSUME NEW c \in Clients, DrainQueued(c) \/ ProbeAgain(c)
      PROVE  QueueTypes' /\ ClientTypes'
  <2>1. tries' \in [Clients -> Nat]
    BY <1>0, <1>5 DEF DrainQueued, ProbeAgain, ClientTypes
  <2>2. calls' \in [Clients -> Nat]
    BY <1>0, <1>5, BeginTypes DEF DrainQueued, ProbeAgain, ClientTypes
  <2>3. about[c] \in SUBSET Keys
    BY <1>0 DEF ClientTypes
  <2> QED BY <1>5, <2>1, <2>2, <2>3, LookTypes
          DEF DrainQueued, ProbeAgain, TypeOK, QueueTypes, ClientTypes
<1>6. ASSUME NEW c \in Clients, Resume(c) \/ Answer(c)
      PROVE  QueueTypes' /\ ClientTypes'
  <2>1. QueueTypes'
    BY <1>0, <1>6 DEF Resume, Answer, writerVars, QueueTypes
  <2>2. CASE Resume(c)
    BY <1>0, <2>1, <2>2 DEF Resume, Goto, ClientTypes
  <2>3. CASE Answer(c)
    BY <1>0, <2>1, <2>3 DEF Answer, Goto, ClientTypes
  <2> QED BY <1>6, <2>2, <2>3
<1>7. ASSUME WriterStep PROVE QueueTypes' /\ ClientTypes'
  <2>0. ClientTypes'
    BY <1>0, <1>7 DEF WriterStep, Collect, Commit, FailBatch, Release, Unwind,
       DrainOnExit, DropReceiver, clientVars, ClientTypes
  <2> Batch \subseteq Slots
    BY <1>0 DEF Batch, QueueTypes, Slots
  <2>1. CASE Collect
    BY <1>0, <2>0, <2>1, WriteBehindAssumption DEF Collect, QueueTypes
  <2>2. CASE Commit \/ FailBatch
    BY <1>0, <2>0, <2>2 DEF Commit, FailBatch, QueueTypes
  <2>3. CASE Release
    BY <1>0, <2>0, <2>3 DEF Release, QueueTypes, Slots
  <2>4. CASE Unwind \/ DropReceiver
    BY <1>0, <2>0, <2>4 DEF Unwind, DropReceiver, QueueTypes
  <2>5. CASE DrainOnExit
    <3>1. done' \subseteq Slots
      BY <1>0, <2>5 DEF DrainOnExit, QueueTypes, Slots
    <3>2. orphans' \subseteq Slots
      BY <1>0, <2>5 DEF DrainOnExit, QueueTypes, Slots, Sent
    <3> QED BY <1>0, <2>0, <2>5, <3>1, <3>2 DEF DrainOnExit, QueueTypes
  <2> QED BY <1>7, <2>1, <2>2, <2>3, <2>4, <2>5 DEF WriterStep
<1>8. CASE Rest \/ UNCHANGED vars
  BY <1>0, <1>8 DEF Rest, vars, writerVars, clientVars, QueueTypes, ClientTypes
<1> QED BY <1>1, <1>2, <1>4, <1>5, <1>6, <1>7, <1>8 DEF Next, Call, GoOn

-----------------------------------------------------------------------------
(* The second half of the invariant, while the writer works.               *)
Order == Cursors /\ ReleasedIsOver /\ MapIsLast /\ WaitsForTheLast /\ SeesWhatWasQueued

(* A command is queued.                                                    *)
LEMMA RegisterOrder ==
  ASSUME TypeOK, Working, Order, NEW k \in Keys, Register(k),
         mark' \in [Clients -> Nat]
  PROVE  /\ Len(cmds') = Len(cmds) + 1 /\ cmds'[Len(cmds) + 1] = k
         /\ \A i \in 1..Len(cmds) : cmds'[i] = cmds[i]
         /\ ReleasedIsOver' /\ MapIsLast'
         /\ released' = released /\ taken' = taken /\ writer' = writer
         /\ applied' = applied /\ failed' = failed /\ done' = done
<1>1. /\ Len(cmds') = Len(cmds) + 1 /\ cmds'[Len(cmds) + 1] = k
      /\ \A i \in 1..Len(cmds) : cmds'[i] = cmds[i]
  BY DEF Register, TypeOK
<1>2. /\ released' = released /\ taken' = taken /\ writer' = writer
      /\ applied' = applied /\ failed' = failed /\ done' = done
  BY DEF Register, writerVars
<1>3. ReleasedIsOver'
  BY <1>2 DEF Order, ReleasedIsOver
<1>4. MapIsLast'
  <2> SUFFICES ASSUME NEW i \in 1..Len(cmds'), i > released
               PROVE  map'[cmds'[i]] >= i
    BY <1>2 DEF MapIsLast, Sent
  <2>1. CASE i = Len(cmds) + 1
    BY <1>1, <2>1 DEF Register, TypeOK
  <2>2. CASE i \in 1..Len(cmds)
    <3>1. cmds'[i] = cmds[i] /\ cmds[i] \in Keys /\ map[cmds[i]] >= i
      BY <1>1, <2>2 DEF Order, MapIsLast, Sent, TypeOK
    <3>2. map'[cmds[i]] = IF cmds[i] = k THEN Len(cmds) + 1 ELSE map[cmds[i]]
      BY <3>1 DEF Register, TypeOK
    <3> QED BY <2>2, <3>1, <3>2 DEF TypeOK
  <2> QED BY <1>1, <2>1, <2>2 DEF TypeOK
<1> QED BY <1>1, <1>2, <1>3, <1>4

LEMMA WriteOrder ==
  ASSUME TypeOK, Working, Order, NEW c \in Clients, NEW k \in Keys, Write(c, k)
  PROVE  Order'
<1>0. Register(k) /\ UNCHANGED <<pc, about, waits, mark>>
  BY DEF Write, RollBack, Working
<1>1. /\ Len(cmds') = Len(cmds) + 1
      /\ \A i \in 1..Len(cmds) : cmds'[i] = cmds[i]
      /\ ReleasedIsOver' /\ MapIsLast'
      /\ released' = released /\ taken' = taken /\ writer' = writer
      /\ applied' = applied /\ failed' = failed
  BY <1>0, RegisterOrder DEF TypeOK
<1>2. Cursors'
  BY <1>0, <1>1 DEF Order, Cursors, TypeOK
<1>3. \A d \in Clients : \A i \in 1..mark[d] : cmds'[i] = cmds[i]
  BY <1>1 DEF Order, Cursors, TypeOK
<1>4. WaitsForTheLast'
  BY <1>0, <1>1, <1>3 DEF Order, WaitsForTheLast
<1>5. SeesWhatWasQueued'
  BY <1>0, <1>1, <1>3 DEF Order, SeesWhatWasQueued, Settled, Working
<1> QED BY <1>1, <1>2, <1>4, <1>5 DEF Order

(* A delete waits for its own slot, the last one of its key by then.       *)
LEMMA DeleteOrder ==
  ASSUME TypeOK, Working, Order, NEW c \in Clients, NEW k \in Keys, Delete(c, k)
  PROVE  Order'
<1>0. /\ Register(k) /\ Len(cmds) + 1 \in Nat
      /\ about' = [about EXCEPT ![c] = {k}]
      /\ waits' = [waits EXCEPT ![c] = {Len(cmds) + 1}]
      /\ mark' = [mark EXCEPT ![c] = Len(cmds) + 1]
      /\ pc' = [pc EXCEPT ![c] = "waiting"]
  BY DEF Delete, RollBack, Working, Goto, TypeOK
<1>00. mark' \in [Clients -> Nat]
  BY <1>0 DEF TypeOK
<1>1. /\ Len(cmds') = Len(cmds) + 1
      /\ \A i \in 1..Len(cmds) : cmds'[i] = cmds[i]
      /\ ReleasedIsOver' /\ MapIsLast'
      /\ released' = released /\ taken' = taken /\ writer' = writer
      /\ applied' = applied /\ failed' = failed
  BY <1>0, <1>00, RegisterOrder
<1>2. Cursors'
  BY <1>0, <1>1 DEF Order, Cursors, TypeOK
<1>3. \A d \in Clients : \A i \in 1..mark[d] : cmds'[i] = cmds[i]
  BY <1>1 DEF Order, Cursors, TypeOK
<1>4. ASSUME NEW d \in Clients, d # c
      PROVE  /\ pc'[d] = pc[d] /\ about'[d] = about[d]
             /\ waits'[d] = waits[d] /\ mark'[d] = mark[d]
  BY <1>0, <1>4 DEF TypeOK
<1>5. /\ pc'[c] = "waiting" /\ waits'[c] = {Len(cmds) + 1}
      /\ mark'[c] = Len(cmds) + 1
  BY <1>0 DEF TypeOK
<1>6. WaitsForTheLast'
  <2> SUFFICES ASSUME NEW d \in Clients, pc'[d] = "waiting", NEW i \in 1..mark'[d],
                      cmds'[i] \in about'[d], i > released
               PROVE  \E s \in waits'[d] : s >= i
    BY <1>1 DEF WaitsForTheLast
  <2>1. CASE d = c
    BY <1>0, <1>5, <2>1
  <2>2. CASE d # c
    BY <1>3, <1>4, <2>2 DEF Order, WaitsForTheLast
  <2> QED BY <2>1, <2>2
<1>7. SeesWhatWasQueued'
  <2> SUFFICES ASSUME NEW d \in Clients, pc'[d] = "answer", NEW i \in 1..mark'[d],
                      cmds'[i] \in about'[d]
               PROVE  i \in applied \cup failed
    BY <1>1 DEF SeesWhatWasQueued, Settled
  <2>1. d # c
    BY <1>5
  <2> QED BY <1>3, <1>4, <2>1 DEF Order, SeesWhatWasQueued, Settled
<1> QED BY <1>1, <1>2, <1>6, <1>7 DEF Order

(* Whoever looks finds, for every command outstanding, a slot no earlier.  *)
LEMMA LookOrder ==
  ASSUME TypeOK, Working, Order, NEW c \in Clients, NEW ks \in SUBSET Keys, Look(c, ks)
  PROVE  Order'
<1>1. /\ cmds' = cmds /\ map' = map /\ released' = released /\ taken' = taken
      /\ writer' = writer /\ applied' = applied /\ failed' = failed /\ done' = done
  BY DEF Look, writerVars
<1>2. /\ pc' = [pc EXCEPT ![c] = "waiting"] /\ about' = [about EXCEPT ![c] = ks]
      /\ waits' = [waits EXCEPT ![c] = {map[k] : k \in ks} \ {0}]
      /\ mark' = [mark EXCEPT ![c] = Len(cmds)]
  BY DEF Look, Goto
<1>3. ASSUME NEW d \in Clients, d # c
      PROVE  /\ pc'[d] = pc[d] /\ about'[d] = about[d]
             /\ waits'[d] = waits[d] /\ mark'[d] = mark[d]
  BY <1>2, <1>3 DEF TypeOK
<1>4. /\ pc'[c] = "waiting" /\ about'[c] = ks /\ mark'[c] = Len(cmds)
      /\ waits'[c] = {map[k] : k \in ks} \ {0}
  BY <1>2 DEF TypeOK
<1>5. Cursors'
  BY <1>1, <1>2 DEF Order, Cursors, TypeOK
<1>6. ReleasedIsOver' /\ MapIsLast'
  BY <1>1 DEF Order, ReleasedIsOver, MapIsLast, Sent
<1>7. WaitsForTheLast'
  <2> SUFFICES ASSUME NEW d \in Clients, pc'[d] = "waiting", NEW i \in 1..mark'[d],
                      cmds[i] \in about'[d], i > released
               PROVE  \E s \in waits'[d] : s >= i
    BY <1>1 DEF WaitsForTheLast
  <2>1. CASE d = c
    <3>1. i \in 1..Len(cmds) /\ cmds[i] \in ks
      BY <1>4, <2>1
    <3>2. map[cmds[i]] >= i /\ map[cmds[i]] \in Nat
      BY <3>1 DEF Order, MapIsLast, Sent, TypeOK
    <3>3. map[cmds[i]] \in waits'[c]
      BY <1>4, <3>1, <3>2
    <3> QED BY <2>1, <3>2, <3>3
  <2>2. CASE d # c
    BY <1>3, <2>2 DEF Order, WaitsForTheLast
  <2> QED BY <2>1, <2>2
<1>8. SeesWhatWasQueued'
  <2> SUFFICES ASSUME NEW d \in Clients, pc'[d] = "answer"
               PROVE  Settled(d)'
    BY DEF SeesWhatWasQueued
  <2>1. d # c
    BY <1>4
  <2> QED BY <1>1, <1>3, <2>1 DEF Order, SeesWhatWasQueued, Settled
<1> QED BY <1>5, <1>6, <1>7, <1>8 DEF Order

(* Who resumes has only released commands before its mark.                 *)
LEMMA ResumeOrder ==
  ASSUME TypeOK, Working, Order, NEW c \in Clients, Resume(c)
  PROVE  Order'
<1>1. /\ cmds' = cmds /\ map' = map /\ released' = released /\ taken' = taken
      /\ writer' = writer /\ applied' = applied /\ failed' = failed /\ done' = done
      /\ about' = about /\ waits' = waits /\ mark' = mark
  BY DEF Resume, writerVars
<1>2. /\ pc[c] = "waiting" /\ waits[c] \subseteq done
      /\ \A d \in Clients : d # c => pc'[d] = pc[d]
      /\ pc'[c] # "waiting"
  BY DEF Resume, Goto, TypeOK
<1>3. Settled(c)
  <2> SUFFICES ASSUME NEW i \in 1..mark[c], cmds[i] \in about[c]
               PROVE  i \in applied \cup failed
    BY DEF Settled
  <2>1. i <= released
    <3> SUFFICES ASSUME i > released PROVE FALSE
      BY DEF TypeOK
    <3>1. PICK s \in waits[c] : s >= i
      BY <1>2 DEF Order, WaitsForTheLast
    <3> QED BY <1>2, <3>1 DEF Order, ReleasedIsOver, TypeOK
  <2>2. i \in 1..released
    BY <2>1 DEF TypeOK
  <2> QED BY <2>2 DEF Order, ReleasedIsOver
<1>4. Cursors' /\ ReleasedIsOver' /\ MapIsLast'
  BY <1>1 DEF Order, Cursors, ReleasedIsOver, MapIsLast, Sent
<1>5. WaitsForTheLast'
  BY <1>1, <1>2 DEF Order, WaitsForTheLast
<1>6. SeesWhatWasQueued'
  BY <1>1, <1>2, <1>3 DEF Order, SeesWhatWasQueued, Settled
<1> QED BY <1>4, <1>5, <1>6 DEF Order

LEMMA AnswerOrder ==
  ASSUME TypeOK, Working, Order, NEW c \in Clients, Answer(c)
  PROVE  Order'
<1>1. /\ cmds' = cmds /\ map' = map /\ released' = released /\ taken' = taken
      /\ writer' = writer /\ applied' = applied /\ failed' = failed /\ done' = done
  BY DEF Answer, writerVars
<1>2. /\ pc'[c] = "idle" /\ mark'[c] = 0
      /\ \A d \in Clients : d # c =>
           /\ pc'[d] = pc[d] /\ about'[d] = about[d]
           /\ waits'[d] = waits[d] /\ mark'[d] = mark[d]
  BY DEF Answer, Goto, TypeOK
<1>3. Cursors'
  <2>1. \A d \in Clients : mark'[d] <= Len(cmds)
    <3> TAKE d \in Clients
    <3>1. CASE d = c
      BY <1>2, <3>1 DEF TypeOK
    <3>2. CASE d # c
      BY <1>2, <3>2 DEF Order, Cursors
    <3> QED BY <3>1, <3>2
  <2> QED BY <1>1, <2>1 DEF Order, Cursors
<1>4. ReleasedIsOver' /\ MapIsLast'
  BY <1>1 DEF Order, ReleasedIsOver, MapIsLast, Sent
<1>5. WaitsForTheLast'
  BY <1>1, <1>2 DEF Order, WaitsForTheLast
<1>6. SeesWhatWasQueued'
  BY <1>1, <1>2 DEF Order, SeesWhatWasQueued, Settled
<1> QED BY <1>3, <1>4, <1>5, <1>6 DEF Order

-----------------------------------------------------------------------------
(* The writer's steps: a batch is over before its slots are released, and  *)
(* a slot that is released was the last of its key or is not in the map.   *)
LEMMA WriterOrder ==
  ASSUME TypeOK, Working, Order, Collect \/ Commit \/ FailBatch \/ Release
  PROVE  Order'
<1>0. UNCHANGED <<cmds, pc, about, waits, mark>>
  BY DEF Collect, Commit, FailBatch, Release, clientVars
<1>1. CASE Collect
  <2>1. /\ map' = map /\ done' = done /\ applied' = applied /\ failed' = failed
        /\ released' = released /\ writer' = "batch"
        /\ taken' \in Nat /\ taken < taken' /\ taken' <= Len(cmds)
    BY <1>1, WriteBehindAssumption DEF Collect, TypeOK
  <2>2. Cursors' /\ ReleasedIsOver' /\ MapIsLast'
    BY <1>0, <2>1 DEF Order, Cursors, ReleasedIsOver, MapIsLast, Sent, TypeOK
  <2>3. WaitsForTheLast' /\ SeesWhatWasQueued'
    BY <1>0, <2>1 DEF Order, WaitsForTheLast, SeesWhatWasQueued, Settled, Working
  <2> QED BY <2>2, <2>3 DEF Order
<1>2. CASE Commit \/ FailBatch
  <2>1. /\ map' = map /\ done' = done /\ released' = released /\ taken' = taken
        /\ writer = "batch" /\ writer' = "release"
        /\ applied' \cup failed' = applied \cup failed \cup Batch
    BY <1>2 DEF Commit, FailBatch
  <2>2. 1..taken \subseteq (1..released) \cup Batch
    BY DEF Batch, TypeOK
  <2>3. ReleasedIsOver' /\ MapIsLast'
    BY <1>0, <2>1, <2>2 DEF Order, ReleasedIsOver, MapIsLast, Sent
  <2>4. WaitsForTheLast' /\ SeesWhatWasQueued'
    BY <1>0, <2>1 DEF Order, WaitsForTheLast, SeesWhatWasQueued, Settled, Working
  <2>5. Cursors'
    BY <1>0, <2>1 DEF Order, Cursors, TypeOK
  <2> QED BY <2>3, <2>4, <2>5 DEF Order
<1>3. CASE Release
  <2>1. /\ applied' = applied /\ failed' = failed /\ taken' = taken
        /\ writer = "release" /\ released < taken
        /\ released' = released + 1 /\ done' = done \cup {released + 1}
        /\ writer' = IF released + 1 = taken THEN "recv" ELSE "release"
        /\ map' = [k \in Keys |-> IF map[k] = released + 1 THEN 0 ELSE map[k]]
    BY <1>3 DEF Release
  <2>2. Cursors'
    BY <1>0, <2>1 DEF Order, Cursors, TypeOK
  <2>3. ReleasedIsOver'
    BY <2>1 DEF Order, ReleasedIsOver, TypeOK
  <2>4. MapIsLast'
    <3> SUFFICES ASSUME NEW i \in 1..Len(cmds), i > released + 1
                 PROVE  map'[cmds[i]] >= i
      BY <1>0, <2>1 DEF MapIsLast, Sent
    <3>1. cmds[i] \in Keys /\ map[cmds[i]] >= i
      BY DEF Order, MapIsLast, Sent, TypeOK
    <3> QED BY <2>1, <3>1 DEF TypeOK
  <2>5. WaitsForTheLast'
    BY <1>0, <2>1 DEF Order, WaitsForTheLast, TypeOK
  <2>6. SeesWhatWasQueued'
    BY <1>0, <2>1 DEF Order, SeesWhatWasQueued, Settled, Working
  <2> QED BY <2>2, <2>3, <2>4, <2>5, <2>6 DEF Order
<1> QED BY <1>1, <1>2, <1>3

(* Once the writer has left its loop it does not come back.                *)
LEMMA NoWayBack == TypeOK /\ [Next]_vars /\ Working' => Working
<1> SUFFICES ASSUME TypeOK, [Next]_vars, ~Working PROVE ~Working'
  OBVIOUS
<1>1. CASE WriterStep
  BY <1>1 DEF WriterStep, Collect, Commit, FailBatch, Release, Unwind,
     DrainOnExit, DropReceiver, Working
<1>2. CASE \E c \in Clients : Call(c) \/ GoOn(c)
  <2>1. writer' = writer
    BY <1>2 DEF Call, GoOn, Write, Delete, Park, Probe, DrainQueued, ProbeAgain,
       Resume, Answer, Register, RollBack, Look, writerVars
  <2> QED BY <2>1 DEF Working
<1>3. CASE Rest \/ UNCHANGED vars
  BY <1>3 DEF Rest, vars, writerVars, Working
<1> QED BY <1>1, <1>2, <1>3 DEF Next

LEMMA OrderStep == TypeOK /\ Working /\ Order /\ [Next]_vars /\ Working' => Order'
<1> SUFFICES ASSUME TypeOK, Working, Order, [Next]_vars, Working' PROVE Order'
  OBVIOUS
<1>1. ASSUME NEW c \in Clients, Call(c) PROVE Order'
  <2>1. CASE DrainQueued(c)
    BY <2>1, LookOrder DEF DrainQueued
  <2>2. ASSUME NEW k \in Keys, Park(c, k) \/ Probe(c, k) PROVE Order'
    <3>1. Look(c, {k}) /\ {k} \in SUBSET Keys
      BY <2>2 DEF Park, Probe
    <3> QED BY <3>1, LookOrder
  <2> QED BY <1>1, <2>1, <2>2, WriteOrder, DeleteOrder DEF Call
<1>2. ASSUME NEW c \in Clients, GoOn(c) PROVE Order'
  <2>1. CASE ProbeAgain(c)
    <3>1. Look(c, about[c]) /\ about[c] \in SUBSET Keys
      BY <2>1 DEF ProbeAgain, TypeOK
    <3> QED BY <3>1, LookOrder
  <2> QED BY <1>2, <2>1, ResumeOrder, AnswerOrder DEF GoOn
<1>3. CASE WriterStep
  <2>1. ~(Unwind \/ DrainOnExit \/ DropReceiver)
    BY DEF Unwind, DrainOnExit, DropReceiver, Working
  <2> QED BY <1>3, <2>1, WriterOrder DEF WriterStep
<1>4. CASE Rest \/ UNCHANGED vars
  BY <1>4 DEF Rest, vars, writerVars, clientVars, Order, Cursors, ReleasedIsOver,
     MapIsLast, WaitsForTheLast, SeesWhatWasQueued, Settled, Sent, Working
<1> QED BY <1>1, <1>2, <1>3, <1>4 DEF Next

(* The invariant of the write-behind queue is inductive.                   *)
THEOREM QueueInvariant == Spec => []QueueInv
<1>1. QueueInv /\ [Next]_vars => QueueInv'
  BY TypeStep, NoWayBack, OrderStep DEF QueueInv, Order
<1> HIDE DEF Init, Next, QueueInv
<1> QED BY InitInv, <1>1, PTL DEF Spec

(* While the writer works, a call that waited out the queue finds every    *)
(* command queued for its keys before it looked committed, or failed.      *)
THEOREM ReadsSettle == Spec => []SeesWhatWasQueued
<1>1. QueueInv => SeesWhatWasQueued
  BY DEF QueueInv, SeesWhatWasQueued
<1> QED BY QueueInvariant, <1>1, PTL
=============================================================================
