--------------------------- MODULE AdmissionProofs ---------------------------
(***************************************************************************)
(* What stands between a run and its start.  First the resource pool:      *)
(* PoolInv is an inductive invariant, for any tasks, pools, capacities and *)
(* demands, and for either drop order.  Then the sandbox directory, for    *)
(* any number of runs.                                                     *)
(***************************************************************************)
EXTENDS ResourcePool, SandboxGate, FiniteSetTheorems, SequenceTheorems, TLAPS

(* Few leaves need arithmetic: those name SMT.                             *)
USE Zenon

USE DEF Nothing, Bounded

(* What `resolve' computes is an amount per pool.                          *)
LEMMA ResolveType ==
  ASSUME NEW d \in Demands
  PROVE  Resolve(d) \in [Pools -> 0 .. U64Max]
<1>1. ASSUME NEW p \in Pools PROVE Amount(d, p) \in 0 .. U64Max
  BY DemandsType, DefaultCpuType, U64MaxNat, SMT DEF Amount
<1>2. ASSUME NEW p \in Pools, Capacity[p] # Unbounded PROVE Capacity[p] \in 0 .. U64Max
  BY <1>2, CapacityType, Zenon
<1> QED BY <1>1, <1>2 DEF Resolve

(* `take' and `give' keep the counters in range.                           *)
LEMMA TakeGiveType ==
  ASSUME NEW h \in [Pools -> 0 .. U64Max], NEW n \in [Pools -> 0 .. U64Max]
  PROVE  /\ Take(h, n) \in [Pools -> 0 .. U64Max]
         /\ Give(h, n) \in [Pools -> 0 .. U64Max]
BY U64MaxNat, SMT DEF Take, Give

(* A bounded pool that fitted before a `take' is within its capacity after *)
(* it: the saturation never bites there.                                   *)
LEMMA TakeWithin ==
  ASSUME NEW h \in [Pools -> 0 .. U64Max], NEW n \in [Pools -> 0 .. U64Max],
         Fits(h, n), NEW p \in Pools, Bounded(p), h[p] <= Capacity[p]
  PROVE  Take(h, n)[p] <= Capacity[p]
<1>1. Capacity[p] \in 0 .. U64Max
  BY CapacityType, Zenon
<1>2. n[p] # 0 => h[p] + n[p] <= Capacity[p]
  BY DEF Fits
<1> QED BY <1>1, <1>2, U64MaxNat, SMT DEF Take

LEMMA GiveWithin ==
  ASSUME NEW h \in [Pools -> 0 .. U64Max], NEW n \in [Pools -> 0 .. U64Max],
         NEW p \in Pools, Bounded(p), h[p] <= Capacity[p]
  PROVE  Give(h, n)[p] <= Capacity[p]
<1>1. Capacity[p] \in 0 .. U64Max
  BY CapacityType, Zenon
<1> QED BY <1>1, U64MaxNat, SMT DEF Give

(* Removing a task that has one entry leaves the others, in order.         *)
Distinct(s) == \A i, j \in 1 .. Len(s) : s[i] = s[j] => i = j

(* w is s without t.                                                       *)
Removed(w, s, t) ==
  /\ w \in Seq(Tasks)
  /\ Distinct(w)
  /\ \A i \in 1 .. Len(w) : w[i] # t /\ \E j \in 1 .. Len(s) : w[i] = s[j]
  /\ \A j \in 1 .. Len(s) : s[j] # t => \E i \in 1 .. Len(w) : w[i] = s[j]

LEMMA WithoutProperties ==
  ASSUME NEW s \in Seq(Tasks), NEW t \in Tasks, Distinct(s)
  PROVE  Removed(Without(s, t), s, t)
<1> USE DEF Distinct, Removed
<1>1. CASE ~ \E i \in 1 .. Len(s) : s[i] = t
  BY <1>1 DEF Without
<1>2. CASE \E i \in 1 .. Len(s) : s[i] = t
  <2> DEFINE k == CHOOSE i \in 1 .. Len(s) : s[i] = t
             w == [i \in 1 .. (Len(s) - 1) |-> IF i < k THEN s[i] ELSE s[i + 1]]
  <2>1. k \in 1 .. Len(s) /\ s[k] = t
    BY <1>2
  <2>2. Without(s, t) = w
    BY <1>2 DEF Without
  <2> HIDE DEF k
  <2>3. Len(s) - 1 \in Nat /\ \A i \in 1 .. (Len(s) - 1) : w[i] \in Tasks
    BY <2>1, SMT
  <2>4. w \in Seq(Tasks) /\ Len(w) = Len(s) - 1
    BY <2>3, SMT
  <2>5. ASSUME NEW i \in 1 .. Len(w)
        PROVE  w[i] # t /\ \E j \in 1 .. Len(s) : w[i] = s[j]
    BY <2>1, <2>4, SMT
  <2>6. ASSUME NEW i \in 1 .. Len(w), NEW j \in 1 .. Len(w), w[i] = w[j]
        PROVE  i = j
    BY <2>1, <2>4, <2>6, SMT
  <2>7. ASSUME NEW j \in 1 .. Len(s), s[j] # t
        PROVE  \E i \in 1 .. Len(w) : w[i] = s[j]
    <3>1. CASE j < k
      <4>1. j \in 1 .. Len(w) /\ w[j] = s[j]
        BY <2>1, <2>4, <3>1, SMT
      <4> QED BY <4>1
    <3>2. CASE j > k
      <4>1. j - 1 \in 1 .. Len(w) /\ w[j - 1] = s[j]
        BY <2>1, <2>4, <3>2, SMT
      <4> QED BY <4>1
    <3>3. j < k \/ j > k
      <4> HIDE DEF w
      <4> QED BY <2>1, <2>7, SMT
    <3> QED BY <3>1, <3>2, <3>3
  <2> HIDE DEF w
  <2> QED BY <2>2, <2>4, <2>5, <2>6, <2>7
<1> QED BY <1>1, <1>2

-----------------------------------------------------------------------------
LEMMA InitInv == Init => PoolInv
<1> SUFFICES ASSUME Init PROVE PoolInv
  OBVIOUS
<1>1. TypeOK
  <2>1. held \in [Pools -> 0 .. U64Max] /\ need \in [Tasks -> [Pools -> 0 .. U64Max]]
    BY U64MaxNat, SMT DEF Init
  <2>2. waiters \in Seq(Tasks)
    BY SMT DEF Init
  <2>3. chain \in BOOLEAN
    BY DEF Init
  <2> QED BY <2>1, <2>2, <2>3 DEF Init, TypeOK
<1>2. WithinCapacity
  BY CapacityType, UnboundedNotNat, U64MaxNat, SMT DEF Init, WithinCapacity
<1>3. NoIdleCapacity /\ NeverClosed /\ ChannelStates
  BY SMT DEF Init, NoIdleCapacity, HeadFits, NeverClosed, Queued, ChannelStates
<1> QED BY <1>1, <1>2, <1>3 DEF PoolInv

(* A task with nothing in the queue does not move the head when its need   *)
(* changes or when only unbounded amounts are taken.                       *)
LEMMA AcquireErrorInv ==
  ASSUME PoolInv, NEW t \in Tasks, NEW d \in Demands, AcquireError(t, d)
  PROVE  PoolInv'
BY SMT DEF PoolInv, TypeOK, WithinCapacity, NoIdleCapacity, HeadFits, Fits,
       NeverClosed, Queued, ChannelStates, AcquireError, Idle

LEMMA HeadQueued ==
  ASSUME TypeOK, waiters # << >>
  PROVE  /\ Head(waiters) \in Tasks
         /\ 1 \in 1 .. Len(waiters)
         /\ waiters[1] = Head(waiters)
         /\ Tail(waiters) \in Seq(Tasks)
         /\ Len(Tail(waiters)) = Len(waiters) - 1
         /\ \A i \in 1 .. Len(Tail(waiters)) :
              i + 1 \in 1 .. Len(waiters) /\ Tail(waiters)[i] = waiters[i + 1]
BY SMT DEF TypeOK

LEMMA GrantNowInv ==
  ASSUME PoolInv, NEW t \in Tasks, NEW d \in Demands, GrantNow(t, d)
  PROVE  PoolInv'
<1> DEFINE n == Resolve(d)
<1> USE DEF PoolInv
<1>0. n \in [Pools -> 0 .. U64Max]
  BY ResolveType
<1> HIDE DEF n
<1>1. /\ ~NeedsBounded(n) /\ Idle(t) /\ held' = Take(held, n)
      /\ need' = [need EXCEPT ![t] = n] /\ acq' = [acq EXCEPT ![t] = "ready"]
      /\ UNCHANGED <<waiters, chain, rx>>
  BY DEF GrantNow, n
<1>2. TypeOK'
  BY <1>0, <1>1, TakeGiveType DEF TypeOK
<1>3. \A p \in Pools : Bounded(p) => held'[p] = held[p]
  BY <1>0, <1>1, U64MaxNat, SMT DEF NeedsBounded, Take, TypeOK
<1>4. WithinCapacity'
  BY <1>3 DEF WithinCapacity
<1>5. \A i \in 1 .. Len(waiters) : waiters[i] # t
  BY <1>1 DEF ChannelStates, Idle
<1>6. NoIdleCapacity'
  <2> SUFFICES ASSUME ~chain, waiters # << >>
               PROVE  ~Fits(held', need'[Head(waiters)])
    BY <1>1 DEF NoIdleCapacity, HeadFits
  <2>1. Head(waiters) \in Tasks /\ Head(waiters) # t
    BY <1>5, HeadQueued
  <2>2. need'[Head(waiters)] = need[Head(waiters)]
    BY <1>1, <2>1 DEF TypeOK
  <2>3. ~Fits(held, need[Head(waiters)])
    BY DEF NoIdleCapacity, HeadFits
  <2> QED BY <1>3, <2>2, <2>3 DEF Fits
<1>7. NeverClosed'
  BY <1>1, SMT DEF NeverClosed, Queued, TypeOK
<1>8. ChannelStates'
  BY <1>1, <1>5, SMT DEF ChannelStates, TypeOK, Idle
<1> QED BY <1>2, <1>4, <1>6, <1>7, <1>8

LEMMA EnqueueFastInv ==
  ASSUME PoolInv, NEW t \in Tasks, NEW d \in Demands, EnqueueFast(t, d)
  PROVE  PoolInv'
<1> DEFINE n == Resolve(d)
<1> USE DEF PoolInv
<1>0. n \in [Pools -> 0 .. U64Max]
  BY ResolveType
<1> HIDE DEF n
<1>1. /\ Idle(t) /\ waiters = << >> /\ Fits(held, n) /\ held' = Take(held, n)
      /\ need' = [need EXCEPT ![t] = n] /\ acq' = [acq EXCEPT ![t] = "ready"]
      /\ UNCHANGED <<waiters, chain, rx>>
  BY DEF EnqueueFast, n
<1>2. TypeOK'
  BY <1>0, <1>1, TakeGiveType DEF TypeOK
<1>3. WithinCapacity'
  BY <1>0, <1>1, TakeWithin DEF WithinCapacity, TypeOK
<1>4. NoIdleCapacity' /\ NeverClosed' /\ ChannelStates'
  BY <1>1, SMT DEF NoIdleCapacity, HeadFits, NeverClosed, Queued, ChannelStates, TypeOK, Idle
<1> QED BY <1>2, <1>3, <1>4

LEMMA EnqueueWaitInv ==
  ASSUME PoolInv, NEW t \in Tasks, NEW d \in Demands, EnqueueWait(t, d)
  PROVE  PoolInv'
<1> DEFINE n == Resolve(d)
<1> USE DEF PoolInv
<1>0. n \in [Pools -> 0 .. U64Max]
  BY ResolveType
<1> HIDE DEF n
<1>1. /\ Idle(t) /\ waiters' = Append(waiters, t) /\ chain'
      /\ need' = [need EXCEPT ![t] = n] /\ acq' = [acq EXCEPT ![t] = "waiting"]
      /\ rx' = [rx EXCEPT ![t] = "open"] /\ held' = held /\ chain' = TRUE
  BY DEF EnqueueWait, n
<1>2. /\ waiters' \in Seq(Tasks) /\ Len(waiters') = Len(waiters) + 1
      /\ Len(waiters) \in Nat
      /\ \A i \in 1 .. Len(waiters) : waiters'[i] = waiters[i]
      /\ waiters'[Len(waiters) + 1] = t
  BY <1>1, SMT DEF TypeOK
<1>3. TypeOK'
  BY <1>0, <1>1, <1>2 DEF TypeOK
<1>4. WithinCapacity' /\ NoIdleCapacity'
  BY <1>1 DEF WithinCapacity, NoIdleCapacity
<1>5. \A i \in 1 .. Len(waiters) : waiters[i] # t /\ waiters[i] \in Tasks
  BY <1>1, SMTT(30) DEF ChannelStates, Idle, TypeOK
<1>6. NeverClosed'
  <2>1. ASSUME NEW i \in 1 .. Len(waiters'), NEW j \in 1 .. Len(waiters'),
               waiters'[i] = waiters'[j]
        PROVE  i = j
    BY <1>2, <1>5, <2>1, SMT DEF NeverClosed
  <2>2. ASSUME NEW u \in Tasks, u # t PROVE Queued(u)' <=> Queued(u)
    BY <1>2, <2>2, SMT DEF Queued
  <2>3. Queued(t)'
    BY <1>2, SMT DEF Queued
  <2> QED BY <1>1, <2>1, <2>2, <2>3 DEF NeverClosed, TypeOK
<1>7. ChannelStates'
  <2>1. ASSUME NEW i \in 1 .. Len(waiters')
        PROVE  \/ acq'[waiters'[i]] = "waiting" /\ rx'[waiters'[i]] = "open"
               \/ acq'[waiters'[i]] = "rx_dropped" /\ rx'[waiters'[i]] = "closed"
    BY <1>1, <1>2, <1>5, SMT DEF ChannelStates, TypeOK
  <2> QED BY <1>1, <2>1 DEF ChannelStates, TypeOK
<1> QED BY <1>3, <1>4, <1>6, <1>7

LEMMA GrantHeadInv ==
  ASSUME PoolInv, GrantHead
  PROVE  PoolInv'
<1> USE DEF PoolInv
<1>0. PICK t \in Tasks : t = Head(waiters)
  BY HeadQueued DEF GrantHead, HeadFits
<1>1. /\ waiters # << >> /\ Fits(held, need[t]) /\ waiters' = Tail(waiters)
      /\ chain /\ UNCHANGED <<chain, acq, need>>
      /\ \/ /\ rx[t] = "open" /\ held' = Take(held, need[t])
            /\ rx' = [rx EXCEPT ![t] = "sent"]
         \/ /\ rx[t] # "open" /\ held' = Give(Take(held, need[t]), need[t])
            /\ UNCHANGED rx
  BY <1>0 DEF GrantHead, HeadFits
<1>2. /\ t \in Tasks /\ waiters[1] = t /\ 1 \in 1 .. Len(waiters)
      /\ waiters' \in Seq(Tasks) /\ Len(waiters') = Len(waiters) - 1
      /\ \A i \in 1 .. Len(waiters') :
           i + 1 \in 1 .. Len(waiters) /\ waiters'[i] = waiters[i + 1]
  BY <1>0, <1>1, HeadQueued
<1>3. need[t] \in [Pools -> 0 .. U64Max] /\ held \in [Pools -> 0 .. U64Max]
  BY <1>2 DEF TypeOK
<1>4. /\ Take(held, need[t]) \in [Pools -> 0 .. U64Max]
      /\ Give(Take(held, need[t]), need[t]) \in [Pools -> 0 .. U64Max]
  BY <1>3, TakeGiveType
<1>5. TypeOK'
  BY <1>1, <1>2, <1>4, SMT DEF TypeOK
<1>6. WithinCapacity'
  <2> SUFFICES ASSUME NEW p \in Pools, Bounded(p) PROVE held'[p] <= Capacity[p]
    BY DEF WithinCapacity
  <2>1. Take(held, need[t])[p] <= Capacity[p]
    BY <1>1, <1>3, TakeWithin DEF WithinCapacity
  <2>2. Give(Take(held, need[t]), need[t])[p] <= Capacity[p]
    BY <1>3, <1>4, <2>1, GiveWithin, SMT
  <2> QED BY <1>1, <2>1, <2>2
<1>7. NoIdleCapacity'
  BY <1>1 DEF NoIdleCapacity
<1>8. \A i \in 1 .. Len(waiters') : waiters'[i] # t /\ waiters'[i] \in Tasks
  BY <1>2, SMT DEF NeverClosed
<1>9. NeverClosed'
  <2>1. ASSUME NEW i \in 1 .. Len(waiters'), NEW j \in 1 .. Len(waiters'),
               waiters'[i] = waiters'[j]
        PROVE  i = j
    <3>1. i + 1 \in 1 .. Len(waiters) /\ j + 1 \in 1 .. Len(waiters)
      BY <1>2
    <3>2. waiters[i + 1] = waiters[j + 1]
      BY <1>2, <2>1, SMT
    <3>3. i + 1 = j + 1
      BY <3>1, <3>2 DEF NeverClosed
    <3> QED BY <3>3, SMT
  <2>2. ~Queued(t)'
    BY <1>8 DEF Queued
  <2>3. ASSUME NEW u \in Tasks, u # t, Queued(u) PROVE Queued(u)'
    <3>1. PICK j \in 1 .. Len(waiters) : waiters[j] = u
      BY <2>3 DEF Queued
    <3>2. j - 1 \in 1 .. Len(waiters') /\ waiters'[j - 1] = u
      BY <1>2, <2>3, <3>1, SMT DEF TypeOK
    <3> QED BY <3>2 DEF Queued
  <2>4. ASSUME NEW u \in Tasks, u # t, Queued(u)' PROVE Queued(u)
    BY <1>2, <2>4, SMT DEF Queued
  <2>5. acq[t] = "waiting" => rx[t] = "open"
    BY <1>2 DEF ChannelStates
  <2> QED BY <1>1, <1>2, <2>1, <2>2, <2>3, <2>4, <2>5 DEF NeverClosed, TypeOK
<1>10. ChannelStates'
  <2>1. ASSUME NEW i \in 1 .. Len(waiters')
        PROVE  \/ acq'[waiters'[i]] = "waiting" /\ rx'[waiters'[i]] = "open"
               \/ acq'[waiters'[i]] = "rx_dropped" /\ rx'[waiters'[i]] = "closed"
    BY <1>1, <1>2, <1>8, SMT DEF ChannelStates, TypeOK
  <2>2. acq[t] = "waiting" \/ rx[t] = "closed"
    BY <1>2 DEF ChannelStates
  <2> QED BY <1>1, <1>2, <2>1, <2>2, SMT DEF ChannelStates, TypeOK
<1> QED BY <1>5, <1>6, <1>7, <1>9, <1>10

LEMMA ChainEndInv ==
  ASSUME PoolInv, ChainEnd
  PROVE  PoolInv'
<1>1. /\ ~HeadFits /\ chain' = FALSE
      /\ UNCHANGED held /\ UNCHANGED <<waiters, acq, need, rx>>
  BY DEF ChainEnd
<1>2. TypeOK' /\ WithinCapacity'
  BY <1>1 DEF PoolInv, TypeOK, WithinCapacity
<1>3. NoIdleCapacity'
  BY <1>1 DEF NoIdleCapacity, HeadFits, Fits
<1>4. NeverClosed' /\ ChannelStates'
  BY <1>1, SMT DEF PoolInv, NeverClosed, Queued, ChannelStates
<1> QED BY <1>2, <1>3, <1>4 DEF PoolInv

LEMMA PollInv ==
  ASSUME PoolInv, NEW t \in Tasks, PollReady(t) \/ PollGranted(t)
  PROVE  PoolInv'
<1> USE DEF PoolInv
<1>1. /\ acq[t] \in {"ready", "waiting"} /\ acq' = [acq EXCEPT ![t] = "holding"]
      /\ acq[t] = "waiting" => rx[t] = "sent"
      /\ rx' = [rx EXCEPT ![t] = "none"] /\ UNCHANGED <<held, waiters, chain, need>>
  BY SMT DEF PollReady, PollGranted, ChannelStates, TypeOK
<1>2. TypeOK'
  BY <1>1 DEF TypeOK
<1>3. WithinCapacity' /\ NoIdleCapacity'
  BY <1>1 DEF WithinCapacity, NoIdleCapacity, HeadFits, Fits
<1>4. \A i \in 1 .. Len(waiters) : waiters[i] # t
  BY <1>1 DEF ChannelStates, TypeOK
<1>5. NeverClosed'
  BY <1>1, <1>4, SMT DEF NeverClosed, Queued, TypeOK
<1>6. ChannelStates'
  BY <1>1, <1>4, SMT DEF ChannelStates, TypeOK
<1> QED BY <1>2, <1>3, <1>5, <1>6

(* A release by a task that is not in the queue, on its own: the counters  *)
(* stay in range, and with the mutex free the head is still one that does  *)
(* not fit, since then nothing was returned.                               *)
LEMMA ReleaseKeeps ==
  ASSUME PoolInv, NEW t \in Tasks, ~Queued(t), Release(t), UNCHANGED waiters
  PROVE  /\ held' \in [Pools -> 0 .. U64Max]
         /\ need' \in [Tasks -> [Pools -> 0 .. U64Max]]
         /\ chain' \in BOOLEAN
         /\ WithinCapacity'
         /\ NoIdleCapacity'
<1> USE DEF PoolInv
<1>1. need[t] \in [Pools -> 0 .. U64Max] /\ held \in [Pools -> 0 .. U64Max]
  BY DEF TypeOK
<1>2. held' \in [Pools -> 0 .. U64Max]
  BY <1>1, TakeGiveType DEF Release
<1>3. need' \in [Tasks -> [Pools -> 0 .. U64Max]]
  BY U64MaxNat, SMT DEF Release, TypeOK
<1>4. chain' \in BOOLEAN
  BY DEF Release, TypeOK
<1>5. WithinCapacity'
  BY <1>1, GiveWithin DEF WithinCapacity, Release
<1>6. NoIdleCapacity'
  <2> SUFFICES ASSUME ~chain', waiters # << >>
               PROVE  ~Fits(held', need'[Head(waiters)])
    BY DEF NoIdleCapacity, HeadFits
  <2>1. need[t] = Nothing /\ ~chain
    BY DEF Release
  <2>2. held' = held
    BY <1>1, <2>1, SMT DEF Release, Give
  <2>3. Head(waiters) \in Tasks /\ Head(waiters) # t
    BY HeadQueued DEF Queued
  <2>4. need'[Head(waiters)] = need[Head(waiters)]
    BY <2>3 DEF Release, TypeOK
  <2> QED BY <2>1, <2>2, <2>4 DEF NoIdleCapacity, HeadFits
<1> QED BY <1>2, <1>3, <1>4, <1>5, <1>6

LEMMA DropReservationInv ==
  ASSUME PoolInv, NEW t \in Tasks, DropReservation(t)
  PROVE  PoolInv'
<1> USE DEF PoolInv
<1>1. /\ acq[t] \in {"holding", "ready"} /\ acq' = [acq EXCEPT ![t] = "idle"]
      /\ Release(t) /\ UNCHANGED waiters /\ UNCHANGED rx
  BY DEF DropReservation
<1>2. \A i \in 1 .. Len(waiters) : waiters[i] # t
  BY <1>1 DEF ChannelStates
<1>3. /\ held' \in [Pools -> 0 .. U64Max]
      /\ need' \in [Tasks -> [Pools -> 0 .. U64Max]]
      /\ chain' \in BOOLEAN /\ WithinCapacity' /\ NoIdleCapacity'
  BY <1>1, <1>2, ReleaseKeeps DEF Queued
<1>4. TypeOK'
  BY <1>1, <1>3 DEF TypeOK
<1>5. NeverClosed'
  BY <1>1, SMT DEF NeverClosed, Queued, TypeOK
<1>6. ChannelStates'
  BY <1>1, <1>2, SMT DEF ChannelStates, TypeOK
<1> QED BY <1>3, <1>4, <1>5, <1>6

LEMMA DropRxInv ==
  ASSUME PoolInv, NEW t \in Tasks, DropRx(t)
  PROVE  PoolInv'
<1> USE DEF PoolInv
<1>1. /\ acq[t] \in {"waiting", "guard_dropped"} /\ UNCHANGED waiters
      /\ acq' = [acq EXCEPT ![t] = IF acq[t] = "waiting" THEN "rx_dropped" ELSE "idle"]
      /\ rx' = [rx EXCEPT ![t] = IF acq[t] = "waiting" THEN "closed" ELSE "none"]
      /\ \/ rx[t] = "sent" /\ Release(t)
         \/ rx[t] = "open" /\ UNCHANGED <<held, chain, need>>
  BY DEF DropRx
<1>2. acq[t] = "guard_dropped" \/ rx[t] = "sent" =>
        \A i \in 1 .. Len(waiters) : waiters[i] # t
  BY DEF ChannelStates
<1>3. /\ held' \in [Pools -> 0 .. U64Max]
      /\ need' \in [Tasks -> [Pools -> 0 .. U64Max]]
      /\ chain' \in BOOLEAN /\ WithinCapacity' /\ NoIdleCapacity'
  <2>1. CASE rx[t] = "sent" /\ Release(t)
    BY <1>1, <1>2, <2>1, ReleaseKeeps DEF Queued
  <2>2. CASE rx[t] = "open" /\ UNCHANGED <<held, chain, need>>
    BY <1>1, <2>2 DEF TypeOK, WithinCapacity, NoIdleCapacity, HeadFits, Fits
  <2> QED BY <1>1, <2>1, <2>2
<1>4. TypeOK'
  BY <1>1, <1>3 DEF TypeOK
<1>5. NeverClosed'
  BY <1>1, SMT DEF NeverClosed, Queued, TypeOK
<1>6. ChannelStates'
  <2>1. ASSUME NEW i \in 1 .. Len(waiters)
        PROVE  \/ acq'[waiters[i]] = "waiting" /\ rx'[waiters[i]] = "open"
               \/ acq'[waiters[i]] = "rx_dropped" /\ rx'[waiters[i]] = "closed"
    BY <1>1, <1>2, SMT DEF ChannelStates, TypeOK
  <2> QED BY <1>1, <2>1, SMT DEF ChannelStates, TypeOK
<1> QED BY <1>3, <1>4, <1>5, <1>6

LEMMA DropGuardInv ==
  ASSUME PoolInv, NEW t \in Tasks, DropGuard(t)
  PROVE  PoolInv'
<1> USE DEF PoolInv
<1>1. /\ acq[t] \in {"waiting", "rx_dropped"} /\ UNCHANGED <<held, need>> /\ ~chain
      /\ acq' = [acq EXCEPT ![t] = IF acq[t] = "waiting" THEN "guard_dropped" ELSE "idle"]
      /\ rx' = [rx EXCEPT ![t] = IF acq[t] = "waiting" THEN rx[t] ELSE "none"]
      /\ waiters' = Without(waiters, t) /\ chain' = Queued(t)
  BY DEF DropGuard, Cancel, TypeOK
<1>2. /\ waiters' \in Seq(Tasks)
      /\ \A i \in 1 .. Len(waiters') :
           /\ waiters'[i] # t
           /\ \E j \in 1 .. Len(waiters) : waiters'[i] = waiters[j]
      /\ \A i, j \in 1 .. Len(waiters') : waiters'[i] = waiters'[j] => i = j
      /\ \A j \in 1 .. Len(waiters) : waiters[j] # t =>
           \E i \in 1 .. Len(waiters') : waiters'[i] = waiters[j]
  <2>1. waiters \in Seq(Tasks) /\ Distinct(waiters)
    BY DEF TypeOK, NeverClosed, Distinct
  <2>2. Removed(waiters', waiters, t)
    BY <1>1, <2>1, WithoutProperties
  <2> QED BY <2>2 DEF Removed, Distinct
<1>3. TypeOK'
  BY <1>1, <1>2 DEF TypeOK, Queued
<1>4. WithinCapacity'
  BY <1>1 DEF WithinCapacity
<1>5. NoIdleCapacity'
  <2> SUFFICES ASSUME ~Queued(t) PROVE NoIdleCapacity'
    BY <1>1 DEF NoIdleCapacity
  <2>1. waiters' = waiters
    BY <1>1 DEF Without, Queued
  <2> QED BY <1>1, <2>1 DEF NoIdleCapacity, HeadFits, Fits
<1>6. \A u \in Tasks : u # t => (Queued(u)' <=> Queued(u))
  <2> SUFFICES ASSUME NEW u \in Tasks, u # t PROVE Queued(u)' <=> Queued(u)
    OBVIOUS
  <2>1. ASSUME NEW i \in 1 .. Len(waiters'), waiters'[i] = u PROVE Queued(u)
    <3>1. PICK j \in 1 .. Len(waiters) : waiters'[i] = waiters[j]
      BY <1>2
    <3> QED BY <2>1, <3>1, Zenon DEF Queued
  <2>2. ASSUME NEW j \in 1 .. Len(waiters), waiters[j] = u PROVE Queued(u)'
    <3>1. PICK i \in 1 .. Len(waiters') : waiters'[i] = waiters[j]
      BY <1>2, <2>2
    <3> QED BY <2>2, <3>1, Zenon DEF Queued
  <2> QED BY <2>1, <2>2, Zenon DEF Queued
<1>7. NeverClosed'
  BY <1>1, <1>2, <1>6, SMT DEF NeverClosed, TypeOK
<1>8. ChannelStates'
  <2>1. ASSUME NEW i \in 1 .. Len(waiters')
        PROVE  \/ acq'[waiters'[i]] = "waiting" /\ rx'[waiters'[i]] = "open"
               \/ acq'[waiters'[i]] = "rx_dropped" /\ rx'[waiters'[i]] = "closed"
    BY <1>1, <1>2, SMT DEF ChannelStates, TypeOK
  <2>2. acq[t] = "waiting" => rx[t] \in {"open", "sent"}
    BY DEF NeverClosed
  <2> QED BY <1>1, <2>1, <2>2 DEF ChannelStates, TypeOK
<1> QED BY <1>3, <1>4, <1>5, <1>7, <1>8

(* PoolInv holds in every reachable state.                                 *)
THEOREM PoolInvariant == Spec => []PoolInv
<1>1. PoolInv /\ [Next]_vars => PoolInv'
  <2> SUFFICES ASSUME PoolInv, [Next]_vars PROVE PoolInv'
    OBVIOUS
  <2>1. CASE Next
    BY <2>1, AcquireErrorInv, GrantNowInv, EnqueueFastInv, EnqueueWaitInv, PollInv,
       DropReservationInv, DropGuardInv, DropRxInv, GrantHeadInv, ChainEndInv DEF Next
  <2>2. CASE UNCHANGED vars
    BY <2>2, SMT DEF vars, PoolInv, TypeOK, WithinCapacity, NoIdleCapacity, HeadFits, Fits,
                NeverClosed, Queued, ChannelStates
  <2> QED BY <2>1, <2>2
<1> QED BY <1>1, InitInv, PTL DEF Spec

(* The counters and channels keep their types: `take' saturates and `give' *)
(* never goes below zero.                                                  *)
THEOREM TypeCorrect == Spec => []TypeOK
BY PoolInvariant, PTL DEF PoolInv

(* No bounded pool is granted beyond its capacity, for any demands.        *)
THEOREM CapacityRespected == Spec => []WithinCapacity
BY PoolInvariant, PTL DEF PoolInv

(* Whenever the mutex is free, the head of the queue does not fit: no      *)
(* sequence of arrivals, releases and cancellations loses a wake-up.       *)
THEOREM NoLostGrant == Spec => []NoIdleCapacity
BY PoolInvariant, PTL DEF PoolInv

(* A waiter is queued exactly once until its grant was sent, so its        *)
(* receiver never finds its sender gone.                                   *)
THEOREM ReceiverNeverClosed == Spec => []NeverClosed
BY PoolInvariant, PTL DEF PoolInv

(* The head of the queue overtakes nobody.                                 *)
LEMMA HeadOvertakesNobody ==
  ASSUME PoolInv, waiters # << >>
  PROVE  Overtaken(Head(waiters)) = {}
<1> DEFINE t == Head(waiters)
<1>1. waiters[1] = t /\ 1 \in 1 .. Len(waiters) /\ Len(waiters) \in Nat
  BY HeadQueued, SMT DEF PoolInv, TypeOK
<1>2. Queued(t)
  BY <1>1 DEF Queued
<1>3. ASSUME NEW i \in 1 .. Len(waiters), NEW j \in (i + 1) .. Len(waiters), waiters[j] = t
      PROVE  FALSE
  <2>1. j \in 1 .. Len(waiters) /\ j # 1
    BY <1>1, SMT
  <2> QED BY <1>1, <1>3, <2>1 DEF PoolInv, NeverClosed
<1> HIDE DEF t
<1> QED BY <1>2, <1>3, Zenon DEF Overtaken, t

(* A step that makes a reservation live is a grant on arrival, past the    *)
(* queue if it is on unbounded pools only, or the grant of the head.       *)
LEMMA GrantsInOrder ==
  ASSUME PoolInv, Next, NEW t \in Tasks, ~Live(t), Live(t)', NeedsBounded(need'[t])
  PROVE  Overtaken(t) = {}
<1> USE DEF PoolInv
<1>1. ASSUME NEW u \in Tasks, NEW d \in Demands, AcquireError(u, d) PROVE FALSE
  BY <1>1 DEF AcquireError, Live, TypeOK
<1>2. ASSUME NEW u \in Tasks, NEW d \in Demands, GrantNow(u, d) PROVE FALSE
  <2>1. ~NeedsBounded(Resolve(d)) /\ need' = [need EXCEPT ![u] = Resolve(d)]
        /\ acq' = [acq EXCEPT ![u] = "ready"] /\ rx' = rx
    BY <1>2 DEF GrantNow
  <2>2. t = u
    BY <2>1 DEF Live, TypeOK
  <2> QED BY <2>1, <2>2 DEF TypeOK
<1>3. ASSUME NEW u \in Tasks, NEW d \in Demands, EnqueueFast(u, d) PROVE Overtaken(t) = {}
  <2>1. waiters = << >>
    BY <1>3 DEF EnqueueFast
  <2> QED BY <2>1, SMT DEF Overtaken, Queued
<1>4. ASSUME NEW u \in Tasks, NEW d \in Demands, EnqueueWait(u, d) PROVE FALSE
  BY <1>4 DEF EnqueueWait, Live, TypeOK
<1>5. ASSUME NEW u \in Tasks, PollReady(u) \/ PollGranted(u) PROVE FALSE
  BY <1>5 DEF PollReady, PollGranted, Live, TypeOK
<1>6. ASSUME NEW u \in Tasks, DropReservation(u) PROVE FALSE
  BY <1>6 DEF DropReservation, Live, TypeOK
<1>7. ASSUME NEW u \in Tasks, DropGuard(u) \/ DropRx(u) PROVE FALSE
  BY <1>7, SMT DEF DropGuard, DropRx, Live, TypeOK
<1>8. ASSUME GrantHead PROVE Overtaken(t) = {}
  <2>1. t = Head(waiters) /\ waiters # << >>
    BY <1>8, HeadQueued DEF GrantHead, HeadFits, Live, TypeOK
  <2> QED BY <2>1, HeadOvertakesNobody
<1>9. ASSUME ChainEnd PROVE FALSE
  BY <1>9 DEF ChainEnd, Live
<1> QED BY <1>1, <1>2, <1>3, <1>4, <1>5, <1>6, <1>7, <1>8, <1>9 DEF Next

(* Admission is strictly first come, first served, for any demands: no     *)
(* bounded grant passes a task that was queued before it.                  *)
THEOREM NobodyOvertaken == Spec => StrictFIFO
<1>1. PoolInv /\ [Next]_vars =>
        [\A t \in Tasks :
           ~Live(t) /\ Live(t)' /\ NeedsBounded(need'[t]) => Overtaken(t) = {}]_vars
  BY GrantsInOrder
<1> QED BY <1>1, PoolInvariant, PTL DEF Spec, StrictFIFO

------------------------------------------------------------------------------
(* f[t] units for each t of S.                                             *)
Units(f, S) == UNION {{t} \X (1 .. f[t]) : t \in S}

(* They are finitely many.                                                 *)
LEMMA UnitsFinite ==
  ASSUME NEW m \in Nat, NEW f \in [Tasks -> 0 .. m], NEW S \in SUBSET Tasks
  PROVE  IsFiniteSet(Units(f, S))
<1>1. IsFiniteSet(1 .. m)
  BY FS_Interval, SMT
<1>2. IsFiniteSet(Tasks \X (1 .. m))
  BY <1>1, TasksFinite, FS_Product
<1>3. \A x \in Tasks : 1 .. f[x] \subseteq 1 .. m
  BY SMT
<1>4. Units(f, S) \in SUBSET (Tasks \X (1 .. m))
  BY <1>3, SMT DEF Units
<1> QED BY <1>2, <1>4, FS_Subset

(* The units of one more are counted by their number.                      *)
LEMMA UnitsAdd ==
  ASSUME NEW m \in Nat, NEW f \in [Tasks -> 0 .. m], NEW S \in SUBSET Tasks, NEW t \in Tasks \ S
  PROVE  Cardinality(Units(f, S \cup {t})) = Cardinality(Units(f, S)) + f[t]
<1> DEFINE U == Units(f, S)
           V == {t} \X (1 .. f[t])
<1>0. f[t] \in Nat
  BY SMT
<1>1. IsFiniteSet({t}) /\ Cardinality({t}) = 1
  BY FS_Singleton
<1>2. IsFiniteSet(1 .. f[t]) /\ Cardinality(1 .. f[t]) = f[t]
  BY <1>0, FS_Interval, SMT
<1>3. IsFiniteSet(V) /\ Cardinality(V) = 1 * f[t]
  <2>1. \A A, B : IsFiniteSet(A) /\ IsFiniteSet(B) =>
          IsFiniteSet(A \X B) /\ Cardinality(A \X B) = Cardinality(A) * Cardinality(B)
    BY FS_Product
  <2>2. PICK A, B : A = {t} /\ B = 1 .. f[t]
    OBVIOUS
  <2>3. IsFiniteSet(A \X B) /\ Cardinality(A \X B) = Cardinality(A) * Cardinality(B)
    BY <1>1, <1>2, <2>1, <2>2
  <2>4. Cardinality(A) = 1 /\ Cardinality(B) = f[t] /\ V = A \X B
    BY <1>1, <1>2, <2>2
  <2> HIDE DEF V
  <2> QED BY <2>3, <2>4
<1>4. IsFiniteSet(U)
  BY UnitsFinite
<1>5. U \cap V = {}
  <2>1. \A u \in U : u[1] \in S
    BY SMT DEF Units
  <2>2. \A u \in V : u[1] = t
    BY SMT
  <2> HIDE DEF U, V
  <2> QED BY <2>1, <2>2
<1>6. Units(f, S \cup {t}) = U \cup V
  BY SMT DEF Units
<1> HIDE DEF U, V
<1>7. Cardinality(U \cup V) = Cardinality(U) + Cardinality(V) - Cardinality(U \cap V)
  BY <1>3, <1>4, FS_Union
<1>8. Cardinality(U \cap V) = 0 /\ Cardinality(U) \in Nat
  BY <1>4, <1>5, FS_EmptySet, FS_CardinalityType
<1>9. Cardinality(U \cup V) = Cardinality(U) + f[t]
  BY <1>0, <1>3, <1>7, <1>8, SMT
<1> QED BY <1>6, <1>9 DEF U

(* They depend on what the tasks of S have.                                *)
LEMMA UnitsSame ==
  ASSUME NEW f, NEW g, NEW S, \A t \in S : f[t] = g[t]
  PROVE  Units(f, S) = Units(g, S)
BY DEF Units

(* How the units that are out change with the grant of one task.           *)
LEMMA OutChanges ==
  ASSUME TypeOK, TypeOK', NEW p \in Pools, NEW t \in Tasks,
         \A u \in Tasks \ {t} : Live(u)' <=> Live(u),
         \A u \in Tasks \ {t} : Live(u) => need'[u] = need[u]
  PROVE  /\ Cardinality(Out(p)) \in Nat /\ Cardinality(Out(p)') \in Nat
         /\ ~Live(t) /\ Live(t)' => Cardinality(Out(p)') = Cardinality(Out(p)) + need'[t][p]
         /\ Live(t) /\ ~Live(t)' => Cardinality(Out(p)) = Cardinality(Out(p)') + need[t][p]
         /\ (Live(t)' <=> Live(t)) /\ (Live(t) => need'[t] = need[t]) =>
              Cardinality(Out(p)') = Cardinality(Out(p))
<1> DEFINE f == [u \in Tasks |-> need[u][p]]
           g == [u \in Tasks |-> need'[u][p]]
           L == LiveTasks
           M == LiveTasks'
<1>1. U64Max \in Nat /\ f \in [Tasks -> 0 .. U64Max] /\ g \in [Tasks -> 0 .. U64Max]
  BY U64MaxNat DEF TypeOK
<1>2. L \in SUBSET Tasks /\ M \in SUBSET Tasks
  BY DEF LiveTasks
<1>3. Out(p) = Units(f, L) /\ Out(p)' = Units(g, M)
  BY DEF Out, Units, LiveTasks
<1>4. \A u \in Tasks : (Live(u) <=> u \in L) /\ (Live(u)' <=> u \in M)
  BY DEF LiveTasks
<1>5. \A u \in L \ {t} : f[u] = g[u]
  BY <1>2, <1>4
<1>6. f[t] = need[t][p] /\ g[t] = need'[t][p]
  OBVIOUS
<1>7. Cardinality(Units(f, L)) \in Nat /\ Cardinality(Units(g, M)) \in Nat
  BY <1>1, <1>2, UnitsFinite, FS_CardinalityType
<1> HIDE DEF f, g, L, M
<1>8. ASSUME ~Live(t), Live(t)' PROVE Cardinality(Units(g, M)) = Cardinality(Units(f, L)) + g[t]
  <2>0. \A u \in Tasks : u \in M <=> u \in L \/ u = t
    BY <1>4, <1>8
  <2>1. M = L \cup {t} /\ t \notin L
    <3>1. M = L \cup {t}
      BY <1>2, <2>0, SMT
    <3> QED BY <1>4, <1>8, <3>1
  <2>2. Units(f, L) = Units(g, L)
    <3>1. \A u \in L : f[u] = g[u]
      BY <1>5, <2>1
    <3> QED BY <3>1, UnitsSame
  <2>3. Cardinality(Units(g, L \cup {t})) = Cardinality(Units(g, L)) + g[t]
    <3>1. L \in SUBSET Tasks /\ t \in Tasks \ L
      BY <1>2, <2>1
    <3> QED BY <1>1, <3>1, UnitsAdd
  <2> QED BY <2>1, <2>2, <2>3
<1>9. ASSUME Live(t), ~Live(t)' PROVE Cardinality(Units(f, L)) = Cardinality(Units(g, M)) + f[t]
  <2>0. \A u \in Tasks : u \in L <=> u \in M \/ u = t
    BY <1>4, <1>9
  <2>1. L = M \cup {t} /\ t \notin M
    <3>1. L = M \cup {t}
      BY <1>2, <2>0, SMT
    <3> QED BY <1>4, <1>9, <3>1
  <2>2. Units(f, M) = Units(g, M)
    <3>1. \A u \in M : f[u] = g[u]
      BY <1>5, <2>1
    <3> QED BY <3>1, UnitsSame
  <2>3. Cardinality(Units(f, M \cup {t})) = Cardinality(Units(f, M)) + f[t]
    <3>1. M \in SUBSET Tasks /\ t \in Tasks \ M
      BY <1>2, <2>1
    <3> QED BY <1>1, <3>1, UnitsAdd
  <2> QED BY <2>1, <2>2, <2>3
<1>10. ASSUME Live(t)' <=> Live(t), Live(t) => need'[t] = need[t]
       PROVE  Units(g, M) = Units(f, L)
  <2>1. M = L
    BY <1>2, <1>4, <1>10
  <2>2. \A u \in L : f[u] = g[u]
    BY <1>4, <1>5, <1>6, <1>10
  <2> QED BY <2>1, <2>2, UnitsSame
<1> QED BY <1>3, <1>6, <1>7, <1>8, <1>9, <1>10

(* In a bounded pool `take' adds what fits, and `give' returns it.         *)
LEMMA TakeExact ==
  ASSUME NEW h \in [Pools -> 0 .. U64Max], NEW n \in [Pools -> 0 .. U64Max],
         NEW p \in Pools, Bounded(p), h[p] <= Capacity[p],
         n[p] # 0 => h[p] + n[p] <= Capacity[p]
  PROVE  Take(h, n)[p] = h[p] + n[p] /\ Give(Take(h, n), n)[p] = h[p]
<1>1. Capacity[p] \in 0 .. U64Max
  BY CapacityType
<1> QED BY <1>1, U64MaxNat, SMT DEF Take, Give

(* A grant on arrival or of the head: its task had none, and it is counted *)
(* as it is handed out.                                                    *)
LEMMA GrantCounted ==
  ASSUME PoolInv, PoolInv', HeldIsWhatIsLive, NEW t \in Tasks, ~Live(t), Live(t)',
         \A u \in Tasks \ {t} : (Live(u)' <=> Live(u)) /\ need'[u] = need[u],
         NEW n \in [Pools -> 0 .. U64Max], need'[t] = n, held' = Take(held, n),
         \A p \in Pools : n[p] # 0 /\ Bounded(p) => held[p] + n[p] <= Capacity[p]
  PROVE  HeldIsWhatIsLive'
<1> SUFFICES ASSUME NEW p \in Pools, Bounded(p) PROVE held'[p] = Cardinality(Out(p)')
  BY DEF HeldIsWhatIsLive
<1>1. held \in [Pools -> 0 .. U64Max] /\ held[p] <= Capacity[p] /\ TypeOK /\ TypeOK'
  BY DEF PoolInv, TypeOK, WithinCapacity
<1>2. held'[p] = held[p] + n[p]
  BY <1>1, TakeExact
<1>3. Cardinality(Out(p)') = Cardinality(Out(p)) + n[p]
  BY <1>1, OutChanges
<1>4. held[p] = Cardinality(Out(p))
  BY DEF HeldIsWhatIsLive
<1> QED BY <1>2, <1>3, <1>4

(* A release: what is returned was out.                                    *)
LEMMA ReleaseCounted ==
  ASSUME PoolInv, PoolInv', HeldIsWhatIsLive, NEW t \in Tasks, Live(t), ~Live(t)', Release(t),
         \A u \in Tasks \ {t} : Live(u)' <=> Live(u)
  PROVE  HeldIsWhatIsLive'
<1> SUFFICES ASSUME NEW p \in Pools, Bounded(p) PROVE held'[p] = Cardinality(Out(p)')
  BY DEF HeldIsWhatIsLive
<1>1. TypeOK /\ TypeOK' /\ need[t] \in [Pools -> 0 .. U64Max]
  BY DEF PoolInv, TypeOK
<1>2. \A u \in Tasks \ {t} : need'[u] = need[u]
  BY <1>1 DEF Release, TypeOK
<1>3. /\ Cardinality(Out(p)) = Cardinality(Out(p)') + need[t][p]
      /\ Cardinality(Out(p)) \in Nat /\ Cardinality(Out(p)') \in Nat
  BY <1>1, <1>2, OutChanges
<1>4. held[p] = Cardinality(Out(p))
  BY DEF HeldIsWhatIsLive
<1>5. held'[p] = IF held[p] >= need[t][p] THEN held[p] - need[t][p] ELSE 0
  BY DEF Release, Give
<1>6. need[t][p] \in Nat
  BY <1>1, U64MaxNat, SMT
<1> QED BY <1>3, <1>4, <1>5, <1>6, SMT

(* Neither.                                                                *)
LEMMA NothingCounted ==
  ASSUME PoolInv, PoolInv', HeldIsWhatIsLive,
         \A u \in Tasks : (Live(u)' <=> Live(u)) /\ (Live(u) => need'[u] = need[u]),
         \A p \in Pools : Bounded(p) => held'[p] = held[p]
  PROVE  HeldIsWhatIsLive'
<1> SUFFICES ASSUME NEW p \in Pools, Bounded(p) PROVE held'[p] = Cardinality(Out(p)')
  BY DEF HeldIsWhatIsLive
<1>1. Cardinality(Out(p)') = Cardinality(Out(p))
  <2>1. Out(p)' = Out(p)
    <3>1. LiveTasks' = LiveTasks
      BY DEF LiveTasks
    <3>2. \A u \in LiveTasks : need'[u] = need[u]
      BY DEF LiveTasks
    <3> QED BY <3>1, <3>2 DEF Out
  <2> QED BY <2>1
<1>2. held[p] = Cardinality(Out(p))
  BY DEF HeldIsWhatIsLive
<1> QED BY <1>1, <1>2

(* Every step of the pool counts what it hands out and takes back.         *)
LEMMA StepCounted ==
  ASSUME PoolInv, PoolInv', HeldIsWhatIsLive, Next
  PROVE  HeldIsWhatIsLive'
<1>0. TypeOK /\ ChannelStates /\ NeverClosed /\ WithinCapacity
  BY DEF PoolInv
<1>1. ASSUME NEW t \in Tasks, NEW d \in Demands, AcquireError(t, d) PROVE HeldIsWhatIsLive'
  <2>1. \A u \in Tasks : (Live(u)' <=> Live(u)) /\ need'[u] = need[u]
    BY <1>0, <1>1 DEF AcquireError, Idle, Live, TypeOK
  <2> QED BY <1>1, <2>1, NothingCounted DEF AcquireError
<1>2. ASSUME NEW t \in Tasks, NEW d \in Demands, GrantNow(t, d) \/ EnqueueFast(t, d)
      PROVE  HeldIsWhatIsLive'
  <2> DEFINE n == Resolve(d)
  <2>1. n \in [Pools -> 0 .. U64Max]
    BY ResolveType
  <2>2. /\ Idle(t) /\ held' = Take(held, n) /\ need' = [need EXCEPT ![t] = n]
        /\ acq' = [acq EXCEPT ![t] = "ready"] /\ rx' = rx
        /\ ~NeedsBounded(n) \/ Fits(held, n)
    BY <1>2 DEF GrantNow, EnqueueFast
  <2> HIDE DEF n
  <2>3. /\ ~Live(t) /\ Live(t)' /\ need'[t] = n
        /\ \A u \in Tasks \ {t} : (Live(u)' <=> Live(u)) /\ need'[u] = need[u]
    BY <1>0, <2>2 DEF Idle, Live, TypeOK, ChannelStates
  <2>4. \A p \in Pools : n[p] # 0 /\ Bounded(p) => held[p] + n[p] <= Capacity[p]
    BY <2>2 DEF NeedsBounded, Fits
  <2> QED BY <2>1, <2>2, <2>3, <2>4, GrantCounted
<1>3. ASSUME NEW t \in Tasks, NEW d \in Demands, EnqueueWait(t, d) PROVE HeldIsWhatIsLive'
  <2>1. \A u \in Tasks : (Live(u)' <=> Live(u)) /\ (Live(u) => need'[u] = need[u])
    BY <1>0, <1>3 DEF EnqueueWait, Idle, Live, TypeOK, ChannelStates
  <2> QED BY <1>3, <2>1, NothingCounted DEF EnqueueWait
<1>4. ASSUME NEW t \in Tasks, PollReady(t) \/ PollGranted(t) PROVE HeldIsWhatIsLive'
  <2>1. \A u \in Tasks : (Live(u)' <=> Live(u)) /\ need'[u] = need[u]
    BY <1>0, <1>4 DEF PollReady, PollGranted, Live, TypeOK
  <2> QED BY <1>4, <2>1, NothingCounted DEF PollReady, PollGranted
<1>5. ASSUME NEW t \in Tasks, DropReservation(t) PROVE HeldIsWhatIsLive'
  <2>1. Live(t) /\ ~Live(t)' /\ \A u \in Tasks \ {t} : Live(u)' <=> Live(u)
    BY <1>0, <1>5 DEF DropReservation, Live, TypeOK, ChannelStates
  <2> QED BY <1>5, <2>1, ReleaseCounted DEF DropReservation
<1>6. ASSUME NEW t \in Tasks, DropGuard(t) PROVE HeldIsWhatIsLive'
  <2>1. \A u \in Tasks : (Live(u)' <=> Live(u)) /\ need'[u] = need[u]
    BY <1>0, <1>6 DEF DropGuard, Live, TypeOK, ChannelStates
  <2> QED BY <1>6, <2>1, NothingCounted DEF DropGuard
<1>7. ASSUME NEW t \in Tasks, DropRx(t) PROVE HeldIsWhatIsLive'
  <2>1. ~Live(t)' /\ (Live(t) <=> rx[t] = "sent") /\ \A u \in Tasks \ {t} : Live(u)' <=> Live(u)
    BY <1>0, <1>7 DEF DropRx, Live, TypeOK
  <2>2. CASE rx[t] = "sent"
    BY <1>7, <2>1, <2>2, ReleaseCounted DEF DropRx
  <2>3. CASE rx[t] # "sent"
    <3>1. held' = held /\ need' = need
      BY <1>7, <2>3 DEF DropRx
    <3> QED BY <2>1, <2>3, <3>1, NothingCounted
  <2> QED BY <2>2, <2>3
<1>8. ASSUME GrantHead PROVE HeldIsWhatIsLive'
  <2>1. PICK t \in Tasks : t = Head(waiters) /\ 1 \in 1 .. Len(waiters) /\ waiters[1] = t
    BY <1>0, <1>8, HeadQueued DEF GrantHead, HeadFits
  <2>2. need[t] \in [Pools -> 0 .. U64Max] /\ held \in [Pools -> 0 .. U64Max]
    BY <1>0 DEF TypeOK
  <2>3. \A p \in Pools : need[t][p] # 0 /\ Bounded(p) => held[p] + need[t][p] <= Capacity[p]
    BY <1>8, <2>1 DEF GrantHead, HeadFits, Fits
  <2>4. need' = need /\ acq' = acq
    BY <1>8 DEF GrantHead
  <2>5. acq[t] \notin {"ready", "holding"}
    BY <1>0, <2>1 DEF ChannelStates
  <2>6. CASE rx[t] = "open"
    <3>1. held' = Take(held, need[t]) /\ rx' = [rx EXCEPT ![t] = "sent"]
      BY <1>8, <2>1, <2>6 DEF GrantHead
    <3>2. ~Live(t) /\ Live(t)' /\ \A u \in Tasks \ {t} : (Live(u)' <=> Live(u)) /\ need'[u] = need[u]
      BY <1>0, <2>4, <2>5, <2>6, <3>1 DEF Live, TypeOK
    <3> QED BY <2>2, <2>3, <2>4, <3>1, <3>2, GrantCounted
  <2>7. CASE rx[t] # "open"
    <3>1. held' = Give(Take(held, need[t]), need[t]) /\ rx' = rx
      BY <1>8, <2>1, <2>7 DEF GrantHead
    <3>2. \A p \in Pools : Bounded(p) => held'[p] = held[p]
      BY <1>0, <2>2, <2>3, <3>1, TakeExact DEF WithinCapacity
    <3>3. \A u \in Tasks : (Live(u)' <=> Live(u)) /\ need'[u] = need[u]
      BY <2>4, <3>1 DEF Live
    <3> QED BY <3>2, <3>3, NothingCounted
  <2> QED BY <2>6, <2>7
<1>9. ASSUME ChainEnd PROVE HeldIsWhatIsLive'
  <2>1. \A u \in Tasks : (Live(u)' <=> Live(u)) /\ need'[u] = need[u]
    BY <1>9 DEF ChainEnd, Live
  <2> QED BY <1>9, <2>1, NothingCounted DEF ChainEnd
<1> QED BY <1>1, <1>2, <1>3, <1>4, <1>5, <1>6, <1>7, <1>8, <1>9 DEF Next

(* The counters say exactly what is out, for any tasks, pools and demands: *)
(* no grant is lost or returned twice, be it sent to nobody, dropped in    *)
(* its channel or cancelled in the queue.                                  *)
THEOREM CountersExact == Spec => []HeldIsWhatIsLive
<1>1. Init => HeldIsWhatIsLive
  <2> SUFFICES ASSUME Init PROVE HeldIsWhatIsLive
    OBVIOUS
  <2>1. LiveTasks = {}
    BY DEF Init, LiveTasks, Live
  <2>2. \A p \in Pools : Out(p) = {}
    BY <2>1 DEF Out
  <2> QED BY <2>2, FS_EmptySet DEF Init, HeldIsWhatIsLive
<1>2. PoolInv /\ PoolInv' /\ HeldIsWhatIsLive /\ [Next]_vars => HeldIsWhatIsLive'
  <2> SUFFICES ASSUME PoolInv, PoolInv', HeldIsWhatIsLive, [Next]_vars PROVE HeldIsWhatIsLive'
    OBVIOUS
  <2>1. CASE UNCHANGED vars
    BY <2>1 DEF vars, HeldIsWhatIsLive, Out, LiveTasks, Live
  <2> QED BY <2>1, StepCounted
<1> QED BY <1>1, <1>2, PoolInvariant, PTL DEF Spec

------------------------------------------------------------------------------
(* How a step on one task shows in the abstract line.                      *)
LEMMA MappedStep ==
  ASSUME NEW t \in Tasks,
         \A u \in Tasks \ {t} :
           (Live(u)' <=> Live(u)) /\ (Queued(u)' <=> Queued(u)) /\ need'[u] = need[u]
  PROVE  /\ Live(t)' => LiveTasks' = LiveTasks \cup {t}
         /\ ~Live(t)' => LiveTasks' = LiveTasks \ {t}
         /\ Live(t)' \/ Queued(t)' => LiveNeed' = [LiveNeed EXCEPT ![t] = need'[t]]
         /\ ~Live(t)' /\ ~Queued(t)' => LiveNeed' = [LiveNeed EXCEPT ![t] = Nothing]
<1>1. Live(t)' => LiveTasks' = LiveTasks \cup {t}
  BY DEF LiveTasks
<1>2. ~Live(t)' => LiveTasks' = LiveTasks \ {t}
  BY DEF LiveTasks
<1>3. Live(t)' \/ Queued(t)' => LiveNeed' = [LiveNeed EXCEPT ![t] = need'[t]]
  BY DEF LiveNeed
<1>4. ~Live(t)' /\ ~Queued(t)' => LiveNeed' = [LiveNeed EXCEPT ![t] = Nothing]
  BY DEF LiveNeed
<1> QED BY <1>1, <1>2, <1>3, <1>4

(* A step that leaves the queue, the live grants and their amounts alone   *)
(* does not show.                                                          *)
LEMMA Unseen ==
  ASSUME waiters' = waiters,
         \A u \in Tasks : (Live(u)' <=> Live(u)) /\ need'[u] = need[u]
  PROVE  UNCHANGED Promise!avars
<1>1. \A u \in Tasks : Queued(u)' <=> Queued(u)
  BY DEF Queued
<1>2. LiveTasks' = LiveTasks
  BY DEF LiveTasks
<1>3. LiveNeed' = LiveNeed
  BY <1>1 DEF LiveNeed
<1> QED BY <1>2, <1>3 DEF Promise!avars

(* A task is not in the queue and live at once, and an idle one is neither.*)
LEMMA Apart ==
  ASSUME PoolInv, NEW t \in Tasks
  PROVE  /\ Queued(t) => ~Live(t)
         /\ Idle(t) => ~Queued(t) /\ ~Live(t)
BY DEF PoolInv, ChannelStates, TypeOK, Queued, Live, Idle

(* What the pool holds is what the abstract line has out.                  *)
LEMMA RoomIsFits ==
  ASSUME HeldIsWhatIsLive, NEW n, Fits(held, n)
  PROVE  Promise!Room(n)
<1>1. ASSUME NEW p \in Pools, Bounded(p) PROVE Promise!Used(p) = held[p]
  <2>1. \A u \in LiveTasks : LiveNeed[u] = need[u]
    BY DEF LiveNeed, LiveTasks
  <2>2. UNION {{u} \X (1 .. LiveNeed[u][p]) : u \in LiveTasks} = Out(p)
    BY <2>1 DEF Out
  <2>3. \A S : Promise!Cardinality(S) = Cardinality(S)
    BY DEF Promise!Cardinality, Cardinality
  <2> QED BY <1>1, <2>2, <2>3 DEF Promise!Used, HeldIsWhatIsLive
<1> QED BY <1>1 DEF Promise!Room, Promise!Limited, Fits

(* A task that is granted on arrival passes the line in the abstract       *)
(* specification too, or finds it empty.                                   *)
LEMMA ArrivalGranted ==
  ASSUME PoolInv, HeldIsWhatIsLive, NEW t \in Tasks, NEW d \in Demands,
         GrantNow(t, d) \/ EnqueueFast(t, d)
  PROVE  Promise!ArriveAndEnter(t, Resolve(d))
<1> DEFINE n == Resolve(d)
<1>1. /\ Idle(t) /\ need' = [need EXCEPT ![t] = n] /\ waiters' = waiters
      /\ acq' = [acq EXCEPT ![t] = "ready"] /\ rx' = rx
      /\ ~NeedsBounded(n) \/ (waiters = << >> /\ Fits(held, n))
  BY DEF GrantNow, EnqueueFast
<1> HIDE DEF n
<1>2. /\ Live(t)' /\ need'[t] = n
      /\ \A u \in Tasks \ {t} :
           (Live(u)' <=> Live(u)) /\ (Queued(u)' <=> Queued(u)) /\ need'[u] = need[u]
  BY <1>1 DEF Live, Queued, PoolInv, TypeOK
<1>3. LiveTasks' = LiveTasks \cup {t} /\ LiveNeed' = [LiveNeed EXCEPT ![t] = n]
  BY <1>2, MappedStep
<1>4. ~Promise!InLine(t) /\ t \notin LiveTasks
  BY <1>1, Apart DEF Promise!InLine, Queued, LiveTasks
<1>5. Promise!Free(n) \/ (waiters = << >> /\ Promise!Room(n))
  BY <1>1, RoomIsFits DEF Promise!Free, Promise!Limited, NeedsBounded
<1> QED BY <1>1, <1>3, <1>4, <1>5 DEF Promise!ArriveAndEnter, n

(* A task that waits joins the line at its end.                            *)
LEMMA ArrivalQueued ==
  ASSUME PoolInv, NEW t \in Tasks, NEW d \in Demands, EnqueueWait(t, d)
  PROVE  Promise!Arrive(t, Resolve(d))
<1> DEFINE n == Resolve(d)
<1>1. /\ Idle(t) /\ need' = [need EXCEPT ![t] = n] /\ waiters' = Append(waiters, t)
      /\ acq' = [acq EXCEPT ![t] = "waiting"] /\ rx' = [rx EXCEPT ![t] = "open"]
      /\ NeedsBounded(n)
  BY DEF EnqueueWait
<1> HIDE DEF n
<1>2. Queued(t)' /\ \A u \in Tasks \ {t} : Queued(u)' <=> Queued(u)
  <2>1. /\ Len(waiters) \in Nat /\ Len(waiters') = Len(waiters) + 1
        /\ waiters'[Len(waiters) + 1] = t
        /\ \A i \in 1 .. Len(waiters) : waiters'[i] = waiters[i]
    BY <1>1, SMT DEF PoolInv, TypeOK
  <2>2. \A i : i \in 1 .. Len(waiters') <=> i \in 1 .. Len(waiters) \/ i = Len(waiters) + 1
    BY <2>1, SMT
  <2> QED BY <2>1, <2>2 DEF Queued
<1>3. ~Live(t) /\ ~Live(t)' /\ need'[t] = n
      /\ \A u \in Tasks \ {t} : (Live(u)' <=> Live(u)) /\ need'[u] = need[u]
  BY <1>1, Apart DEF Live, PoolInv, TypeOK
<1>4. LiveTasks' = LiveTasks \ {t} /\ LiveNeed' = [LiveNeed EXCEPT ![t] = n]
  BY <1>2, <1>3, MappedStep
<1>5. ~Promise!InLine(t) /\ t \notin LiveTasks
  BY <1>1, Apart DEF Promise!InLine, Queued, LiveTasks
<1>6. ~Promise!Free(n)
  BY <1>1 DEF Promise!Free, Promise!Limited, NeedsBounded
<1>7. LiveTasks' = LiveTasks
  BY <1>4, <1>5
<1> QED BY <1>1, <1>4, <1>5, <1>6, <1>7 DEF Promise!Arrive, n

(* The chain admits the head, or finds that it left.                       *)
LEMMA ChainPromised ==
  ASSUME PoolInv, HeldIsWhatIsLive, GrantHead
  PROVE  Promise!Enter \/ \E t \in Tasks : Promise!Leave(t)
<1>0. TypeOK /\ NeverClosed /\ ChannelStates
  BY DEF PoolInv
<1>1. PICK t \in Tasks : t = Head(waiters) /\ 1 \in 1 .. Len(waiters) /\ waiters[1] = t
  BY <1>0, HeadQueued DEF GrantHead, HeadFits
<1>2. /\ waiters # << >> /\ Fits(held, need[t]) /\ waiters' = Tail(waiters)
      /\ need' = need /\ acq' = acq
  BY <1>1 DEF GrantHead, HeadFits
<1>3. Queued(t) /\ ~Live(t)
  BY <1>1, Apart DEF Queued
<1>4. ~Queued(t)' /\ \A u \in Tasks \ {t} : Queued(u)' <=> Queued(u)
  <2>1. /\ Len(waiters) \in Nat /\ Len(waiters') = Len(waiters) - 1
        /\ \A i \in 1 .. Len(waiters') : waiters'[i] = waiters[i + 1]
    BY <1>0, <1>2, SMT DEF TypeOK
  <2>2. \A i \in 1 .. Len(waiters') : i + 1 \in 1 .. Len(waiters) /\ i + 1 # 1
    BY <2>1, SMT
  <2>3. \A j \in 1 .. Len(waiters) : j # 1 => j - 1 \in 1 .. Len(waiters') /\ waiters'[j - 1] = waiters[j]
    BY <2>1, SMT
  <2>4. ASSUME NEW i \in 1 .. Len(waiters'), waiters'[i] = t PROVE FALSE
    <3>1. i + 1 \in 1 .. Len(waiters) /\ i + 1 # 1 /\ waiters[i + 1] = t
      BY <2>1, <2>2, <2>4
    <3>2. \A k, l \in 1 .. Len(waiters) : waiters[k] = waiters[l] => k = l
      BY <1>0 DEF NeverClosed
    <3> QED BY <1>1, <3>1, <3>2
  <2>5. ASSUME NEW u \in Tasks \ {t} PROVE Queued(u)' <=> Queued(u)
    <3>1. Queued(u)' => Queued(u)
      BY <2>1, <2>2 DEF Queued
    <3>2. Queued(u) => Queued(u)'
      BY <1>1, <2>3 DEF Queued
    <3> QED BY <3>1, <3>2
  <2> QED BY <2>4, <2>5 DEF Queued
<1>5. \A u \in Tasks \ {t} : (Live(u)' <=> Live(u)) /\ need'[u] = need[u]
  BY <1>0, <1>1, <1>2 DEF GrantHead, Live, TypeOK
<1>6. LiveNeed[t] = need[t]
  BY <1>3 DEF LiveNeed
<1>7. CASE rx[t] = "open"
  <2>1. Live(t)'
    BY <1>0, <1>1, <1>7 DEF GrantHead, Live, TypeOK
  <2>2. LiveTasks' = LiveTasks \cup {t} /\ LiveNeed' = [LiveNeed EXCEPT ![t] = need[t]]
    BY <1>2, <1>4, <1>5, <2>1, MappedStep
  <2>3. LiveNeed' = LiveNeed
    BY <1>6, <2>2 DEF LiveNeed
  <2>4. Promise!Room(LiveNeed[Head(waiters)])
    BY <1>1, <1>2, <1>6, RoomIsFits
  <2> QED BY <1>1, <1>2, <2>2, <2>3, <2>4 DEF Promise!Enter
<1>8. CASE rx[t] # "open"
  <2>1. ~Live(t)'
    BY <1>1, <1>2, <1>3, <1>8 DEF GrantHead, Live
  <2>2. LiveTasks' = LiveTasks \ {t} /\ LiveNeed' = [LiveNeed EXCEPT ![t] = Nothing]
    BY <1>4, <1>5, <2>1, MappedStep
  <2>3. LiveTasks' = LiveTasks
    BY <1>3, <2>2 DEF LiveTasks
  <2>4. waiters' = [i \in 1 .. Len(waiters) - 1 |-> IF i < 1 THEN waiters[i] ELSE waiters[i + 1]]
    <3> DEFINE w == [i \in 1 .. Len(waiters) - 1 |-> IF i < 1 THEN waiters[i] ELSE waiters[i + 1]]
    <3>1. Len(waiters) - 1 \in Nat /\ \A i \in 1 .. Len(waiters) - 1 : w[i] = waiters[i + 1] /\ w[i] \in Tasks
      BY <1>0, <1>2, SMT DEF TypeOK
    <3>2. w \in Seq(Tasks) /\ Len(w) = Len(waiters) - 1
      BY <3>1, SMT
    <3>3. /\ waiters' \in Seq(Tasks) /\ Len(waiters') = Len(waiters) - 1
          /\ \A i \in 1 .. Len(waiters') : waiters'[i] = waiters[i + 1]
      BY <1>0, <1>2, HeadQueued
    <3> HIDE DEF w
    <3>4. waiters' = w
      BY <3>1, <3>2, <3>3, SeqEqual
    <3> QED BY <3>4 DEF w
  <2>5. Promise!Leave(t)
    BY <1>1, <2>2, <2>3, <2>4 DEF Promise!Leave, Promise!Nil
  <2> QED BY <2>5
<1> QED BY <1>7, <1>8

(* A waiter that is cancelled leaves the line; one whose grant was sent is *)
(* out already, and its cancellation does not show.                        *)
LEMMA CancelPromised ==
  ASSUME PoolInv, NEW t \in Tasks, DropGuard(t)
  PROVE  Promise!Leave(t) \/ UNCHANGED Promise!avars
<1>0. TypeOK /\ NeverClosed /\ ChannelStates
  BY DEF PoolInv
<1>1. /\ acq[t] \in {"waiting", "rx_dropped"} /\ need' = need
      /\ waiters' = Without(waiters, t)
      /\ \A u \in Tasks : Live(u)' <=> Live(u)
  BY <1>0 DEF DropGuard, Cancel, Live, TypeOK, ChannelStates
<1>2. CASE ~Queued(t)
  <2>1. waiters' = waiters
    BY <1>1, <1>2 DEF Without, Queued
  <2> QED BY <1>1, <2>1, Unseen
<1>3. CASE Queued(t)
  <2>1. PICK k \in 1 .. Len(waiters) :
          /\ waiters[k] = t
          /\ waiters' = [i \in 1 .. Len(waiters) - 1 |-> IF i < k THEN waiters[i] ELSE waiters[i + 1]]
    <3> DEFINE k == CHOOSE i \in 1 .. Len(waiters) : waiters[i] = t
    <3>1. k \in 1 .. Len(waiters) /\ waiters[k] = t
      BY <1>3 DEF Queued
    <3>2. waiters' = [i \in 1 .. Len(waiters) - 1 |-> IF i < k THEN waiters[i] ELSE waiters[i + 1]]
      BY <1>1, <1>3 DEF Without, Queued
    <3> HIDE DEF k
    <3> QED BY <3>1, <3>2
  <2>2. Removed(waiters', waiters, t)
    <3>1. waiters \in Seq(Tasks) /\ Distinct(waiters)
      BY <1>0 DEF TypeOK, NeverClosed, Distinct
    <3> QED BY <1>1, <3>1, WithoutProperties
  <2>3. ~Queued(t)' /\ \A u \in Tasks \ {t} : Queued(u)' <=> Queued(u)
    <3>1. ~Queued(t)'
      BY <2>2 DEF Removed, Queued
    <3>2. ASSUME NEW u \in Tasks \ {t} PROVE Queued(u)' => Queued(u)
      BY <2>2 DEF Removed, Queued
    <3>3. ASSUME NEW u \in Tasks \ {t} PROVE Queued(u) => Queued(u)'
      BY <2>2 DEF Removed, Queued
    <3> QED BY <3>1, <3>2, <3>3
  <2>4. ~Live(t) /\ ~Live(t)'
    BY <1>1, <1>3, Apart
  <2>5. LiveTasks' = LiveTasks \ {t} /\ LiveNeed' = [LiveNeed EXCEPT ![t] = Nothing]
    BY <1>1, <2>3, <2>4, MappedStep
  <2>6. LiveTasks' = LiveTasks
    BY <2>4, <2>5 DEF LiveTasks
  <2> QED BY <2>1, <2>5, <2>6 DEF Promise!Leave, Promise!Nil
<1> QED BY <1>2, <1>3

(* A release, of a reservation or of a grant nobody will read.             *)
LEMMA ReleasePromised ==
  ASSUME PoolInv, NEW t \in Tasks, Live(t), ~Live(t)', Release(t), waiters' = waiters,
         \A u \in Tasks \ {t} : Live(u)' <=> Live(u)
  PROVE  Promise!Return(t)
<1>1. \A u \in Tasks \ {t} : need'[u] = need[u]
  BY DEF Release, PoolInv, TypeOK
<1>2. \A u \in Tasks : Queued(u)' <=> Queued(u)
  BY DEF Queued
<1>3. ~Queued(t) /\ ~Queued(t)'
  BY <1>2, Apart
<1>4. LiveTasks' = LiveTasks \ {t} /\ LiveNeed' = [LiveNeed EXCEPT ![t] = Nothing]
  BY <1>1, <1>2, <1>3, MappedStep
<1> QED BY <1>4 DEF Promise!Return, Promise!Nil, LiveTasks

(* Every step of the pool is a step of the abstract line, or invisible.    *)
LEMMA StepPromised ==
  ASSUME PoolInv, HeldIsWhatIsLive, [Next]_vars
  PROVE  [Promise!ANext]_(Promise!avars)
<1>0. TypeOK /\ ChannelStates /\ NeverClosed
  BY DEF PoolInv
<1>1. ASSUME NEW t \in Tasks, NEW d \in Demands, AcquireError(t, d) PROVE UNCHANGED Promise!avars
  <2>1. waiters' = waiters /\ \A u \in Tasks : (Live(u)' <=> Live(u)) /\ need'[u] = need[u]
    BY <1>0, <1>1 DEF AcquireError, Idle, Live, TypeOK
  <2> QED BY <2>1, Unseen
<1>2. ASSUME NEW t \in Tasks, NEW d \in Demands, GrantNow(t, d) \/ EnqueueFast(t, d)
      PROVE  Promise!ANext
  BY <1>2, ArrivalGranted DEF Promise!ANext
<1>3. ASSUME NEW t \in Tasks, NEW d \in Demands, EnqueueWait(t, d) PROVE Promise!ANext
  BY <1>3, ArrivalQueued DEF Promise!ANext
<1>4. ASSUME NEW t \in Tasks, PollReady(t) \/ PollGranted(t) PROVE UNCHANGED Promise!avars
  <2>1. waiters' = waiters /\ \A u \in Tasks : (Live(u)' <=> Live(u)) /\ need'[u] = need[u]
    BY <1>0, <1>4 DEF PollReady, PollGranted, Live, TypeOK
  <2> QED BY <2>1, Unseen
<1>5. ASSUME NEW t \in Tasks, DropReservation(t) PROVE Promise!ANext
  <2>1. Live(t) /\ ~Live(t)' /\ \A u \in Tasks \ {t} : Live(u)' <=> Live(u)
    BY <1>0, <1>5 DEF DropReservation, Live, TypeOK, ChannelStates
  <2>2. Promise!Return(t)
    BY <1>5, <2>1, ReleasePromised DEF DropReservation
  <2> QED BY <2>2 DEF Promise!ANext
<1>6. ASSUME NEW t \in Tasks, DropGuard(t) PROVE [Promise!ANext]_(Promise!avars)
  BY <1>6, CancelPromised DEF Promise!ANext
<1>7. ASSUME NEW t \in Tasks, DropRx(t) PROVE [Promise!ANext]_(Promise!avars)
  <2>1. /\ waiters' = waiters /\ ~Live(t)' /\ (Live(t) <=> rx[t] = "sent")
        /\ \A u \in Tasks \ {t} : Live(u)' <=> Live(u)
    BY <1>0, <1>7 DEF DropRx, Live, TypeOK
  <2>2. CASE rx[t] = "sent"
    <3>1. Promise!Return(t)
      BY <1>7, <2>1, <2>2, ReleasePromised DEF DropRx
    <3> QED BY <3>1 DEF Promise!ANext
  <2>3. CASE rx[t] # "sent"
    <3>1. need' = need
      BY <1>7, <2>3 DEF DropRx
    <3> QED BY <2>1, <2>3, <3>1, Unseen
  <2> QED BY <2>2, <2>3
<1>8. ASSUME GrantHead PROVE Promise!ANext
  BY <1>8, ChainPromised DEF Promise!ANext
<1>9. ASSUME ChainEnd \/ UNCHANGED vars PROVE UNCHANGED Promise!avars
  <2>1. waiters' = waiters /\ \A u \in Tasks : (Live(u)' <=> Live(u)) /\ need'[u] = need[u]
    BY <1>9 DEF ChainEnd, vars, Live
  <2> QED BY <2>1, Unseen
<1> QED BY <1>1, <1>2, <1>3, <1>4, <1>5, <1>6, <1>7, <1>8, <1>9 DEF Next

(* The pool implements the abstract line, for any finite set of tasks and  *)
(* any pools, capacities and demands: counters, channels and drops in      *)
(* either order never show more than requests served in order, each        *)
(* admitted whole, and never more out than a limit.                        *)
THEOREM PoolKeepsPromise == Spec => ImplementsAdmission
<1>1. Init => Promise!AInit
  <2> SUFFICES ASSUME Init PROVE Promise!AInit
    OBVIOUS
  <2>1. \A u \in Tasks : ~Live(u) /\ need[u] = Nothing
    BY DEF Init, Live
  <2>2. LiveTasks = {} /\ LiveNeed = [u \in Tasks |-> Nothing]
    BY <2>1 DEF LiveTasks, LiveNeed
  <2> QED BY <2>2 DEF Init, Promise!AInit, Promise!Nil
<1>2. PoolInv /\ HeldIsWhatIsLive /\ [Next]_vars => [Promise!ANext]_(Promise!avars)
  BY StepPromised
<1> QED BY <1>1, <1>2, PoolInvariant, CountersExact, PTL DEF Spec, ImplementsAdmission, Promise!ASpec

------------------------------------------------------------------------------
USE DEF Active, Ended, Jobs

(* The initial states satisfy the inductive invariant.                     *)
LEMMA InitGate == GateInit => GateInv
BY GateAssumption, SMT
   DEF GateInit, GateInv, GateTypeOK, HolderIsCurrent, ClaimsDiffer, QueuedWhen, WalkLock, WalkFree, LiveTree

(* Each step of a run, and of a removal, preserves it.                     *)
LEMMA StepGate ==
  ASSUME GateInv, NEW r \in Runs, Step(r)
  PROVE  GateInv'
<1> USE GateAssumption DEF GateInv, GateTypeOK, Goto, ToPre, ToPost, Complete, FailsAt
<1>1. CASE Claim(r)
  BY <1>1, SMTT(30) DEF Claim, HolderIsCurrent, ClaimsDiffer, QueuedWhen, WalkLock, WalkFree, LiveTree
<1>2. CASE Prepare(r)
  BY <1>2, SMTT(30) DEF Prepare, HolderIsCurrent, ClaimsDiffer, QueuedWhen, WalkLock, WalkFree, LiveTree
<1>3. CASE Create(r)
  BY <1>3, SMTT(30) DEF Create, HolderIsCurrent, ClaimsDiffer, QueuedWhen, WalkLock, WalkFree, LiveTree
<1>4. CASE Respond(r)
  BY <1>4, SMTT(30) DEF Respond, HolderIsCurrent, ClaimsDiffer, QueuedWhen, WalkLock, WalkFree, LiveTree
<1>5. CASE Cached(r)
  BY <1>5, SMTT(30) DEF Cached, HolderIsCurrent, ClaimsDiffer, QueuedWhen, WalkLock, WalkFree, LiveTree
<1>6. CASE Fail(r)
  BY <1>6, SMTT(30) DEF Fail, HolderIsCurrent, ClaimsDiffer, QueuedWhen, WalkLock, WalkFree, LiveTree
<1>7. CASE Reclaim(r)
  BY <1>7, SMTT(30) DEF Reclaim, HolderIsCurrent, ClaimsDiffer, QueuedWhen, WalkLock, WalkFree, LiveTree
<1>8. CASE StartWalk(r)
  <2>1. GateTypeOK'
    BY <1>8, SMTT(30) DEF StartWalk
  <2>2. HolderIsCurrent'
    BY <1>8 DEF StartWalk, HolderIsCurrent
  <2>3. ClaimsDiffer'
    BY <1>8 DEF StartWalk, ClaimsDiffer
  <2>4. QueuedWhen'
    BY <1>8, SMTT(30) DEF StartWalk, HolderIsCurrent, QueuedWhen
  <2>5. WalkLock'
    BY <1>8, SMTT(30) DEF StartWalk, WalkLock
  <2>6. WalkFree'
    BY <1>8, SMTT(30) DEF StartWalk, HolderIsCurrent, ClaimsDiffer, QueuedWhen, WalkLock, WalkFree
  <2>7. LiveTree'
    BY <1>8 DEF StartWalk, HolderIsCurrent, QueuedWhen, WalkLock, WalkFree, LiveTree
  <2>q. QED
    BY <2>1, <2>2, <2>3, <2>4, <2>5, <2>6, <2>7, SMTT(30)
<1>9. CASE Decline(r)
  <2>1. GateTypeOK'
    BY <1>9 DEF Decline
  <2>2. HolderIsCurrent'
    BY <1>9 DEF Decline, HolderIsCurrent
  <2>3. ClaimsDiffer'
    BY <1>9 DEF Decline, ClaimsDiffer
  <2>4. QueuedWhen'
    BY <1>9, SMTT(30) DEF Decline, HolderIsCurrent, QueuedWhen
  <2>5. WalkLock'
    BY <1>9, SMTT(30) DEF Decline, WalkLock
  <2>6. WalkFree'
    BY <1>9 DEF Decline, HolderIsCurrent, ClaimsDiffer, QueuedWhen, WalkLock, WalkFree
  <2>7. LiveTree'
    BY <1>9 DEF Decline, HolderIsCurrent, QueuedWhen, WalkLock, WalkFree, LiveTree
  <2>q. QED
    BY <2>1, <2>2, <2>3, <2>4, <2>5, <2>6, <2>7
<1>10. CASE EndWalk(r)
  <2>1. GateTypeOK'
    BY <1>10 DEF EndWalk
  <2>2. HolderIsCurrent'
    BY <1>10 DEF EndWalk, HolderIsCurrent
  <2>3. ClaimsDiffer'
    BY <1>10 DEF EndWalk, ClaimsDiffer
  <2>4. QueuedWhen'
    BY <1>10, SMTT(30) DEF EndWalk, HolderIsCurrent, QueuedWhen
  <2>5. WalkLock'
    BY <1>10, SMTT(30) DEF EndWalk, WalkLock
  <2>6. WalkFree'
    BY <1>10 DEF EndWalk, HolderIsCurrent, ClaimsDiffer, QueuedWhen, WalkLock, WalkFree
  <2>7. LiveTree'
    BY <1>10, SMTT(30) DEF EndWalk, HolderIsCurrent, QueuedWhen, WalkLock, WalkFree, LiveTree
  <2>q. QED
    BY <2>1, <2>2, <2>3, <2>4, <2>5, <2>6, <2>7, SMTT(30)
<1>11. CASE FailWalk(r)
  BY <1>11, SMTT(30) DEF FailWalk, HolderIsCurrent, ClaimsDiffer, QueuedWhen, WalkLock, WalkFree, LiveTree
<1> HIDE DEF GateInv, GateTypeOK, Goto, ToPre, ToPost, Complete, FailsAt
<1>q. QED
  BY <1>1, <1>2, <1>3, <1>4, <1>5, <1>6, <1>7, <1>8, <1>9, <1>10, <1>11 DEF Step

(* The inductive invariant: the holder of the execute lock has the current *)
(* claim, and nothing walks the directory once its own removal is over.    *)
THEOREM GateInvariant == GateSpec => []GateInv
<1>1. GateInv /\ [GateNext]_gateVars => GateInv'
  <2> SUFFICES ASSUME GateInv, [GateNext]_gateVars PROVE GateInv'
    OBVIOUS
  <2>1. CASE UNCHANGED gateVars
    BY <2>1, SMTT(30) DEF gateVars, GateInv, GateTypeOK, HolderIsCurrent, ClaimsDiffer, QueuedWhen,
                WalkLock, WalkFree, LiveTree
  <2>q. QED
    BY <2>1, StepGate DEF GateNext, Rest
<1>q. QED
  BY InitGate, <1>1, PTL DEF GateSpec

(* No removal deletes the tree of a run that is using it.                  *)
THEOREM LiveTreeStays == GateSpec => []LiveTree
<1>1. GateInv => LiveTree
  BY DEF GateInv
<1>q. QED
  BY GateInvariant, <1>1, PTL

(* A failed run's jobs are over: it queued none, and its stale removal     *)
(* ended before it failed.                                                 *)
LEMMA StepQuiet ==
  ASSUME GateInv, FailedQuiet, NEW r \in Runs, Step(r)
  PROVE  FailedQuiet'
<1> USE GateAssumption DEF GateInv, GateTypeOK, Goto, ToPre, ToPost, Complete, FailsAt, FailedQuiet
<1>1. CASE Claim(r)
  BY <1>1, SMTT(30) DEF Claim, HolderIsCurrent, ClaimsDiffer, QueuedWhen, WalkLock, WalkFree
<1>2. CASE Prepare(r)
  BY <1>2, SMTT(30) DEF Prepare, HolderIsCurrent, ClaimsDiffer, QueuedWhen, WalkLock, WalkFree
<1>3. CASE Create(r)
  BY <1>3, SMTT(30) DEF Create, HolderIsCurrent, ClaimsDiffer, QueuedWhen, WalkLock, WalkFree
<1>4. CASE Respond(r)
  BY <1>4, SMTT(30) DEF Respond, HolderIsCurrent, ClaimsDiffer, QueuedWhen, WalkLock, WalkFree
<1>5. CASE Cached(r)
  BY <1>5, SMTT(30) DEF Cached, HolderIsCurrent, ClaimsDiffer, QueuedWhen, WalkLock, WalkFree
<1>6. CASE Fail(r)
  BY <1>6, SMTT(30) DEF Fail, HolderIsCurrent, ClaimsDiffer, QueuedWhen, WalkLock, WalkFree
<1>7. CASE Reclaim(r)
  BY <1>7, SMTT(30) DEF Reclaim, HolderIsCurrent, ClaimsDiffer, QueuedWhen, WalkLock, WalkFree
<1>8. CASE StartWalk(r)
  BY <1>8, SMTT(30) DEF StartWalk, HolderIsCurrent, ClaimsDiffer, QueuedWhen, WalkLock, WalkFree
<1>9. CASE Decline(r)
  BY <1>9, SMTT(30) DEF Decline, HolderIsCurrent, ClaimsDiffer, QueuedWhen, WalkLock, WalkFree
<1>10. CASE EndWalk(r)
  BY <1>10, SMTT(30) DEF EndWalk, HolderIsCurrent, ClaimsDiffer, QueuedWhen, WalkLock, WalkFree
<1>11. CASE FailWalk(r)
  BY <1>11, SMTT(30) DEF FailWalk, HolderIsCurrent, ClaimsDiffer, QueuedWhen, WalkLock, WalkFree
<1> HIDE DEF GateInv, GateTypeOK, Goto, ToPre, ToPost, Complete, FailsAt, FailedQuiet
<1>q. QED
  BY <1>1, <1>2, <1>3, <1>4, <1>5, <1>6, <1>7, <1>8, <1>9, <1>10, <1>11 DEF Step

(* A failed run's tree stays until the target's next run: only a walk      *)
(* removes it, and none runs while the failed run's claim is current.      *)
THEOREM FailedTreeStays == GateSpec => KeptForDiagnostics
<1>1. GateInit => FailedQuiet
  BY DEF GateInit, FailedQuiet
<1>2. GateInv /\ FailedQuiet /\ [GateNext]_gateVars => FailedQuiet'
  <2> SUFFICES ASSUME GateInv, FailedQuiet, [GateNext]_gateVars PROVE FailedQuiet'
    OBVIOUS
  <2>1. CASE UNCHANGED gateVars
    BY <2>1 DEF gateVars, FailedQuiet
  <2>q. QED
    BY <2>1, StepQuiet DEF GateNext, Rest
<1>3. GateSpec => []FailedQuiet
  BY GateInvariant, <1>1, <1>2, PTL DEF GateSpec
<1> DEFINE Kept(r) ==
      pc[r] = "failed" /\ tree = claimed[r] /\ tree' # tree => claimed[r] # generation
<1>4. ASSUME GateInv, FailedQuiet, [GateNext]_gateVars PROVE \A r \in Runs \ Material : Kept(r)
  <2> SUFFICES ASSUME NEW r \in Runs \ Material, pc[r] = "failed", tree' # tree, claimed[r] = generation
               PROVE  FALSE
    OBVIOUS
  <2>1. walk = None
    BY <1>4 DEF FailedQuiet
  <2>2. PICK s \in Runs : Step(s)
    BY <1>4 DEF GateNext, Rest, gateVars
  <2>3. Create(s)
    BY <2>1, <2>2, GateAssumption
       DEF Step, Claim, Prepare, Respond, Cached, Fail, Reclaim, StartWalk, Decline, EndWalk, FailWalk
  <2>q. QED
    BY <2>3, <1>4 DEF Create, GateInv, GateTypeOK, HolderIsCurrent, ClaimsDiffer
<1>5. GateInv /\ FailedQuiet /\ [GateNext]_gateVars => [\A r \in Runs \ Material : Kept(r)]_gateVars
  BY <1>4
<1> HIDE DEF Kept
<1>6. GateSpec => [][\A r \in Runs \ Material : Kept(r)]_gateVars
  BY GateInvariant, <1>3, <1>5, PTL DEF GateSpec
<1>q. QED
  BY <1>6 DEF Kept, KeptForDiagnostics
==============================================================================
