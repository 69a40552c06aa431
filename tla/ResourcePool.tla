---------------------------- MODULE ResourcePool ----------------------------
(***************************************************************************)
(* The execute-admission pool (crates/engine/src/engine/resource_pool.rs). *)
(* A target runs only once what it reserves fits in every pool it names.   *)
(*                                                                         *)
(* One Lane holds, under one mutex, the amount held per pool and one FIFO  *)
(* of waiters.  `chain' is TRUE while some thread is inside the critical   *)
(* section running grant_chain: every operation that needs the mutex waits *)
(* for it, while a receiver may already observe a grant that was sent.     *)
(* The BTreeMap keyed by next_seq is the sequence of its values.           *)
(***************************************************************************)
EXTENDS Integers, Sequences, FiniteSets

CONSTANTS
  Tasks,        \* the spawned tasks that acquire; each may do so repeatedly
  Pools,        \* the pools of the lane
  CPU,          \* the pool an undeclared demand draws one CPU from
  Unbounded,    \* Limit::Unbounded
  Capacity,     \* pool -> Limit
  DefaultCpu,   \* Resources::DEFAULT_CPU_MICROS
  Demands,      \* the requests: functions from pool names to amounts
  U64Max        \* u64::MAX

ASSUME TasksFinite == IsFiniteSet(Tasks)
ASSUME CpuIsAPool == CPU \in Pools
ASSUME UnboundedNotNat == Unbounded \notin Nat
ASSUME U64MaxNat == U64Max \in Nat
ASSUME CapacityType == Capacity \in [Pools -> (0 .. U64Max) \cup {Unbounded}]
ASSUME DefaultCpuType == DefaultCpu \in 1 .. U64Max
ASSUME DemandsType ==
  \A d \in Demands : \A p \in DOMAIN d : d[p] \in 0 .. U64Max

VARIABLES
  held,      \* State::held
  waiters,   \* State::waiters, in arrival order
  chain,     \* the mutex is held and grant_chain has not returned
  acq,       \* per task: where its Acquire or Reservation is
  need,      \* per task: what its request resolved to, 0 for a pool not named
  rx         \* per task: its oneshot: "none", "open", "sent" or "closed"

vars == <<held, waiters, chain, acq, need, rx>>

Bounded(p) == Capacity[p] # Unbounded
Nothing == [p \in Pools |-> 0]

(* What request d asks of pool p, the undeclared cpu default included.     *)
Amount(d, p) ==
  CASE p \in DOMAIN d -> d[p]
    [] p = CPU /\ p \notin DOMAIN d -> DefaultCpu
    [] OTHER -> 0

(* The pools resolve looks at: Lane::grant checks even a zero amount.      *)
Named(d) == DOMAIN d \cup {CPU}

(* UnknownPool or ZeroCapacity.                                            *)
Refused(d) == \E p \in Named(d) : p \notin Pools \/ Capacity[p] = 0

Resolve_unclamped(d) ==   \* mutant: a demand above the capacity is kept
  [p \in Pools |-> Amount(d, p)]

(* Lane::grant over every named pool: a bounded amount is clamped.         *)
Resolve(d) ==
  [p \in Pools |->
     IF Bounded(p) /\ Amount(d, p) > Capacity[p]
       THEN Capacity[p] ELSE Amount(d, p)]

Fits_ignoresHeld(h, n) ==   \* mutant: compares with the capacity, not with what is free
  \A p \in Pools : Bounded(p) => n[p] <= Capacity[p]

Fits(h, n) ==
  \A p \in Pools : n[p] # 0 /\ Bounded(p) => h[p] + n[p] <= Capacity[p]

Take_noSaturation(h, n) ==   \* mutant: a plain add
  [p \in Pools |-> h[p] + n[p]]

Take(h, n) ==
  [p \in Pools |-> IF h[p] + n[p] > U64Max THEN U64Max ELSE h[p] + n[p]]

Give(h, n) ==
  [p \in Pools |-> IF h[p] >= n[p] THEN h[p] - n[p] ELSE 0]

(* Removal by key: a task has at most one entry.                           *)
Without(s, t) ==
  IF \E i \in 1 .. Len(s) : s[i] = t
    THEN LET k == CHOOSE i \in 1 .. Len(s) : s[i] = t
         IN [i \in 1 .. (Len(s) - 1) |-> IF i < k THEN s[i] ELSE s[i + 1]]
    ELSE s

Queued(t) == \E i \in 1 .. Len(waiters) : waiters[i] = t

-----------------------------------------------------------------------------
Init ==
  /\ held = Nothing
  /\ waiters = << >>
  /\ chain = FALSE
  /\ acq = [t \in Tasks |-> "idle"]
  /\ need = [t \in Tasks |-> Nothing]
  /\ rx = [t \in Tasks |-> "none"]

(* A task that acquires: a new one, or the one after a target that ended.  *)
Idle(t) == acq[t] \in {"idle", "failed"}

(* acquire returns an error: nothing is taken.                             *)
AcquireError(t, d) ==
  /\ Idle(t) /\ Refused(d)
  /\ acq' = [acq EXCEPT ![t] = "failed"]
  /\ UNCHANGED <<held, waiters, chain, need, rx>>

NeedsBounded(n) == \E p \in Pools : n[p] # 0 /\ Bounded(p)

(* Granted past the queue; an empty need takes no lock.                    *)
GrantNow(t, d) ==
  LET n == Resolve(d) IN
  /\ Idle(t) /\ ~Refused(d) /\ ~NeedsBounded(n)
  /\ chain => n = Nothing
  /\ held' = Take(held, n)
  /\ need' = [need EXCEPT ![t] = n]
  /\ acq' = [acq EXCEPT ![t] = "ready"]
  /\ UNCHANGED <<waiters, chain, rx>>

EnqueueFast_pastQueue(t, d) ==   \* mutant: the fast path forgets the queue
  LET n == Resolve(d) IN
  /\ Idle(t) /\ ~chain /\ ~Refused(d) /\ NeedsBounded(n)
  /\ Fits(held, n)
  /\ held' = Take(held, n)
  /\ need' = [need EXCEPT ![t] = n]
  /\ acq' = [acq EXCEPT ![t] = "ready"]
  /\ UNCHANGED <<waiters, chain, rx>>

(* The arrival fast path: only when nobody queues.                         *)
EnqueueFast(t, d) ==
  LET n == Resolve(d) IN
  /\ Idle(t) /\ ~chain /\ ~Refused(d) /\ NeedsBounded(n)
  /\ waiters = << >> /\ Fits(held, n)
  /\ held' = Take(held, n)
  /\ need' = [need EXCEPT ![t] = n]
  /\ acq' = [acq EXCEPT ![t] = "ready"]
  /\ UNCHANGED <<waiters, chain, rx>>

EnqueueWait_atFront(t, d) ==   \* mutant: the sequence numbers count down
  LET n == Resolve(d) IN
  /\ Idle(t) /\ ~chain /\ ~Refused(d) /\ NeedsBounded(n)
  /\ ~(waiters = << >> /\ Fits(held, n))
  /\ waiters' = <<t>> \o waiters
  /\ need' = [need EXCEPT ![t] = n]
  /\ acq' = [acq EXCEPT ![t] = "waiting"]
  /\ rx' = [rx EXCEPT ![t] = "open"]
  /\ chain' = TRUE
  /\ UNCHANGED held

(* The arrival queues, and the chain runs: the head may be itself.         *)
EnqueueWait(t, d) ==
  LET n == Resolve(d) IN
  /\ Idle(t) /\ ~chain /\ ~Refused(d) /\ NeedsBounded(n)
  /\ ~(waiters = << >> /\ Fits(held, n))
  /\ waiters' = Append(waiters, t)
  /\ need' = [need EXCEPT ![t] = n]
  /\ acq' = [acq EXCEPT ![t] = "waiting"]
  /\ rx' = [rx EXCEPT ![t] = "open"]
  /\ chain' = TRUE
  /\ UNCHANGED held

HeadFits == waiters # << >> /\ Fits(held, need[Head(waiters)])

GrantHead_keepsFailedSend ==   \* mutant: a failed send is not given back
  /\ chain /\ HeadFits
  /\ waiters' = Tail(waiters)
  /\ held' = Take(held, need[Head(waiters)])
  /\ rx' = [rx EXCEPT ![Head(waiters)] = IF @ = "open" THEN "sent" ELSE @]
  /\ UNCHANGED <<chain, acq, need>>

(* One turn of grant_chain's loop: the head fits.  A send to a receiver    *)
(* that is gone hands the grant back, and its amounts are re-added.        *)
GrantHead ==
  /\ chain /\ HeadFits
  /\ LET t == Head(waiters) IN
     /\ waiters' = Tail(waiters)
     /\ \/ /\ rx[t] = "open"
           /\ held' = Take(held, need[t])
           /\ rx' = [rx EXCEPT ![t] = "sent"]
        \/ /\ rx[t] # "open"
           /\ held' = Give(Take(held, need[t]), need[t])
           /\ UNCHANGED rx
  /\ UNCHANGED <<chain, acq, need>>

(* grant_chain returns and the mutex is released.                          *)
ChainEnd ==
  /\ chain /\ ~HeadFits
  /\ chain' = FALSE
  /\ UNCHANGED <<held, waiters, acq, need, rx>>

(* Acquire::poll answers with the grant.                                   *)
PollReady(t) ==
  /\ acq[t] = "ready"
  /\ acq' = [acq EXCEPT ![t] = "holding"]
  /\ UNCHANGED <<held, waiters, chain, need, rx>>

PollGranted(t) ==
  /\ acq[t] = "waiting" /\ rx[t] = "sent"
  /\ acq' = [acq EXCEPT ![t] = "holding"]
  /\ rx' = [rx EXCEPT ![t] = "none"]
  /\ UNCHANGED <<held, waiters, chain, need>>

(* Lane::release of what t was granted: an empty grant returns at once.    *)
Release(t) ==
  /\ need[t] # Nothing => ~chain
  /\ held' = Give(held, need[t])
  /\ chain' = (chain \/ need[t] # Nothing)
  /\ need' = [need EXCEPT ![t] = Nothing]

(* The Reservation drops: the target is done, or was aborted between the   *)
(* grant and the first poll.                                               *)
DropReservation(t) ==
  /\ acq[t] \in {"holding", "ready"}
  /\ Release(t)
  /\ acq' = [acq EXCEPT ![t] = "idle"]
  /\ UNCHANGED <<waiters, rx>>

Cancel_noChain(t) ==   \* mutant: a cancelled head does not admit its follower
  /\ ~chain
  /\ waiters' = Without(waiters, t)
  /\ UNCHANGED chain
Cancel_staysQueued(t) ==   \* mutant: the waiter is never removed
  /\ ~chain
  /\ UNCHANGED <<waiters, chain>>

(* A waiting Acquire is aborted: its two fields drop one after the other,  *)
(* and either order is to be sound.  WaitGuard::drop cancels; the entry is *)
(* gone once the grant was sent.                                           *)
Cancel(t) ==
  /\ ~chain
  /\ waiters' = Without(waiters, t)
  /\ chain' = Queued(t)

DropGuard(t) ==
  /\ acq[t] \in {"waiting", "rx_dropped"}
  /\ Cancel(t)
  /\ acq' = [acq EXCEPT ![t] = IF acq[t] = "waiting" THEN "guard_dropped" ELSE "idle"]
  /\ rx' = [rx EXCEPT ![t] = IF acq[t] = "waiting" THEN @ ELSE "none"]
  /\ UNCHANGED <<held, need>>

(* The receiver drops; a grant already inside it returns itself.           *)
DropRx(t) ==
  /\ acq[t] \in {"waiting", "guard_dropped"}
  /\ \/ rx[t] = "sent" /\ Release(t)
     \/ rx[t] = "open" /\ UNCHANGED <<held, chain, need>>
  /\ acq' = [acq EXCEPT ![t] = IF acq[t] = "waiting" THEN "rx_dropped" ELSE "idle"]
  /\ rx' = [rx EXCEPT ![t] = IF acq[t] = "waiting" THEN "closed" ELSE "none"]
  /\ UNCHANGED waiters

Next ==
  \/ \E t \in Tasks :
       \/ \E d \in Demands :
            \/ AcquireError(t, d) \/ GrantNow(t, d)
            \/ EnqueueFast(t, d) \/ EnqueueWait(t, d)
       \/ PollReady(t) \/ PollGranted(t) \/ DropReservation(t)
       \/ DropGuard(t) \/ DropRx(t)
  \/ GrantHead \/ ChainEnd

Spec == Init /\ [][Next]_vars

(***************************************************************************)
(* Fairness.  The thread inside the critical section runs on, the runtime  *)
(* polls a task it woke, and a target that runs ends (the module's premise *)
(* is that no future is neither polled nor dropped).  Nothing makes a task *)
(* arrive, and nothing makes one be cancelled; but the second field of an  *)
(* Acquire drops once the first did.                                       *)
(***************************************************************************)
Fairness ==
  /\ WF_vars(GrantHead) /\ WF_vars(ChainEnd)
  /\ \A t \in Tasks :
       /\ WF_vars(PollReady(t)) /\ WF_vars(PollGranted(t))
       /\ SF_vars(acq[t] = "holding" /\ DropReservation(t))
       /\ SF_vars(acq[t] = "guard_dropped" /\ DropRx(t))
       /\ SF_vars(acq[t] = "rx_dropped" /\ DropGuard(t))

FairSpec == Spec /\ Fairness

-----------------------------------------------------------------------------
(* The tasks whose grant is alive: in an Acquire, in a channel, in hand.   *)
Live(t) == acq[t] \in {"ready", "holding"} \/ rx[t] = "sent"
LiveTasks == {t \in Tasks : Live(t)}

(* The units of p that are out, each with the task it was granted to.      *)
Out(p) == UNION {{t} \X (1 .. need[t][p]) : t \in LiveTasks}

(* Every variable has its type, and a queued task's channel is undecided.  *)
TypeOK ==
  /\ held \in [Pools -> 0 .. U64Max]
  /\ waiters \in Seq(Tasks)
  /\ chain \in BOOLEAN
  /\ acq \in [Tasks -> {"idle", "failed", "ready", "waiting", "holding",
                        "guard_dropped", "rx_dropped"}]
  /\ need \in [Tasks -> [Pools -> 0 .. U64Max]]
  /\ rx \in [Tasks -> {"none", "open", "sent", "closed"}]

(* No bounded pool is ever granted beyond its capacity: what `fits' allows *)
(* and `take' counts stays within Limit::Bounded, whatever saturates in an *)
(* unbounded pool.                                                         *)
WithinCapacity ==
  \A p \in Pools : Bounded(p) => held[p] <= Capacity[p]

(* The counters say exactly what is out: across grants on arrival, grants  *)
(* sent and never observed, failed sends and cancellations, what a bounded *)
(* pool counts as held is the sum of the live reservations - none is lost  *)
(* and none is returned twice.                                             *)
HeldIsWhatIsLive ==
  \A p \in Pools : Bounded(p) => held[p] = Cardinality(Out(p))

(* "Every mutation ... ends by running the grant chain": whenever the      *)
(* mutex is free, the head of the queue is one that does not fit, so no    *)
(* waiter sleeps while what it asked for is free.                          *)
NoIdleCapacity ==
  ~chain => ~HeadFits

(* A waiter is in the queue exactly once until its grant is in its         *)
(* channel, so its receiver never resolves to AcquireError::Closed.        *)
NeverClosed ==
  /\ \A i, j \in 1 .. Len(waiters) : waiters[i] = waiters[j] => i = j
  /\ \A t \in Tasks :
       /\ acq[t] = "waiting" => (Queued(t) <=> rx[t] = "open")
       /\ acq[t] = "waiting" => rx[t] \in {"open", "sent"}

(* How the states of a task, of its channel and of the queue go together.  *)
ChannelStates ==
  /\ \A i \in 1 .. Len(waiters) :
       \/ acq[waiters[i]] = "waiting" /\ rx[waiters[i]] = "open"
       \/ acq[waiters[i]] = "rx_dropped" /\ rx[waiters[i]] = "closed"
  /\ \A t \in Tasks :
       /\ acq[t] = "guard_dropped" => rx[t] \in {"open", "sent"}
       /\ acq[t] = "rx_dropped" => rx[t] = "closed"
       /\ acq[t] \in {"idle", "failed", "ready", "holding"} => rx[t] = "none"

(* The inductive invariant behind the four invariants above.               *)
PoolInv == TypeOK /\ WithinCapacity /\ NoIdleCapacity /\ NeverClosed /\ ChannelStates

(* Strict FIFO: a step that grants a bounded amount to a task overtakes    *)
(* nobody - every task queued before the step that did not arrive after it *)
(* is still behind it or was granted first.                                *)
Overtaken(t) ==
  IF Queued(t)
    THEN {waiters[i] : i \in {i \in 1 .. Len(waiters) :
                              \E j \in (i + 1) .. Len(waiters) : waiters[j] = t}}
    ELSE {waiters[i] : i \in 1 .. Len(waiters)}
StrictFIFO ==
  [][\A t \in Tasks :
       ~Live(t) /\ Live(t)' /\ NeedsBounded(need'[t]) => Overtaken(t) = {}]_vars

(* A task that waits is granted, as long as it is not cancelled: nobody    *)
(* behind it, and no stream of later arrivals, can starve it.              *)
WaitersAreAdmitted ==
  \A t \in Tasks : acq[t] = "waiting" ~> acq[t] # "waiting"

(***************************************************************************)
(* The pool implements Admission.                                          *)
(***************************************************************************)
LiveNeed == [t \in Tasks |-> IF Live(t) \/ Queued(t) THEN need[t] ELSE Nothing]
Promise == INSTANCE Admission WITH
  line <- waiters, out <- LiveTasks, want <- LiveNeed,
  Limit <- Capacity, Needs <- {Resolve(d) : d \in Demands}

(* Every step of the pool - counters, oneshot channels, drops in either    *)
(* order - is a step of the abstract line, or invisible to it.             *)
ImplementsAdmission == Promise!ASpec
=============================================================================
