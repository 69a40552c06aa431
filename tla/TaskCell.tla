------------------------------ MODULE TaskCell ------------------------------
(***************************************************************************)
(* The task-backed memoizer cell (crates/core/src/hmemoizer/task_cell.rs), *)
(* for one key: every operation is confined to the shard of its key.       *)
(*                                                                         *)
(* A generation is one TaskCell with the BodyTask that computes it.        *)
(* Callers run `process'; the first one builds the cell, polls the body    *)
(* once on its own stack (inlineFirst) and hands it to the runtime if it   *)
(* suspends.  The last awaiter to leave cancels: it evicts the cell, parks *)
(* the task's handle in the key's grave and aborts.  abort() is a request: *)
(* the runtime drops the future once no thread is inside its poll, so an   *)
(* aborted body in a long poll lives on.                                   *)
(*                                                                         *)
(* Steps that hold the cache (shard) lock or the graves lock are atomic.   *)
(***************************************************************************)
EXTENDS Integers, FiniteSets

CONSTANTS
  Callers,      \* the frames that call process for the key
  MaxGen,       \* how many generations are built (bound)
  Settings      \* pairs: what inline_first() answers, and whether the
                \* runtime the memoizer spawns on may go away

ASSUME CallersFinite == IsFiniteSet(Callers)
ASSUME MaxGenNat == MaxGen \in Nat \ {0}
ASSUME SettingsType == Settings \subseteq BOOLEAN \X BOOLEAN

Gens == 1 .. MaxGen
None == 0        \* no cell, no grave

VARIABLES
  map,        \* Maps::cells for the key: the live generation, or None
  graves,     \* Maps::graves for the key: a parked handle, or None
  lost,       \* a parked handle was overwritten by another (history)
  born,       \* how many generations were built
  outcome,    \* TaskCell::outcome: "none", "ok" or "poison"
  interest,   \* TaskCell::interest
  slot,       \* TaskCell::task holds the JoinHandle
  phase,      \* where the body is: "unborn", "draining", "body",
              \* "notifying" (outcome set, waiters not yet woken), "dead"
  grave,      \* BodyTask::grave: the predecessor being awaited, or None
  polling,    \* a thread is inside the body's poll
  aborted,    \* abort() was issued
  pc,         \* per caller
  own,        \* per caller: the generation it built or joined
  woken,      \* per caller: its Notified, dropped with the wait, was notified
  down,       \* the runtime was shut down
  inlineFirst \* inline_first(): read once for the process

vars == <<map, graves, lost, born, outcome, interest, slot, phase, grave, polling,
          aborted, pc, own, woken, down, inlineFirst>>

Init ==
  /\ map = None /\ graves = None /\ lost = FALSE /\ born = 0
  /\ outcome = [g \in Gens |-> "none"]
  /\ interest = [g \in Gens |-> 0]
  /\ slot = [g \in Gens |-> FALSE]
  /\ phase = [g \in Gens |-> "unborn"]
  /\ grave = [g \in Gens |-> None]
  /\ polling = [g \in Gens |-> FALSE]
  /\ aborted = [g \in Gens |-> FALSE]
  /\ pc = [c \in Callers |-> "idle"]
  /\ own = [c \in Callers |-> None]
  /\ woken = [c \in Callers |-> FALSE]
  /\ down = FALSE
  /\ inlineFirst \in {s[1] : s \in Settings}

IsDone(g) == outcome[g] = "ok"

(* The JoinHandle of g resolves: its future was dropped or returned.       *)
Finished(g) == phase[g] = "dead"

-----------------------------------------------------------------------------
(* A call that finds a published value under the cache lock returns it and *)
(* changes nothing.                                                        *)
(* process joins a cell in flight (or a poisoned one): the interest is     *)
(* taken under the cache lock.                                             *)
Join(c) ==
  /\ pc[c] = "idle" /\ map # None /\ ~IsDone(map)
  /\ interest' = [interest EXCEPT ![map] = @ + 1]
  /\ own' = [own EXCEPT ![c] = map]
  /\ pc' = [pc EXCEPT ![c] = "look"]
  /\ UNCHANGED <<map, graves, lost, born, outcome, slot, phase, grave,
                 polling, aborted, woken, down, inlineFirst>>

(* process finds the key vacant: it takes the grave and builds the cell.   *)
(* The task is spawned under the lock, or driven by the caller for a poll. *)
Build(c) ==
  LET g == born + 1 IN
  /\ pc[c] = "idle" /\ map = None /\ born < MaxGen
  /\ born' = g
  /\ map' = g
  /\ grave' = [grave EXCEPT ![g] = graves]
  /\ graves' = None
  /\ interest' = [interest EXCEPT ![g] = 1]
  /\ phase' = [phase EXCEPT ![g] = "draining"]
  /\ slot' = [slot EXCEPT ![g] = ~inlineFirst]
  /\ polling' = [polling EXCEPT ![g] = inlineFirst]
  /\ own' = [own EXCEPT ![c] = g]
  /\ pc' = [pc EXCEPT ![c] = IF inlineFirst THEN "inline" ELSE "look"]
  /\ UNCHANGED <<lost, outcome, aborted, woken, down, inlineFirst>>

(* The inline poll answered Ready, or the body panicked on this stack.     *)
InlineDone(c) ==
  /\ pc[c] = "inline" /\ phase[own[c]] = "dead"
  /\ pc' = [pc EXCEPT ![c] = "look"]
  /\ UNCHANGED <<map, graves, lost, born, outcome, interest, slot, phase, grave,
                 polling, aborted, own, woken, down, inlineFirst>>

(* What a poll may suspend on: an unfinished predecessor, or the body.     *)
Suspends(g) ==
  \/ phase[g] = "draining" /\ grave[g] # None /\ ~Finished(grave[g])
  \/ phase[g] = "body"

(* The inline poll answered Pending: the body is spawned and its handle    *)
(* stored under the cache lock.                                            *)
InlinePending(c) ==
  /\ pc[c] = "inline" /\ Suspends(own[c]) /\ ~down
  /\ slot' = [slot EXCEPT ![own[c]] = TRUE]
  /\ polling' = [polling EXCEPT ![own[c]] = FALSE]
  /\ pc' = [pc EXCEPT ![c] = "look"]
  /\ UNCHANGED <<map, graves, lost, born, outcome, interest, phase, grave, aborted,
                 own, woken, down, inlineFirst>>

-----------------------------------------------------------------------------
(* One handle per key: an insert takes the place of what is there.  A task *)
(* that is dropped means to replace its own handle; any other is lost.     *)
PutInGrave(h, g) == graves' = h /\ lost' = (lost \/ graves \notin {None, g})

(* BodyTask::drop without a published value: the predecessor still awaited *)
(* is parked again, the cell is poisoned, and then its waiters are woken.  *)
DropBody(g) ==
  /\ IF grave[g] # None THEN PutInGrave(grave[g], g) ELSE UNCHANGED <<graves, lost>>
  /\ grave' = [grave EXCEPT ![g] = None]
  /\ outcome' = [outcome EXCEPT ![g] = IF @ = "none" THEN "poison" ELSE @]
  /\ phase' = [phase EXCEPT ![g] = "notifying"]
  /\ polling' = [polling EXCEPT ![g] = FALSE]

(* A suspended body cannot be spawned, for the runtime is shut down: the   *)
(* spawn panics, or hands out the handle of a task that was dropped        *)
(* unpolled.  Either way the drop poisons the cell.                        *)
SpawnFails(c) ==
  /\ pc[c] = "inline" /\ Suspends(own[c]) /\ down
  /\ DropBody(own[c])
  /\ \E handed \in BOOLEAN : slot' = [slot EXCEPT ![own[c]] = handed]
  /\ pc' = [pc EXCEPT ![c] = "look"]
  /\ UNCHANGED <<map, born, interest, aborted, own, woken, down, inlineFirst>>

(* The runtime polls a task that was spawned, not aborted, and has         *)
(* something to do.                                                        *)
BeginPoll(g) ==
  /\ ~aborted[g] /\ ~polling[g] /\ ~down
  /\ phase[g] \in {"draining", "body"}
  /\ phase[g] = "draining" => ~Suspends(g)
  /\ polling' = [polling EXCEPT ![g] = TRUE]
  /\ UNCHANGED <<map, graves, lost, born, outcome, interest, slot, phase, grave,
                 aborted, pc, own, woken, down, inlineFirst>>

Inline(g) == \E c \in Callers : pc[c] = "inline" /\ own[c] = g

EndPoll(g) ==
  /\ polling[g] /\ ~Inline(g) /\ Suspends(g)
  /\ polling' = [polling EXCEPT ![g] = FALSE]
  /\ UNCHANGED <<map, graves, lost, born, outcome, interest, slot, phase, grave,
                 aborted, pc, own, woken, down, inlineFirst>>

\* mutant: the grave is awaited once, without the loop
DrainAwait_once(g) ==
  /\ polling[g] /\ phase[g] = "draining" /\ grave[g] # None /\ Finished(grave[g])
  /\ grave' = [grave EXCEPT ![g] = None]
  /\ phase' = [phase EXCEPT ![g] = "body"]
  /\ UNCHANGED <<map, graves, lost, born, outcome, interest, slot, polling, aborted, pc, own, woken, down, inlineFirst>>

(* run's loop, first arm: the awaited predecessor is gone.                 *)
DrainAwait(g) ==
  /\ polling[g] /\ phase[g] = "draining" /\ grave[g] # None /\ Finished(grave[g])
  /\ grave' = [grave EXCEPT ![g] = None]
  /\ UNCHANGED <<map, graves, lost, born, outcome, interest, slot, phase, polling,
                 aborted, pc, own, woken, down, inlineFirst>>

(* Second arm: look for a handle parked meanwhile, or start the body.      *)
DrainCheck(g) ==
  /\ polling[g] /\ phase[g] = "draining" /\ grave[g] = None
  /\ grave' = [grave EXCEPT ![g] = graves]
  /\ graves' = None
  /\ phase' = [phase EXCEPT ![g] = IF graves = None THEN "body" ELSE @]
  /\ UNCHANGED <<map, lost, born, outcome, interest, slot, polling, aborted, pc, own,
                 woken, down, inlineFirst>>

\* mutant: publish keeps the task's handle
Publish_keepsHandle(g) ==
  /\ polling[g] /\ phase[g] = "body"
  /\ outcome' = [outcome EXCEPT ![g] = IF @ = "none" THEN "ok" ELSE @]
  /\ phase' = [phase EXCEPT ![g] = "notifying"]
  /\ polling' = [polling EXCEPT ![g] = FALSE]
  /\ UNCHANGED <<map, graves, lost, born, interest, slot, grave, aborted, pc, own,
                 woken, down, inlineFirst>>

(* The body returned: publish sets the outcome and drops the task's own    *)
(* handle under the cache lock.                                            *)
Publish(g) ==
  /\ polling[g] /\ phase[g] = "body"
  /\ outcome' = [outcome EXCEPT ![g] = IF @ = "none" THEN "ok" ELSE @]
  /\ slot' = [slot EXCEPT ![g] = FALSE]
  /\ phase' = [phase EXCEPT ![g] = "notifying"]
  /\ polling' = [polling EXCEPT ![g] = FALSE]
  /\ UNCHANGED <<map, graves, lost, born, interest, grave, aborted, pc, own, woken,
                 down, inlineFirst>>

(* The body panicked.                                                      *)
BodyPanics(g) ==
  /\ polling[g] /\ phase[g] = "body"
  /\ DropBody(g)
  /\ UNCHANGED <<map, born, interest, slot, aborted, pc, own, woken, down,
                 inlineFirst>>

(* The runtime gets to an aborted task no thread is polling; one that is   *)
(* going down drops them all.                                              *)
DropAborted(g) ==
  /\ aborted[g] \/ down
  /\ ~polling[g] /\ phase[g] \in {"draining", "body"}
  /\ DropBody(g)
  /\ UNCHANGED <<map, born, interest, slot, aborted, pc, own, woken, down,
                 inlineFirst>>

\* mutant: the waiter registers only once it parks
Notify_parkedOnly(g) ==
  /\ phase[g] = "notifying"
  /\ phase' = [phase EXCEPT ![g] = "dead"]
  /\ woken' = [c \in Callers |-> woken[c] \/ (own[c] = g /\ pc[c] = "parked")]
  /\ UNCHANGED <<map, graves, lost, born, outcome, interest, slot, grave, polling,
                 aborted, pc, own, down, inlineFirst>>

(* notify_waiters, after the outcome is set: it wakes who registered.      *)
Notify(g) ==
  /\ phase[g] = "notifying"
  /\ phase' = [phase EXCEPT ![g] = "dead"]
  /\ woken' = [c \in Callers |->
                 woken[c] \/ (own[c] = g /\ pc[c] \in {"unset", "parked"})]
  /\ UNCHANGED <<map, graves, lost, born, outcome, interest, slot, grave, polling,
                 aborted, pc, own, down, inlineFirst>>

-----------------------------------------------------------------------------
(* wait_done registers, then looks, then parks.  The outcome is set before *)
(* anybody is notified, so a notification between the registration and the *)
(* look changes nothing: the two are one step.                             *)
Look(c) ==
  /\ pc[c] = "look" /\ outcome[own[c]] = "none"
  /\ pc' = [pc EXCEPT ![c] = "unset"]
  /\ UNCHANGED <<map, graves, lost, born, outcome, interest, slot, phase, grave,
                 polling, aborted, own, woken, down, inlineFirst>>

Park(c) ==
  /\ pc[c] = "unset"
  /\ pc' = [pc EXCEPT ![c] = "parked"]
  /\ UNCHANGED <<map, graves, lost, born, outcome, interest, slot, phase, grave,
                 polling, aborted, own, woken, down, inlineFirst>>

Wake(c) ==
  /\ pc[c] = "parked" /\ woken[c]
  /\ woken' = [woken EXCEPT ![c] = FALSE]
  /\ pc' = [pc EXCEPT ![c] = "look"]
  /\ UNCHANGED <<map, graves, lost, born, outcome, interest, slot, phase, grave,
                 polling, aborted, own, down, inlineFirst>>

(* The value is there: the guard is disarmed and only releases.            *)
Return(c) ==
  /\ pc[c] = "look" /\ IsDone(own[c])
  /\ interest' = [interest EXCEPT ![own[c]] = @ - 1]
  /\ own' = [own EXCEPT ![c] = None]
  /\ pc' = [pc EXCEPT ![c] = "idle"]
  /\ woken' = [woken EXCEPT ![c] = FALSE]
  /\ UNCHANGED <<map, graves, lost, born, outcome, slot, phase, grave, polling,
                 aborted, down, inlineFirst>>

\* mutant: the guard releases twice
Leave_twice(c) ==
  LET g == own[c] IN
  /\ pc[c] = "parked" \/ (pc[c] = "look" /\ outcome[g] = "poison")
  /\ interest' = [interest EXCEPT ![g] = @ - 2]
  /\ IF interest[g] = 1 /\ ~IsDone(g)
       THEN pc' = [pc EXCEPT ![c] = "cancelling"] /\ UNCHANGED own
       ELSE pc' = [pc EXCEPT ![c] = "idle"] /\ own' = [own EXCEPT ![c] = None]
  /\ woken' = [woken EXCEPT ![c] = FALSE]
  /\ UNCHANGED <<map, graves, lost, born, outcome, slot, phase, grave, polling,
                 aborted, down, inlineFirst>>

(* TaskAbandonGuard::drop, armed: the caller is aborted at its await, or   *)
(* unwinds from a poisoned cell.  The pre-check reads without the lock.    *)
Leave(c) ==
  LET g == own[c] IN
  /\ pc[c] = "parked" \/ (pc[c] = "look" /\ outcome[g] = "poison")
  /\ interest' = [interest EXCEPT ![g] = @ - 1]
  /\ IF interest[g] = 1 /\ ~IsDone(g)
       THEN pc' = [pc EXCEPT ![c] = "cancelling"] /\ UNCHANGED own
       ELSE pc' = [pc EXCEPT ![c] = "idle"] /\ own' = [own EXCEPT ![c] = None]
  /\ woken' = [woken EXCEPT ![c] = FALSE]
  /\ UNCHANGED <<map, graves, lost, born, outcome, slot, phase, grave, polling,
                 aborted, down, inlineFirst>>

(* The way out of a poisoned cell is not the caller's choice.              *)
Unwind(c) == pc[c] = "look" /\ Leave(c)

(* cancel_abandoned: somebody wants the cell after all, or it is done.     *)
CancelStandsDown(c) ==
  LET g == own[c] IN
  /\ pc[c] = "cancelling" /\ (interest[g] # 0 \/ IsDone(g))
  /\ own' = [own EXCEPT ![c] = None]
  /\ pc' = [pc EXCEPT ![c] = "idle"]
  /\ UNCHANGED <<map, graves, lost, born, outcome, interest, slot, phase, grave,
                 polling, aborted, woken, down, inlineFirst>>

(* cancel_abandoned takes the handle and parks it; the loser of two        *)
(* zero-crossings finds none and is done.                                  *)
ParkHandle(c) ==
  /\ slot' = [slot EXCEPT ![own[c]] = FALSE]
  /\ IF slot[own[c]] THEN PutInGrave(own[c], own[c]) ELSE UNCHANGED <<graves, lost>>
  /\ pc' = [pc EXCEPT ![c] = IF slot[own[c]] THEN "aborting" ELSE "idle"]
  /\ own' = [own EXCEPT ![c] = IF slot[own[c]] THEN @ ELSE None]

\* mutant: the decision is not taken again under the lock
CancelEvict_noRecheck(c) ==
  /\ pc[c] = "cancelling"
  /\ map' = IF map = own[c] THEN None ELSE map
  /\ ParkHandle(c)
  /\ UNCHANGED <<born, outcome, interest, phase, grave, polling, aborted, woken,
                 down, inlineFirst>>

(* cancel_abandoned: the eviction (of this cell only), the handle-take and *)
(* the park are one section under the cache lock.                          *)
CancelEvict(c) ==
  /\ pc[c] = "cancelling" /\ interest[own[c]] = 0 /\ ~IsDone(own[c])
  /\ map' = IF map = own[c] THEN None ELSE map
  /\ ParkHandle(c)
  /\ UNCHANGED <<born, outcome, interest, phase, grave, polling, aborted, woken,
                 down, inlineFirst>>

(* The abort itself, outside the lock.                                     *)
Abort(c) ==
  /\ pc[c] = "aborting"
  /\ aborted' = [aborted EXCEPT ![own[c]] = TRUE]
  /\ own' = [own EXCEPT ![c] = None]
  /\ pc' = [pc EXCEPT ![c] = "idle"]
  /\ UNCHANGED <<map, graves, lost, born, outcome, interest, slot, phase, grave,
                 polling, woken, down, inlineFirst>>

\* mutant: any outcome counts as a value
EvictIf_poisoned ==
  /\ map # None /\ outcome[map] # "none"
  /\ map' = None
  /\ UNCHANGED <<graves, lost, born, outcome, interest, slot, phase, grave, polling,
                 aborted, pc, own, woken, down, inlineFirst>>

(* evict_if: a completed cell whose value satisfies the predicate.         *)
EvictIf ==
  /\ map # None /\ IsDone(map)
  /\ map' = None
  /\ UNCHANGED <<graves, lost, born, outcome, interest, slot, phase, grave, polling,
                 aborted, pc, own, woken, down, inlineFirst>>

ShutDown ==
  /\ <<inlineFirst, TRUE>> \in Settings /\ ~down
  /\ down' = TRUE
  /\ UNCHANGED <<map, graves, lost, born, outcome, interest, slot, phase, grave,
                 polling, aborted, pc, own, woken, inlineFirst>>

CallerStep(c) ==
  \/ InlineDone(c) \/ InlinePending(c) \/ SpawnFails(c)
  \/ Look(c) \/ Park(c) \/ Wake(c) \/ Return(c)
  \/ CancelStandsDown(c) \/ CancelEvict(c) \/ Abort(c)

TaskStep(g) ==
  \/ BeginPoll(g) \/ EndPoll(g) \/ DrainAwait(g) \/ DrainCheck(g)
  \/ Publish(g) \/ BodyPanics(g) \/ DropAborted(g) \/ Notify(g)

Next ==
  \/ \E c \in Callers : Join(c) \/ Build(c) \/ Leave(c) \/ CallerStep(c)
  \/ \E g \in Gens : TaskStep(g)
  \/ EvictIf \/ ShutDown

Spec == Init /\ [][Next]_vars

(***************************************************************************)
(* Fairness.  The runtime polls a task that was woken and gets to an       *)
(* aborted one; a thread inside a critical section, a drop or a poll runs  *)
(* on; a body polled again and again ends.  Nothing makes a caller call,   *)
(* leave, or a body panic.                                                 *)
(***************************************************************************)
Fairness ==
  /\ \A c \in Callers : WF_vars(CallerStep(c) \/ Unwind(c))
  /\ \A g \in Gens :
       /\ WF_vars(BeginPoll(g)) /\ SF_vars(Publish(g)) /\ WF_vars(DropAborted(g))
       /\ WF_vars(DrainAwait(g) \/ DrainCheck(g) \/ Notify(g))

FairSpec == Spec /\ Fairness

-----------------------------------------------------------------------------
Waiting == {"inline", "look", "unset", "parked"}

(* The callers that hold one unit of g's interest.                         *)
Interested(g) == {c \in Callers : own[c] = g /\ pc[c] \in Waiting}

(* Every variable has its type.                                            *)
TypeOK ==
  /\ map \in Gens \cup {None} /\ graves \in Gens \cup {None}
  /\ lost \in BOOLEAN /\ born \in 0 .. MaxGen
  /\ outcome \in [Gens -> {"none", "ok", "poison"}]
  /\ interest \in [Gens -> Nat]
  /\ slot \in [Gens -> BOOLEAN]
  /\ phase \in [Gens -> {"unborn", "draining", "body", "notifying", "dead"}]
  /\ grave \in [Gens -> Gens \cup {None}]
  /\ polling \in [Gens -> BOOLEAN] /\ aborted \in [Gens -> BOOLEAN]
  /\ pc \in [Callers -> Waiting \cup {"idle", "cancelling", "aborting"}]
  /\ own \in [Callers -> Gens \cup {None}]
  /\ woken \in [Callers -> BOOLEAN]
  /\ down \in BOOLEAN /\ inlineFirst \in BOOLEAN

(* "No two bodies for one key, ever": a body that was started and not yet  *)
(* dropped, aborted or not, excludes every other.                          *)
NoTwoBodies ==
  \A g, h \in Gens : phase[g] = "body" /\ phase[h] = "body" => g = h

(* That is so as long as no parked handle was overwritten: a generation    *)
(* awaits every handle it can find, the ones parked while it waits too.    *)
OneBodyUnlessOverwritten == ~lost => NoTwoBodies

(* The interest counter of a cell is the number of its waiters.           *)
InterestIsWaiters == \A g \in Gens : interest[g] = Cardinality(Interested(g))

(* Nobody waits on a computation that was cancelled: the interest counter  *)
(* is exactly the callers that wait, so a join that races the last         *)
(* awaiter's cancellation either keeps the task or builds another.         *)
WaitersKeepTheirTask ==
  /\ InterestIsWaiters
  /\ \A c \in Callers :
       pc[c] \in Waiting /\ outcome[own[c]] = "none" => map = own[c] /\ ~aborted[own[c]]

(* A task that ends leaves an outcome behind, value or poison, so that no  *)
(* waiter can be stranded; and a completed cell pins no task handle.       *)
EndsWithOutcome ==
  \A g \in Gens :
    /\ phase[g] \in {"notifying", "dead"} => outcome[g] # "none"
    /\ IsDone(g) => ~slot[g]

(* A cell leaves the map only when nobody waits for it or its value was    *)
(* published: a stale cancellation never evicts the cell that replaced the *)
(* one it is about.                                                        *)
EvictsOnlyAbandoned ==
  [][map # None /\ map' # map => IsDone(map) \/ interest[map] = 0]_vars

(* Whoever waits gets an answer: no wake-up is lost between the check and  *)
(* the park, and no generation waits for ever on its predecessors.         *)
EveryWaitEnds ==
  \A c \in Callers :
    pc[c] \in Waiting ~> pc[c] = "idle"

(***************************************************************************)
(* The inductive invariant behind the last two.                            *)
(***************************************************************************)
(* A generation not yet built is untouched, and nobody knows it.           *)
Unborn ==
  /\ map <= born
  /\ \A g \in Gens : g > born =>
       phase[g] = "unborn" /\ outcome[g] = "none" /\ ~slot[g] /\ ~aborted[g]
  /\ \A c \in Callers : own[c] <= born

(* A body that has not ended has no outcome; a caller in a call has a cell.*)
Unfinished ==
  /\ \A g \in Gens : phase[g] \in {"unborn", "draining", "body"} => outcome[g] = "none"
  /\ \A c \in Callers : pc[c] # "idle" => own[c] # None

(* The cell in the map was not aborted, and who is about to abort a task   *)
(* has seen to it that nobody can find it.                                 *)
AbortsTheEvicted ==
  /\ map # None => ~aborted[map]
  /\ \A c \in Callers : pc[c] = "aborting" => map # own[c]

CellInv ==
  TypeOK /\ WaitersKeepTheirTask /\ EndsWithOutcome /\ Unborn /\ Unfinished
    /\ AbortsTheEvicted

(***************************************************************************)
(* The inductive invariant behind OneBodyUnlessOverwritten.                *)
(***************************************************************************)
Alive(g) == phase[g] \in {"draining", "body"}
AliveIn(h) == h # None /\ Alive(h)

(* A cell keeps its task's handle while it is in the map, and only then;   *)
(* before, a caller polls the task on its own stack.                       *)
HandleInCell ==
  /\ \A g \in Gens : slot[g] => map = g
  /\ AliveIn(map) => slot[map] \/ Inline(map)

(* A handle is in one place: its cell, the key's grave, or the draining    *)
(* task that awaits it.                                                    *)
HandleInOnePlace ==
  /\ graves <= born /\ (graves # None => graves # map)
  /\ \A g \in Gens : grave[g] # None =>
       /\ phase[g] = "draining" /\ grave[g] <= born
       /\ grave[g] # map /\ grave[g] # graves
       /\ \A h \in Gens : grave[h] = grave[g] => h = g

(* Tasks and the handles they await form chains, which start in the map or *)
(* in the grave, and cycles of cancelled tasks that await each other.  So  *)
(* there are no more ends than starts; and every body is an end.           *)
Ends == {g \in Gens : Alive(g) /\ ~AliveIn(grave[g])}
AtMostOne(S) == \A g, h \in S : g = h
AtMostTwo(S) == \A g, h, k \in S : g = h \/ h = k \/ g = k
EndsHaveStarts ==
  /\ AtMostTwo(Ends)
  /\ ~(AliveIn(map) /\ AliveIn(graves)) => AtMostOne(Ends)
  /\ ~AliveIn(map) /\ ~AliveIn(graves) => Ends = {}

HandleInv ==
  HandleInCell /\ (~lost => HandleInOnePlace /\ EndsHaveStarts /\ NoTwoBodies)
====
