------------------------------- MODULE Execute -------------------------------
(***************************************************************************)
(* What a run of a target waits for, and in which order: engine/execute.rs *)
(* with engine/scratch.rs and engine/credential.rs.                        *)
(*                                                                         *)
(*   its target's gateway, its dependencies, its scratch slots in sorted   *)
(*   order, its execute lock, its share of the worker pool, the material   *)
(*   of its credentials; then the driver runs and the outputs are cached.  *)
(*                                                                         *)
(* The gateway, the slots, the execute lock and a credential's key lock    *)
(* are shared by every process; the pool and the credential cells are a    *)
(* process's own.  A credential takes its material from the host, from     *)
(* another credential (a delegation), or from a producer: a target that is *)
(* run, through the same `execute`, in the middle of the run that needs    *)
(* the credential.                                                         *)
(*                                                                         *)
(* A run is a pair of a process and a target: requests of one process      *)
(* share a target's run.  Slots are taken exclusively; a slot shared by    *)
(* its readers makes nobody wait.                                          *)
(***************************************************************************)
EXTENDS Naturals, Sequences, FiniteSetsExt, Functions

CONSTANTS
    Runs,       \* the runs there may be: a set of <<process, target>>
    Asked,      \* the runs a request asks for
    Rebuilds,   \* those of them made under a riding read, without the gateway
    Deps,       \* target -> the targets it depends on
    Slots,      \* target -> the scratch slots it mounts: numbers, as sorted
    Demand,     \* target -> the units of the pool it reserves
    Uses,       \* target -> the credentials it declares, in order
    Via,        \* credential -> a credential, a target or Host
    Expiring,   \* the credentials whose material lapses, and is kept on disk
    MayCancel,  \* the processes that may be cancelled or killed
    Capacity,   \* the units of a process's pool
    Host,       \* the source of material that heph only reads
    Nobody      \* the holder of a free lock

Procs == {r[1] : r \in Runs}
Targets == DOMAIN Deps
Creds == DOMAIN Via

\* A dependency that closes a cycle is refused (Dag::add_dep).
ASSUME RunAssumption ==
    /\ IsFiniteSet(Runs) /\ Asked \subseteq Runs /\ Rebuilds \subseteq Runs
    /\ Capacity \in Nat \ {0}
    /\ Slots \in [Targets -> SUBSET Nat] /\ Uses \in [Targets -> Seq(Creds)]
    /\ \A ts \in SUBSET Targets : ts # {} => \E t \in ts : Deps[t] \cap ts = {}
    /\ Expiring \subseteq Creds
    /\ Host \notin Creds \cup Targets /\ Nobody \notin Runs
    /\ \A r \in Runs :
          /\ r[2] \in Targets /\ Demand[r[2]] \in 1..Capacity
          /\ \A t \in Deps[r[2]] : <<r[1], t>> \in Runs
          /\ \A c \in Creds : Via[c] \in Targets => <<r[1], Via[c]>> \in Runs

VARIABLES
    at,       \* run -> where it is
    gate,     \* target -> the run that holds its gateway
    slot,     \* slot -> the run that holds it
    exec,     \* target -> the run that holds its execute lock
    queue,    \* process -> the runs in line for its pool
    permits,  \* the runs that hold a reservation
    todo,     \* run -> the credentials it has yet to acquire
    chain,    \* run -> the credentials whose cell it holds, outermost first
    held,     \* the <<process, credential>> whose cell has usable material
    store     \* credential -> "none", or "fresh" or "stale" material on disk

locks == <<gate, slot, exec>>
pool == <<queue, permits>>
credentials == <<todo, chain, held, store>>
vars == <<at, locks, pool, credentials>>

Ended == {"done", "failed"}

\* Of a chain: the innermost credential, and the ones that wait for it.
Last(s) == s[Len(s)]
Front(s) == SubSeq(s, 1, Len(s) - 1)

Init ==
    /\ at = [r \in Runs |-> "idle"]
    /\ gate = [t \in Targets |-> Nobody]
    /\ slot = [s \in UNION {Slots[t] : t \in Targets} |-> Nobody]
    /\ exec = [t \in Targets |-> Nobody]
    /\ queue = [p \in Procs |-> <<>>]
    /\ permits = {}
    /\ todo = [r \in Runs |-> <<>>] /\ chain = [r \in Runs |-> <<>>]
    /\ held = {} /\ store = [c \in Creds |-> "none"]

Go(r, where) == at' = [at EXCEPT ![r] = where]

DepsOf(r) == {<<r[1], t>> : t \in Deps[r[2]]}

(***************************************************************************)
(* Up to the pool.                                                         *)
(***************************************************************************)
\* A request asks for the run, or a consumer waits for it.
Start(r) ==
    /\ at[r] = "idle"
    /\ r \in Asked \/ \E q \in Runs : at[q] = "deps" /\ r \in DepsOf(q)
    /\ Go(r, "gateway")
    /\ UNCHANGED <<locks, pool, credentials>>

\* The gateway is held through the run; what another process built meanwhile
\* is found and shared.  A rebuild rides its read and takes no gateway.
TakeGateway(r) ==
    /\ at[r] = "gateway"
    /\ \/ /\ r \in Rebuilds
          /\ Go(r, "deps")
          /\ UNCHANGED gate
       \/ /\ r \notin Rebuilds
          /\ gate[r[2]] = Nobody
          /\ gate' = [gate EXCEPT ![r[2]] = r]
          /\ Go(r, "deps")
       \/ /\ r \notin Rebuilds
          /\ gate[r[2]] = Nobody
          /\ r[2] \notin {Via[c] : c \in Creds}
          /\ \E q \in Runs \ {r} : q[2] = r[2] /\ at[q] = "done"
          /\ Go(r, "done")
          /\ UNCHANGED gate
    /\ UNCHANGED <<slot, exec, pool, credentials>>

\* Nothing but the gateway is held while the dependencies are built.
ResolveDeps(r) ==
    /\ at[r] = "deps"
    /\ \A d \in DepsOf(r) : at[d] = "done"
    /\ Go(r, "slots")
    /\ UNCHANGED <<locks, pool, credentials>>

Missing(r) == {s \in Slots[r[2]] : slot[s] # r}

\* mutant: the slots are taken as declared, which differs from target to target
AcquireSlot_declared(r) ==
    /\ at[r] = "slots"
    /\ \E s \in Missing(r) :
          /\ slot[s] = Nobody
          /\ slot' = [slot EXCEPT ![s] = r]
    /\ UNCHANGED <<at, gate, exec, pool, credentials>>

\* Slots are taken one by one in sorted order.
AcquireSlot(r) ==
    /\ at[r] = "slots"
    /\ Missing(r) # {}
    /\ LET s == Min(Missing(r))
       IN /\ slot[s] = Nobody
          /\ slot' = [slot EXCEPT ![s] = r]
    /\ UNCHANGED <<at, gate, exec, pool, credentials>>

\* The last lock of the run, and a place in line for the pool.
LockExecute(r) ==
    /\ at[r] = "slots"
    /\ Missing(r) = {}
    /\ exec[r[2]] = Nobody
    /\ exec' = [exec EXCEPT ![r[2]] = r]
    /\ queue' = [queue EXCEPT ![r[1]] = Append(@, r)]
    /\ Go(r, "queued")
    /\ UNCHANGED <<gate, slot, permits, credentials>>

Units(rs) == MapThenSumSet(LAMBDA q : Demand[q[2]], rs)
Reserved(p) == Units({q \in permits : q[1] = p})

Fits(r) == Reserved(r[1]) + Demand[r[2]] <= Capacity

\* mutant: a producer is admitted whether or not it fits
Admit_producers(r) ==
    /\ at[r] = "queued"
    /\ Head(queue[r[1]]) = r
    /\ Fits(r) \/ r[2] \in {Via[c] : c \in Creds}
    /\ queue' = [queue EXCEPT ![r[1]] = Tail(@)]
    /\ permits' = permits \cup {r}
    /\ todo' = [todo EXCEPT ![r] = Uses[r[2]]]
    /\ Go(r, IF Uses[r[2]] = <<>> THEN "run" ELSE "cell")
    /\ UNCHANGED <<locks, chain, held, store>>

\* The pool admits in line, the head as soon as it fits.
Admit(r) ==
    /\ at[r] = "queued"
    /\ Head(queue[r[1]]) = r
    /\ Fits(r)
    /\ queue' = [queue EXCEPT ![r[1]] = Tail(@)]
    /\ permits' = permits \cup {r}
    /\ todo' = [todo EXCEPT ![r] = Uses[r[2]]]
    /\ Go(r, IF Uses[r[2]] = <<>> THEN "run" ELSE "cell")
    /\ UNCHANGED <<locks, chain, held, store>>

(***************************************************************************)
(* The credentials, with the reservation and every lock in hand.           *)
(***************************************************************************)
\* The credential r needs next: the source of the innermost one it acquires,
\* or the next it declares.
Wanted(r) == IF chain[r] = <<>> THEN Head(todo[r]) ELSE Via[Last(chain[r])]

CellHolders(p, c) == {q \in Runs : q[1] = p /\ c \in Range(chain[q])}

\* Who holds c's key lock, which comes after the cell and is released with it.
KeyHolders(c) ==
    {q \in Runs : /\ c \in Range(chain[q])
                  /\ ~(at[q] \in {"stale", "key"} /\ Last(chain[q]) = c)}

\* r has the material of a credential it wanted while it held the cells `outer`:
\* the next one it declares, the driver, or the credential that delegated.
Obtained(r, outer) ==
    /\ chain' = [chain EXCEPT ![r] = outer]
    /\ IF outer = <<>>
       THEN /\ todo' = [todo EXCEPT ![r] = Tail(@)]
            /\ Go(r, IF Len(todo[r]) = 1 THEN "run" ELSE "cell")
       ELSE Go(r, "got") /\ UNCHANGED todo

\* The cell's material or the disk's, else the key lock has to be had.
TakeCell(r) ==
    /\ at[r] = "cell"
    /\ CellHolders(r[1], Wanted(r)) = {}
    /\ LET c == Wanted(r)
       IN IF <<r[1], c>> \in held \/ store[c] = "fresh"
          THEN /\ Obtained(r, chain[r])
               /\ held' = held \cup {<<r[1], c>>}
          ELSE /\ chain' = [chain EXCEPT ![r] = Append(@, c)]
               /\ Go(r, IF store[c] = "stale" THEN "stale" ELSE "key")
               /\ UNCHANGED <<todo, held>>
    /\ UNCHANGED <<locks, pool, store>>

\* A lapsed entry is removed, or the one that has since taken its place.
RemoveStale(r) ==
    /\ at[r] = "stale"
    /\ store' = [store EXCEPT ![Last(chain[r])] = "none"]
    /\ Go(r, "key")
    /\ UNCHANGED <<locks, pool, todo, chain, held>>

\* mutant: the disk is not looked at again once the key lock is had
TakeKey_blind(r) ==
    /\ at[r] = "key"
    /\ KeyHolders(Last(chain[r])) = {}
    /\ Go(r, "obtain")
    /\ UNCHANGED <<locks, pool, credentials>>

\* The process waited for may have written the entry: the disk, again.
TakeKey(r) ==
    /\ at[r] = "key"
    /\ KeyHolders(Last(chain[r])) = {}
    /\ IF store[Last(chain[r])] = "fresh"
       THEN /\ Obtained(r, Front(chain[r]))
            /\ held' = held \cup {<<r[1], Last(chain[r])>>}
            /\ UNCHANGED store
       ELSE /\ Go(r, "obtain")
            /\ store' = [store EXCEPT ![Last(chain[r])] = "none"]
            /\ UNCHANGED <<todo, chain, held>>
    /\ UNCHANGED <<locks, pool>>

\* A delegation, unless the credential is already being acquired further up.
Delegate(r) ==
    /\ at[r] = "obtain"
    /\ Wanted(r) \in Creds \ Range(chain[r])
    /\ Go(r, "cell")
    /\ UNCHANGED <<locks, pool, credentials>>

Producer(r) == <<r[1], Via[Last(chain[r])]>>

\* The producer is run, as a run of its own that knows nothing of r's chain,
\* once no other run of it has its gateway.
Produce(r) ==
    /\ at[r] = "obtain"
    /\ Wanted(r) \in Targets
    /\ at[Producer(r)] \in {"idle"} \cup Ended
    /\ \A q \in Runs \ {r} : at[q] = "producing" => Producer(q) # Producer(r)
    /\ at' = [at EXCEPT ![r] = "producing", ![Producer(r)] = "gateway"]
    /\ UNCHANGED <<locks, pool, credentials>>

HasMaterial(r) ==
    \/ at[r] = "obtain" /\ Wanted(r) = Host
    \/ at[r] = "producing" /\ at[Producer(r)] = "done"
    \/ at[r] = "got"

\* The material is kept, on disk too if it lapses, and cell and key let go.
Keep(r) ==
    /\ HasMaterial(r)
    /\ LET c == Last(chain[r])
       IN /\ held' = held \cup {<<r[1], c>>}
          /\ store' = [store EXCEPT ![c] = IF c \in Expiring THEN "fresh" ELSE @]
    /\ Obtained(r, Front(chain[r]))
    /\ UNCHANGED <<locks, pool>>

(***************************************************************************)
(* The end of a run.                                                       *)
(***************************************************************************)
Without(lock, rs) == [x \in DOMAIN lock |-> IF lock[x] \in rs THEN Nobody ELSE lock[x]]

\* The driver has run: slots and reservation are returned.
Run(r) ==
    /\ at[r] = "run"
    /\ slot' = Without(slot, {r})
    /\ permits' = permits \ {r}
    /\ Go(r, "cache")
    /\ UNCHANGED <<gate, exec, queue, credentials>>

\* The outputs are cached, or a producer's read: the target is free again.
Cache(r) ==
    /\ at[r] = "cache"
    /\ gate' = Without(gate, {r})
    /\ exec' = Without(exec, {r})
    /\ Go(r, "done")
    /\ UNCHANGED <<slot, pool, credentials>>

\* mutant: the failure path keeps the reservation
Abandon_keepsPermit(rs) ==
    /\ at' = [r \in Runs |-> IF r \in rs THEN "failed" ELSE at[r]]
    /\ gate' = Without(gate, rs)
    /\ slot' = Without(slot, rs)
    /\ exec' = Without(exec, rs)
    /\ queue' = [p \in Procs |-> IF rs \cap Range(queue[p]) = {} THEN queue[p] ELSE <<>>]
    /\ todo' = [r \in Runs |-> IF r \in rs THEN <<>> ELSE todo[r]]
    /\ chain' = [r \in Runs |-> IF r \in rs THEN <<>> ELSE chain[r]]
    /\ UNCHANGED <<permits, held, store>>

\* The runs in rs end without an outcome; whatever they hold is dropped.  In
\* line a run is dropped with its process only, and with it the whole line.
Abandon(rs) ==
    /\ at' = [r \in Runs |-> IF r \in rs THEN "failed" ELSE at[r]]
    /\ gate' = Without(gate, rs)
    /\ slot' = Without(slot, rs)
    /\ exec' = Without(exec, rs)
    /\ queue' = [p \in Procs |-> IF rs \cap Range(queue[p]) = {} THEN queue[p] ELSE <<>>]
    /\ permits' = permits \ rs
    /\ todo' = [r \in Runs |-> IF r \in rs THEN <<>> ELSE todo[r]]
    /\ chain' = [r \in Runs |-> IF r \in rs THEN <<>> ELSE chain[r]]
    /\ UNCHANGED <<held, store>>

\* A lock cannot be had, or a slot not be prepared: this need not happen, so
\* that no run gets out of a wait by it.
SlotFails(r) == at[r] = "slots" /\ Abandon({r})

\* A dependency failed; the driver, the caching or a source fails; a credential
\* turns out to be its own source; or its producer failed.
Fail(r) ==
    /\ \/ at[r] = "deps" /\ \E d \in DepsOf(r) : at[d] = "failed"
       \/ at[r] \in {"run", "cache"}
       \/ at[r] = "obtain" /\ Wanted(r) \in {Host} \cup Range(chain[r])
       \/ at[r] = "producing" /\ at[Producer(r)] = "failed"
    /\ Abandon({r})

\* The process is cancelled or killed: its runs are dropped where they are.
Cancel(p) ==
    /\ p \in MayCancel
    /\ \E r \in Runs : r[1] = p /\ at[r] \notin Ended
    /\ Abandon({r \in Runs : r[1] = p /\ at[r] \notin Ended})

\* Time passes, and c's material is of no more use.
Lapse(c) ==
    /\ c \in Expiring
    /\ store[c] = "fresh"
    /\ store' = [store EXCEPT ![c] = "stale"]
    /\ held' = {h \in held : h[2] # c}
    /\ UNCHANGED <<at, locks, pool, todo, chain>>

\* What r does by itself, sooner or later.
Step(r) ==
    \/ Start(r) \/ TakeGateway(r) \/ ResolveDeps(r) \/ AcquireSlot(r)
    \/ LockExecute(r) \/ Admit(r)
    \/ TakeCell(r) \/ RemoveStale(r) \/ TakeKey(r)
    \/ Delegate(r) \/ Produce(r) \/ Keep(r)
    \/ Run(r) \/ Cache(r) \/ Fail(r)

Next ==
    \/ \E r \in Runs : Step(r) \/ SlotFails(r)
    \/ \E p \in Procs : Cancel(p)
    \/ \E c \in Creds : Lapse(c)

Spec == Init /\ [][Next]_vars

\* Drivers and sources return, and the executor polls what is ready.
FairSpec == Spec /\ \A r \in Runs : WF_vars(Step(r))

(***************************************************************************)
(* Properties.                                                             *)
(***************************************************************************)
\* Nothing moves r before q does.
WaitsFor(r, q) ==
    \/ at[r] = "gateway" /\ q = gate[r[2]]
    \/ at[r] = "deps" /\ q \in DepsOf(r) /\ at[q] \notin Ended
    \/ at[r] = "slots" /\ Missing(r) # {} /\ q = slot[Min(Missing(r))]
    \/ at[r] = "slots" /\ Missing(r) = {} /\ q = exec[r[2]]
    \/ at[r] = "queued" /\ q = Head(queue[r[1]]) /\ q # r
    \/ at[r] = "queued" /\ r = Head(queue[r[1]]) /\ q \in permits /\ q[1] = r[1] /\ ~Fits(r)
    \/ at[r] = "cell" /\ q \in CellHolders(r[1], Wanted(r))
    \/ at[r] = "key" /\ q \in KeyHolders(Last(chain[r]))
    \/ at[r] = "obtain" /\ Wanted(r) \in Targets /\ q = Producer(r) /\ at[q] \notin {"idle"} \cup Ended
    \/ /\ at[r] = "obtain" /\ Wanted(r) \in Targets
       /\ q # r /\ at[q] = "producing" /\ Producer(q) = Producer(r)
    \/ at[r] = "producing" /\ q = Producer(r)

\* r waits for a run of its credential's producer, its own or the one before.
AtProducer(r) == at[r] = "producing" \/ (at[r] = "obtain" /\ Wanted(r) \in Targets)

Blockers(r) == {q \in Runs : WaitsFor(r, q)}

\* The sets of runs among rs that wait for nobody but each other.
Wedges(rs) ==
    LET waits == [r \in rs |-> Blockers(r)]
    IN {W \in SUBSET {r \in rs : waits[r] # {}} : \A r \in W : waits[r] \subseteq W} \ {{}}

\* The waits of execute are bounded, not circular: whatever the interleaving
\* of runs and processes, no set of runs waits only for its own members,
\* unless one of them waits for the producer of its credential, with its
\* slots, its execute lock and its reservation in hand.
WaitsAreBounded == Wedges({r \in Runs : ~AtProducer(r)}) = {}

\* Every run that is asked for ends, if drivers and sources return: what a
\* run, a failed one or a killed process held is passed on.  The exception
\* is a run caught where a producer waits for the run that waits for it.
EveryRunEnds ==
    <>[](LET caught == UNION Wedges(Runs)
         IN \A r \in Asked : at[r] \in Ended \/ r \in caught)

\* r waits for its producer, the producer for the pool, and whoever holds the
\* pool is r or waits for a credential that r is acquiring.
Starves(r) ==
    /\ at[r] = "producing"
    /\ at[Producer(r)] = "queued"
    /\ Head(queue[r[1]]) = Producer(r) /\ ~Fits(Producer(r))
    /\ \A q \in permits : q[1] = r[1] /\ q # r => at[q] = "cell" /\ Wanted(q) \in Range(chain[r])

\* The exception is for good.  "Admission AFTER dep resolution so nothing is
\* reserved while waiting for deps" (execute) does not extend to a credential's
\* producer: once the runs that wait for one fill the pool, none of them ends
\* until the process is cancelled.
StarvedForEver ==
    [][\A r \in Runs : Starves(r) /\ at'[r] # "failed" => Starves(r)']_vars

\* Material is not obtained again while there is usable material on disk:
\* not by another run, nor by another process that drives the same
\* interactive sign-in (walk_and_acquire's key lock and second look).
NotObtainedTwice ==
    [][\A r \in Runs :
          HasMaterial(r) /\ Len(chain'[r]) < Len(chain[r]) /\ at'[r] # "failed"
             => store[Last(chain[r])] # "fresh"]_vars

(***************************************************************************)
(* What a run has where it is.                                             *)
(***************************************************************************)
Acquiring == {"cell", "stale", "key", "obtain", "producing", "got"}
Admitted == Acquiring \cup {"run"}
Locked == {"queued", "cache"} \cup Admitted
Gated == {"deps", "slots"} \cup Locked

TypeOK ==
    /\ at \in [Runs -> {"idle", "gateway"} \cup Gated \cup Ended]
    /\ gate \in [Targets -> Runs \cup {Nobody}]
    /\ slot \in [UNION {Slots[t] : t \in Targets} -> Runs \cup {Nobody}]
    /\ exec \in [Targets -> Runs \cup {Nobody}]
    /\ queue \in [Procs -> Seq(Runs)]
    /\ todo \in [Runs -> Seq(Creds)] /\ chain \in [Runs -> Seq(Creds)]
    /\ store \in [Creds -> {"none", "fresh", "stale"}]

\* Who has a gateway, an execute lock or a slot is where it can have it, and
\* has every slot that comes before.
HoldsInOrder ==
    /\ \A t \in Targets : gate[t] # Nobody => gate[t][2] = t /\ at[gate[t]] \in Gated
    /\ \A t \in Targets : exec[t] # Nobody => exec[t][2] = t /\ at[exec[t]] \in Locked
    /\ \A s \in DOMAIN slot : slot[s] # Nobody =>
          /\ at[slot[s]] \in {"slots", "queued"} \cup Admitted
          /\ \A x \in Slots[slot[s][2]] : x < s => slot[x] = slot[s]

\* A line has each run once that is queued, and the admitted have the permits.
InLine ==
    /\ \A p \in Procs : IsInjective(queue[p])
    /\ \A p \in Procs : \A q \in Range(queue[p]) : q[1] = p /\ at[q] = "queued"
    /\ \A r \in Runs : at[r] = "queued" => r \in Range(queue[r[1]])
    /\ permits = {r \in Runs : at[r] \in Admitted}

\* A chain follows the delegations, and does not come back.
Linked(s) == IsInjective(s) /\ \A i \in 1 .. Len(s) - 1 : s[i + 1] = Via[s[i]]
Chains(r) ==
    /\ chain[r] # <<>> => at[r] \in Acquiring
    /\ at[r] \in Acquiring \ {"cell"} => chain[r] # <<>>
    /\ at[r] \in Acquiring => todo[r] # <<>>
    /\ Linked(chain[r])
    /\ at[r] = "cell" /\ chain[r] # <<>> => Wanted(r) \in Creds \ Range(chain[r])
    /\ at[r] = "producing" => Wanted(r) \in Targets

\* A key lock has one holder, and under it there is nothing usable on disk.
KeyAlone ==
    \A c \in Creds : \A q, r \in KeyHolders(c) : q = r /\ store[c] # "fresh"

ExecInv == TypeOK /\ HoldsInOrder /\ InLine /\ (\A r \in Runs : Chains(r)) /\ KeyAlone

\* No delegation comes back to where it started, but for a credential that
\* names itself.
DelegationsEnd ==
    \A cs \in SUBSET Creds : cs # {} => \E c \in cs : Via[c] \notin cs \ {c}

=============================================================================
