---------------------------- MODULE ExecuteProofs ----------------------------
(***************************************************************************)
(* What execute's runs hold while they wait, for any runs, dependencies,   *)
(* slots, credentials, pool and processes.                                 *)
(*                                                                         *)
(* ExecInv says where a run is that has a gateway, a slot, an execute      *)
(* lock, a place in line, a permit, a cell or a key lock.  Every action    *)
(* preserves it: the steps up to the pool first, then those that acquire   *)
(* credentials, then those that end a run.  What follows from it is that   *)
(* material is not obtained twice, that a run starved of the pool by its   *)
(* own credential stays so, and that nothing else can wait in a circle: a  *)
(* set of runs that wait only for each other would have a first target,    *)
(* then a last slot, then a head of its line, then a last credential.      *)
(***************************************************************************)
EXTENDS Execute, FiniteSetTheorems, SequenceTheorems, WellFoundedInduction, TLAPS

(* Few leaves need arithmetic: those name SMT.                             *)
USE Zenon

(* A sequence without repetitions that grows at its end.                   *)
LEMMA AppendOnce ==
  ASSUME NEW S, NEW s \in Seq(S), IsInjective(s), NEW c \in S, c \notin Range(s)
  PROVE  /\ Append(s, c) \in Seq(S) /\ Append(s, c) # <<>> /\ IsInjective(Append(s, c))
         /\ Range(Append(s, c)) = Range(s) \cup {c}
<1> DEFINE n == Len(s)
           a == Append(s, c)
<1>1. n \in Nat /\ a \in Seq(S) /\ Len(a) = n + 1 /\ a[n + 1] = c /\ a # <<>>
      /\ \A i \in 1 .. n : a[i] = s[i] /\ s[i] \in Range(s) /\ s[i] # c
  <2>1. n \in Nat /\ DOMAIN s = 1 .. n
    BY SMT
  <2>2. \A i \in 1 .. n : s[i] \in Range(s) /\ s[i] # c
    BY <2>1 DEF Range
  <2>q. QED
    BY <2>1, <2>2, AppendProperties, SMT
<1>2. DOMAIN a = 1 .. n + 1 /\ DOMAIN s = 1 .. n
  BY <1>1, SMT
<1>3. IsInjective(a)
  BY <1>1, <1>2, SMT DEF IsInjective
<1>4. \A x \in Range(a) : x \in Range(s) \cup {c}
  BY <1>1, <1>2, SMT DEF Range
<1>5. \A x \in Range(s) : x \in Range(a)
  BY <1>1, <1>2, SMT DEF Range
<1>6. c \in Range(a)
  BY <1>1, <1>2, SMT DEF Range
<1>q. QED
  BY <1>1, <1>3, <1>4, <1>5, <1>6

(* One that loses its head.                                                *)
LEMMA TailOnce ==
  ASSUME NEW S, NEW s \in Seq(S), IsInjective(s), s # <<>>
  PROVE  /\ Tail(s) \in Seq(S) /\ IsInjective(Tail(s))
         /\ Head(s) \in Range(s) /\ Range(Tail(s)) = Range(s) \ {Head(s)}
<1> DEFINE n == Len(s)
           z == Tail(s)
<1>1. n \in Nat \ {0} /\ z \in Seq(S) /\ Len(z) = n - 1 /\ Head(s) = s[1]
      /\ \A i \in 1 .. n - 1 : z[i] = s[i + 1]
  BY HeadTailProperties, SMT
<1>2. DOMAIN z = 1 .. n - 1 /\ DOMAIN s = 1 .. n
  BY <1>1, SMT
<1>3. IsInjective(z)
  BY <1>1, <1>2, SMT DEF IsInjective
<1>4. s[1] \in Range(s)
  BY <1>1, <1>2, SMT DEF Range
<1>5. ASSUME NEW x \in Range(z) PROVE x \in Range(s) \ {s[1]}
  <2>1. PICK i \in 1 .. n - 1 : x = z[i]
    BY <1>2 DEF Range
  <2>2. x = s[i + 1] /\ i + 1 \in 1 .. n /\ i + 1 # 1 /\ 1 \in 1 .. n
    BY <1>1, <2>1, SMT
  <2>q. QED
    BY <1>2, <2>2 DEF Range, IsInjective
<1>6. ASSUME NEW x \in Range(s) \ {s[1]} PROVE x \in Range(z)
  <2>1. PICK i \in 1 .. n : x = s[i]
    BY <1>2 DEF Range
  <2>2. i - 1 \in 1 .. n - 1 /\ i - 1 + 1 = i
    BY <1>1, <2>1, SMT
  <2>3. z[i - 1] = x
    BY <1>1, <2>1, <2>2
  <2>q. QED
    BY <1>2, <2>2, <2>3 DEF Range
<1>q. QED
  BY <1>1, <1>3, <1>4, <1>5, <1>6

(* A chain that grows by a delegation.                                     *)
LEMMA AppendLinked ==
  ASSUME NEW s \in Seq(Creds), Linked(s), NEW c \in Creds, c \notin Range(s),
         s # <<>> => c = Via[Last(s)]
  PROVE  /\ Append(s, c) \in Seq(Creds) /\ Append(s, c) # <<>> /\ Linked(Append(s, c))
         /\ Last(Append(s, c)) = c /\ Range(Append(s, c)) = Range(s) \cup {c}
<1> DEFINE n == Len(s)
           a == Append(s, c)
<1>1. /\ n \in Nat /\ Len(a) = n + 1 /\ a[n + 1] = c /\ \A i \in 1 .. n : a[i] = s[i]
  BY AppendProperties, SMT
<1>2. \A i \in 1 .. Len(a) - 1 : a[i + 1] = Via[a[i]]
  <2> TAKE i \in 1 .. Len(a) - 1
  <2>1. CASE i = n
    <3>1. s # <<>> /\ c = Via[s[n]]
      BY <1>1, <2>1, SMT DEF Last
    <3>q. QED
      BY <1>1, <2>1, <3>1, SMT
  <2>2. CASE i # n
    <3>1. i \in 1 .. n - 1 /\ i + 1 \in 1 .. n /\ i \in 1 .. n
      BY <1>1, <2>2, SMT
    <3>2. s[i + 1] = Via[s[i]]
      BY <3>1 DEF Linked
    <3>q. QED
      BY <1>1, <3>1, <3>2
  <2>q. QED
    BY <2>1, <2>2
<1>3. a \in Seq(Creds) /\ a # <<>> /\ IsInjective(a) /\ Range(a) = Range(s) \cup {c}
  BY AppendOnce, SMT DEF Linked
<1>q. QED
  BY <1>1, <1>2, <1>3 DEF Linked, Last

(* A chain that loses its innermost credential.                            *)
LEMMA FrontLinked ==
  ASSUME NEW s \in Seq(Creds), Linked(s), s # <<>>
  PROVE  /\ Front(s) \in Seq(Creds) /\ Linked(Front(s))
         /\ Last(s) \in Range(s) /\ Last(s) \in Creds /\ Range(Front(s)) = Range(s) \ {Last(s)}
         /\ Len(Front(s)) < Len(s)
<1> DEFINE n == Len(s)
           f == Front(s)
<1>1. n \in Nat \ {0} /\ f \in Seq(Creds) /\ Len(f) = n - 1 /\ \A i \in 1 .. n - 1 : f[i] = s[i]
  <2>1. n \in Nat \ {0} /\ n - 1 \in Int /\ \A i \in 1 .. n - 1 : s[i] \in Creds
    BY SMT
  <2>2. PICK m \in Int : m = n - 1
    BY <2>1
  <2>3. f = SubSeq(s, 1, m)
    BY <2>2 DEF Front
  <2>4. \A i \in 1 .. m : s[i] \in Creds
    BY <2>1, <2>2
  <2>5. /\ SubSeq(s, 1, m) \in Seq(Creds)
        /\ Len(SubSeq(s, 1, m)) = IF 1 <= m THEN m - 1 + 1 ELSE 0
        /\ \A i \in 1 .. m - 1 + 1 : SubSeq(s, 1, m)[i] = s[1 + i - 1]
    BY <2>4, SubSeqProperties, SMT
  <2>6. Len(f) = m
    BY <2>1, <2>2, <2>3, <2>5, SMT
  <2>7. ASSUME NEW i \in 1 .. m PROVE f[i] = s[i]
    <3>1. i \in 1 .. m - 1 + 1 /\ 1 + i - 1 = i
      BY <2>2, SMT
    <3>q. QED
      BY <2>3, <2>5, <3>1
  <2>q. QED
    BY <2>1, <2>2, <2>3, <2>5, <2>6, <2>7, SMT
<1>2. DOMAIN f = 1 .. n - 1 /\ DOMAIN s = 1 .. n
  BY <1>1, SMT
<1>3. IsInjective(f)
  BY <1>1, <1>2, SMT DEF IsInjective, Linked
<1>4. \A i \in 1 .. Len(f) - 1 : f[i + 1] = Via[f[i]]
  <2> TAKE i \in 1 .. Len(f) - 1
  <2>1. i \in 1 .. n - 1 /\ i + 1 \in 1 .. n - 1
    BY <1>1, SMT
  <2>q. QED
    BY <1>1, <2>1 DEF Linked
<1>5. Last(s) = s[n] /\ s[n] \in Range(s) /\ s[n] \in Creds
  BY <1>1, <1>2, SMT DEF Last, Range
<1>6. ASSUME NEW x \in Range(f) PROVE x \in Range(s) \ {s[n]}
  <2>1. PICK i \in 1 .. n - 1 : x = f[i]
    BY <1>2 DEF Range
  <2>2. x = s[i] /\ i \in 1 .. n /\ i # n
    BY <1>1, <2>1, SMT
  <2>q. QED
    BY <1>1, <1>2, <2>2, SMT DEF Range, IsInjective, Linked
<1>7. ASSUME NEW x \in Range(s) \ {s[n]} PROVE x \in Range(f)
  <2>1. PICK i \in 1 .. n : x = s[i]
    BY <1>2 DEF Range
  <2>2. i \in 1 .. n - 1
    BY <1>1, <2>1, SMT
  <2>q. QED
    BY <1>1, <1>2, <2>1, <2>2 DEF Range
<1>q. QED
  BY <1>1, <1>3, <1>4, <1>5, <1>6, <1>7, SMT DEF Linked

(* A set of naturals that is not empty has a least one.                    *)
LEMMA MinIsLeast ==
  ASSUME NEW T, T \subseteq Nat, T # {}
  PROVE  Min(T) \in T /\ \A y \in T : Min(T) <= y
<1>1. PICK x \in T : \A y \in T : ~(<<y, x>> \in OpToRel(<, Nat))
  BY NatLessThanWellFounded, WFMin, Zenon
<1>2. \A y \in T : ~(y < x)
  BY <1>1 DEF OpToRel
<1>3. \A y \in T : x <= y
  BY <1>2, SMT
<1>q. QED
  BY <1>3, Zenon DEF Min

(* What most steps need of the constants.                                  *)
LEMMA Basics ==
  /\ Nobody \notin Runs
  /\ \A r \in Runs : r[1] \in Procs /\ r[2] \in Targets
  /\ \A t \in Targets : Slots[t] \subseteq Nat /\ Uses[t] \in Seq(Creds)
BY RunAssumption DEF Procs

(* The facts about places that the steps below keep using.                 *)
SlotAt == {"slots", "queued"} \cup Admitted
Stays(r, P) == at'[r] \in P <=> at[r] \in P

(* Locks that nobody takes or drops, while their holders move on.          *)
LEMMA LocksKept ==
  ASSUME TypeOK, HoldsInOrder, UNCHANGED locks,
         \A q \in Runs : /\ at[q] \in Gated => at'[q] \in Gated
                         /\ at[q] \in Locked => at'[q] \in Locked
                         /\ at[q] \in SlotAt => at'[q] \in SlotAt
  PROVE  HoldsInOrder'
<1>1. gate' = gate /\ exec' = exec /\ slot' = slot
  BY DEF locks
<1>2. /\ \A t \in Targets : gate[t] \in Runs \cup {Nobody} /\ exec[t] \in Runs \cup {Nobody}
      /\ \A x \in DOMAIN slot : slot[x] \in Runs \cup {Nobody}
  BY DEF TypeOK
<1>q. QED
  BY <1>1, <1>2 DEF HoldsInOrder, SlotAt

(* A line and permits that nobody takes or drops.                          *)
LEMMA LineKept ==
  ASSUME TypeOK, InLine, UNCHANGED pool,
         \A q \in Runs : Stays(q, {"queued"}) /\ Stays(q, Admitted)
  PROVE  InLine'
<1>1. queue' = queue /\ permits' = permits
  BY DEF pool
<1>2. \A p \in Procs : \A q \in Range(queue[p]) : q \in Runs
  BY SMT DEF TypeOK, Range
<1>q. QED
  BY <1>1, <1>2 DEF InLine, Stays

(* Credentials while nobody acquires one.                                  *)
LEMMA CredentialsKept ==
  ASSUME TypeOK, \A r \in Runs : Chains(r), KeyAlone, chain' = chain, todo' = todo,
         \A c \in Creds : store'[c] = store[c] \/ store'[c] # "fresh",
         \A q \in Runs : at'[q] = at[q] \/ (at[q] \notin Acquiring /\ at'[q] \notin Acquiring)
  PROVE  (\A r \in Runs : Chains(r)') /\ KeyAlone'
<1>1. ASSUME NEW r \in Runs PROVE Chains(r)'
  BY <1>1 DEF Chains, Wanted, Acquiring
<1>2. ASSUME NEW c \in Creds, NEW q \in KeyHolders(c)' PROVE q \in KeyHolders(c)
  <2>1. q \in Runs /\ c \in Range(chain[q])
    BY <1>2 DEF KeyHolders
  <2>2. chain[q] # <<>>
    BY <2>1, SMT DEF Range
  <2>3. at'[q] = at[q]
    BY <2>1, <2>2 DEF Chains
  <2>q. QED
    BY <1>2, <2>1, <2>3 DEF KeyHolders
<1>q. QED
  BY <1>1, <1>2 DEF KeyAlone

(* Up to the slots, a run takes at most its gateway.                       *)
LEMMA EarlySteps ==
  ASSUME ExecInv, NEW r \in Runs, Start(r) \/ TakeGateway(r) \/ ResolveDeps(r)
  PROVE  ExecInv'
<1> USE Basics DEF Acquiring, Admitted, Locked, Gated, Ended
<1> TypeOK /\ HoldsInOrder /\ InLine /\ (\A q \in Runs : Chains(q)) /\ KeyAlone
  BY DEF ExecInv
<1>1. /\ UNCHANGED <<slot, exec, pool, credentials>>
      /\ at[r] \in {"idle", "gateway", "deps"} /\ at'[r] \in {"gateway", "deps", "slots", "done"}
      /\ at' = [at EXCEPT ![r] = at'[r]]
      /\ at[r] = "deps" => at'[r] = "slots"
      /\ \/ UNCHANGED gate
         \/ at'[r] = "deps" /\ gate' = [gate EXCEPT ![r[2]] = r]
  <2>1. CASE Start(r)
    BY <2>1 DEF Start, Go, locks, TypeOK
  <2>2. CASE TakeGateway(r)
    BY <2>2 DEF TakeGateway, Go, TypeOK
  <2>3. CASE ResolveDeps(r)
    BY <2>3 DEF ResolveDeps, Go, locks, TypeOK
  <2>q. QED
    BY <2>1, <2>2, <2>3
<1>2. \A q \in Runs : q # r => at'[q] = at[q]
  BY <1>1 DEF TypeOK
<1>3. TypeOK'
  <2>1. at' \in [Runs -> {"idle", "gateway"} \cup Gated \cup Ended]
    BY <1>1 DEF TypeOK
  <2>2. gate' \in [Targets -> Runs \cup {Nobody}]
    BY <1>1 DEF TypeOK
  <2>q. QED
    BY <1>1, <2>1, <2>2 DEF TypeOK, pool, credentials
<1>4. HoldsInOrder'
  <2>1. CASE UNCHANGED gate
    BY <1>1, <1>2, <2>1, LocksKept DEF locks, SlotAt
  <2>2. CASE at'[r] = "deps" /\ gate' = [gate EXCEPT ![r[2]] = r]
    <3>0. /\ \A t \in Targets : gate[t] \in Runs \cup {Nobody} /\ exec[t] \in Runs \cup {Nobody}
          /\ \A x \in DOMAIN slot : slot[x] \in Runs \cup {Nobody}
          /\ \A t \in Targets : gate'[t] = IF t = r[2] THEN r ELSE gate[t]
      BY <2>2 DEF TypeOK
    <3>1. \A t \in Targets : gate'[t] # Nobody => gate'[t][2] = t /\ at'[gate'[t]] \in Gated
      BY <1>1, <1>2, <2>2, <3>0, SMT DEF HoldsInOrder
    <3>2. at[r] \notin Locked /\ at[r] \notin SlotAt
      BY <1>1, <2>2 DEF SlotAt
    <3>3. \A t \in Targets : exec[t] # Nobody => exec[t][2] = t /\ at'[exec[t]] \in Locked
      BY <1>2, <3>0, <3>2, SMT DEF HoldsInOrder
    <3>4. \A x \in DOMAIN slot : slot[x] # Nobody =>
            /\ at'[slot[x]] \in SlotAt
            /\ \A y \in Slots[slot[x][2]] : y < x => slot[y] = slot[x]
      BY <1>2, <3>0, <3>2, SMT DEF HoldsInOrder, SlotAt
    <3>q. QED
      BY <1>1, <3>1, <3>3, <3>4, SMT DEF HoldsInOrder, SlotAt
  <2>q. QED
    BY <1>1, <2>1, <2>2
<1>5. InLine'
  BY <1>1, <1>2, LineKept DEF Stays
<1>6. (\A q \in Runs : Chains(q)') /\ KeyAlone'
  BY <1>1, <1>2, CredentialsKept DEF credentials
<1>q. QED
  BY <1>3, <1>4, <1>5, <1>6 DEF ExecInv

(* What a run lacks of its slots.                                          *)
LEMMA MissingSlots ==
  ASSUME TypeOK, NEW r \in Runs, Missing(r) # {}
  PROVE  /\ Min(Missing(r)) \in Slots[r[2]] /\ Min(Missing(r)) \in DOMAIN slot
         /\ Min(Missing(r)) \in Nat /\ slot[Min(Missing(r))] # r
         /\ \A x \in Slots[r[2]] : x < Min(Missing(r)) => slot[x] = r
<1>0. r[2] \in Targets /\ DOMAIN slot = UNION {Slots[t] : t \in Targets}
  BY Basics DEF TypeOK
<1>1. Slots[r[2]] \subseteq Nat /\ Missing(r) \subseteq Slots[r[2]]
  BY Basics DEF Missing
<1>2. Min(Missing(r)) \in Missing(r) /\ \A y \in Missing(r) : Min(Missing(r)) <= y
  BY <1>1, MinIsLeast
<1>3. ASSUME NEW x \in Slots[r[2]], x < Min(Missing(r)) PROVE slot[x] = r
  <2>1. x \in Nat /\ Min(Missing(r)) \in Nat /\ ~(Min(Missing(r)) <= x)
    BY <1>1, <1>2, <1>3, SMT
  <2>q. QED
    BY <1>2, <2>1 DEF Missing
<1>4. Min(Missing(r)) \in DOMAIN slot
  BY <1>0, <1>1, <1>2
<1>q. QED
  BY <1>1, <1>2, <1>3, <1>4 DEF Missing

(* Slots are taken in order.                                               *)
LEMMA SlotStep ==
  ASSUME ExecInv, NEW r \in Runs, AcquireSlot(r)
  PROVE  ExecInv'
<1> DEFINE m == Min(Missing(r))
<1> USE RunAssumption
<1> TypeOK /\ HoldsInOrder /\ InLine /\ (\A q \in Runs : Chains(q)) /\ KeyAlone
  BY DEF ExecInv
<1>1. /\ UNCHANGED <<at, gate, exec, pool, credentials>> /\ at[r] = "slots" /\ Missing(r) # {}
      /\ slot[m] = Nobody /\ slot' = [slot EXCEPT ![m] = r]
  BY DEF AcquireSlot
<1>2. /\ m \in Slots[r[2]] /\ m \in DOMAIN slot /\ m \in Nat
      /\ \A x \in Slots[r[2]] : x < m => slot[x] = r
  BY <1>1, MissingSlots
<1>3. TypeOK'
  BY <1>1 DEF TypeOK, pool, credentials
<1>4. HoldsInOrder'
  <2>1. ASSUME NEW x \in DOMAIN slot, slot'[x] # Nobody
        PROVE  /\ at[slot'[x]] \in SlotAt
               /\ \A y \in Slots[slot'[x][2]] : y < x => slot'[y] = slot'[x]
    <3>0. \A t \in Targets : Slots[t] \subseteq DOMAIN slot /\ Slots[t] \subseteq Nat
      BY SMT DEF TypeOK
    <3>1. CASE x = m
      <4>1. slot'[x] = r /\ r[2] \in Targets
        BY <1>1, <1>2, <3>1
      <4>2. ASSUME NEW y \in Slots[r[2]], y < m PROVE slot'[y] = r
        <5>1. y \in DOMAIN slot /\ slot[y] = r
          BY <1>2, <3>0, <4>1, <4>2
        <5>q. QED
          BY <1>1, <5>1
      <4>q. QED
        BY <1>1, <3>1, <4>1, <4>2 DEF SlotAt
    <3>2. CASE x # m
      <4>1. slot'[x] = slot[x] /\ slot[x] \in Runs /\ slot[x][2] \in Targets
        BY <1>1, <2>1, <3>2 DEF TypeOK
      <4>2. ASSUME NEW y \in Slots[slot[x][2]], y < x PROVE slot'[y] = slot[x]
        <5>1. y \in DOMAIN slot /\ slot[y] = slot[x] /\ y # m
          BY <1>1, <2>1, <3>0, <4>1, <4>2, SMT DEF HoldsInOrder
        <5>q. QED
          BY <1>1, <5>1
      <4>q. QED
        BY <2>1, <4>1, <4>2 DEF HoldsInOrder, SlotAt
    <3>q. QED
      BY <3>1, <3>2
  <2>2. DOMAIN slot' = DOMAIN slot
    BY <1>1 DEF TypeOK
  <2>q. QED
    BY <1>1, <2>1, <2>2 DEF HoldsInOrder, SlotAt
<1>5. InLine'
  BY <1>1, LineKept DEF Stays
<1>6. (\A q \in Runs : Chains(q)') /\ KeyAlone'
  BY <1>1, CredentialsKept DEF credentials
<1>q. QED
  BY <1>3, <1>4, <1>5, <1>6 DEF ExecInv

(* The execute lock, and a place in line.                                  *)
LEMMA LockStep ==
  ASSUME ExecInv, NEW r \in Runs, LockExecute(r)
  PROVE  ExecInv'
<1> USE Basics DEF Acquiring, Admitted, Locked, Gated, Ended
<1> TypeOK /\ HoldsInOrder /\ InLine /\ (\A q \in Runs : Chains(q)) /\ KeyAlone
  BY DEF ExecInv
<1>1. /\ UNCHANGED <<gate, slot, permits, credentials>> /\ at[r] = "slots"
      /\ exec' = [exec EXCEPT ![r[2]] = r] /\ at' = [at EXCEPT ![r] = "queued"]
      /\ queue' = [queue EXCEPT ![r[1]] = Append(@, r)]
  BY DEF LockExecute, Go
<1>2. at'[r] = "queued" /\ \A q \in Runs : q # r => at'[q] = at[q]
  BY <1>1 DEF TypeOK
<1>3. \A p \in Procs : r \notin Range(queue[p])
  BY <1>1 DEF InLine
<1>4. /\ \A p \in Procs \ {r[1]} : queue'[p] = queue[p]
      /\ queue'[r[1]] \in Seq(Runs) /\ IsInjective(queue'[r[1]])
      /\ Range(queue'[r[1]]) = Range(queue[r[1]]) \cup {r}
  <2>1. /\ \A p \in Procs \ {r[1]} : queue'[p] = queue[p]
        /\ queue'[r[1]] = Append(queue[r[1]], r) /\ queue[r[1]] \in Seq(Runs)
    BY <1>1 DEF TypeOK
  <2>2. IsInjective(queue[r[1]])
    BY DEF InLine
  <2>q. QED
    BY <1>3, <2>1, <2>2, AppendOnce, SMT
<1>5. TypeOK'
  <2>1. at' \in [Runs -> {"idle", "gateway"} \cup Gated \cup Ended]
    BY <1>1 DEF TypeOK
  <2>2. exec' \in [Targets -> Runs \cup {Nobody}]
    BY <1>1 DEF TypeOK
  <2>3. queue' \in [Procs -> Seq(Runs)]
    BY <1>1, <1>4 DEF TypeOK
  <2>q. QED
    BY <1>1, <2>1, <2>2, <2>3 DEF TypeOK, credentials
<1>6. HoldsInOrder'
  <2>0. /\ \A t \in Targets : gate[t] \in Runs \cup {Nobody} /\ exec[t] \in Runs \cup {Nobody}
        /\ \A x \in DOMAIN slot : slot[x] \in Runs \cup {Nobody}
        /\ \A t \in Targets : exec'[t] = IF t = r[2] THEN r ELSE exec[t]
    BY <1>1 DEF TypeOK
  <2>1. \A t \in Targets : gate[t] # Nobody => gate[t][2] = t /\ at'[gate[t]] \in Gated
    BY <1>2, <2>0, SMT DEF HoldsInOrder
  <2>2. \A t \in Targets : exec'[t] # Nobody => exec'[t][2] = t /\ at'[exec'[t]] \in Locked
    BY <1>2, <2>0, SMT DEF HoldsInOrder
  <2>3. \A x \in DOMAIN slot : slot[x] # Nobody =>
            /\ at'[slot[x]] \in SlotAt
            /\ \A y \in Slots[slot[x][2]] : y < x => slot[y] = slot[x]
    BY <1>2, <2>0, SMT DEF HoldsInOrder, SlotAt
  <2>q. QED
    BY <1>1, <2>1, <2>2, <2>3, SMT DEF HoldsInOrder, SlotAt
<1>7. InLine'
  <2>1. \A p \in Procs : IsInjective(queue'[p])
    BY <1>4 DEF InLine
  <2>2. ASSUME NEW p \in Procs, NEW q \in Range(queue'[p]) PROVE q[1] = p /\ at'[q] = "queued"
    <3>1. (q = r /\ p = r[1]) \/ q \in Range(queue[p])
      BY <1>4
    <3>2. q \in Range(queue[p]) => q \in Runs
      BY SMT DEF TypeOK, Range
    <3>q. QED
      BY <1>2, <3>1, <3>2 DEF InLine
  <2>3. ASSUME NEW q \in Runs, at'[q] = "queued" PROVE q \in Range(queue'[q[1]])
    BY <1>2, <1>4, <2>3 DEF InLine
  <2>4. permits' = {q \in Runs : at'[q] \in Admitted}
    BY <1>1, <1>2, SMT DEF InLine
  <2>q. QED
    BY <2>1, <2>2, <2>3, <2>4 DEF InLine
<1>8. (\A q \in Runs : Chains(q)') /\ KeyAlone'
  BY <1>1, <1>2, CredentialsKept DEF credentials
<1>q. QED
  BY <1>5, <1>6, <1>7, <1>8 DEF ExecInv

(* From the line into the pool.                                            *)
LEMMA AdmitStep ==
  ASSUME ExecInv, NEW r \in Runs, Admit(r)
  PROVE  ExecInv'
<1> USE Basics DEF Acquiring, Admitted, Locked, Gated, Ended
<1> TypeOK /\ HoldsInOrder /\ InLine /\ (\A q \in Runs : Chains(q)) /\ KeyAlone
  BY DEF ExecInv
<1> DEFINE w == IF Uses[r[2]] = <<>> THEN "run" ELSE "cell"
<1>1. /\ UNCHANGED <<locks, chain, held, store>> /\ at[r] = "queued"
      /\ Head(queue[r[1]]) = r /\ queue' = [queue EXCEPT ![r[1]] = Tail(@)]
      /\ permits' = permits \cup {r} /\ todo' = [todo EXCEPT ![r] = Uses[r[2]]]
      /\ at' = [at EXCEPT ![r] = w]
  BY DEF Admit, Go
<1>2. at'[r] = w /\ w \in {"run", "cell"} /\ \A q \in Runs : q # r => at'[q] = at[q]
  BY <1>1 DEF TypeOK
<1>3. /\ \A p \in Procs \ {r[1]} : queue'[p] = queue[p]
      /\ queue'[r[1]] \in Seq(Runs) /\ IsInjective(queue'[r[1]])
      /\ Range(queue'[r[1]]) = Range(queue[r[1]]) \ {r}
  <2>1. /\ \A p \in Procs \ {r[1]} : queue'[p] = queue[p]
        /\ queue'[r[1]] = Tail(queue[r[1]]) /\ queue[r[1]] \in Seq(Runs)
    BY <1>1 DEF TypeOK
  <2>2. IsInjective(queue[r[1]]) /\ r \in Range(queue[r[1]])
    BY <1>1 DEF InLine
  <2>3. queue[r[1]] # <<>>
    BY <2>1, <2>2, SMT DEF Range
  <2>q. QED
    BY <1>1, <2>1, <2>2, <2>3, TailOnce, SMT
<1>4. TypeOK'
  <2>1. at' \in [Runs -> {"idle", "gateway"} \cup Gated \cup Ended]
    BY <1>1, <1>2 DEF TypeOK
  <2>2. todo' \in [Runs -> Seq(Creds)]
    BY <1>1 DEF TypeOK
  <2>3. queue' \in [Procs -> Seq(Runs)]
    BY <1>1, <1>3 DEF TypeOK
  <2>q. QED
    BY <1>1, <2>1, <2>2, <2>3 DEF TypeOK, locks
<1>5. HoldsInOrder'
  BY <1>1, <1>2, LocksKept DEF SlotAt
<1>6. InLine'
  <2>1. \A p \in Procs : IsInjective(queue'[p])
    BY <1>3 DEF InLine
  <2>2. ASSUME NEW p \in Procs, NEW q \in Range(queue'[p]) PROVE q[1] = p /\ at'[q] = "queued"
    <3>1. q \in Range(queue[p])
      BY <1>3
    <3>2. q \in Runs /\ q[1] = p /\ at[q] = "queued"
      BY <3>1, SMT DEF TypeOK, Range, InLine
    <3>3. q # r
      BY <1>3, <3>2
    <3>q. QED
      BY <1>2, <3>2, <3>3
  <2>3. ASSUME NEW q \in Runs, at'[q] = "queued" PROVE q \in Range(queue'[q[1]])
    BY <1>2, <1>3, <2>3 DEF InLine
  <2>4. permits' = {q \in Runs : at'[q] \in Admitted}
    BY <1>1, <1>2, SMT DEF InLine
  <2>q. QED
    BY <2>1, <2>2, <2>3, <2>4 DEF InLine
<1>7. chain[r] = <<>>
  BY <1>1 DEF Chains
<1>8. ASSUME NEW q \in Runs PROVE Chains(q)'
  <2>1. CASE q = r
    <3>1. todo'[r] = Uses[r[2]] /\ chain'[r] = <<>> /\ (w = "cell" => Uses[r[2]] # <<>>)
      BY <1>1, <1>7 DEF TypeOK
    <3>2. Linked(chain[r])
      BY DEF Chains
    <3>q. QED
      BY <1>2, <1>7, <2>1, <3>1, <3>2, SMT DEF Chains
  <2>2. CASE q # r
    <3>1. todo'[q] = todo[q] /\ chain'[q] = chain[q] /\ at'[q] = at[q]
      BY <1>1, <1>2, <2>2 DEF TypeOK
    <3>q. QED
      BY <3>1 DEF Chains, Wanted
  <2>q. QED
    BY <2>1, <2>2
<1>9. KeyAlone'
  <2>1. ASSUME NEW c \in Creds, NEW q \in KeyHolders(c)' PROVE q \in KeyHolders(c)
    <3>1. q \in Runs /\ c \in Range(chain[q])
      BY <1>1, <2>1 DEF KeyHolders
    <3>2. q # r
      BY <1>7, <3>1, SMT DEF Range
    <3>q. QED
      BY <1>1, <1>2, <2>1, <3>1, <3>2 DEF KeyHolders
  <2>q. QED
    BY <1>1, <2>1 DEF KeyAlone
<1>q. QED
  BY <1>4, <1>5, <1>6, <1>8, <1>9 DEF ExecInv

(* Locks that are dropped, while the holders of the others move on.        *)
LEMMA LocksDropped ==
  ASSUME TypeOK, HoldsInOrder, NEW gs, NEW es, NEW ss,
         gate' = Without(gate, gs), exec' = Without(exec, es), slot' = Without(slot, ss),
         \A q \in Runs : /\ at[q] \in Gated /\ q \notin gs => at'[q] \in Gated
                         /\ at[q] \in Locked /\ q \notin es => at'[q] \in Locked
                         /\ at[q] \in SlotAt /\ q \notin ss => at'[q] \in SlotAt
  PROVE  /\ HoldsInOrder' /\ gate' \in [Targets -> Runs \cup {Nobody}]
         /\ exec' \in [Targets -> Runs \cup {Nobody}]
         /\ slot' \in [UNION {Slots[t] : t \in Targets} -> Runs \cup {Nobody}]
<1> USE Basics
<1>0. /\ gate \in [Targets -> Runs \cup {Nobody}] /\ exec \in [Targets -> Runs \cup {Nobody}]
      /\ slot \in [UNION {Slots[t] : t \in Targets} -> Runs \cup {Nobody}]
  BY DEF TypeOK
<1>1. /\ gate' \in [Targets -> Runs \cup {Nobody}] /\ exec' \in [Targets -> Runs \cup {Nobody}]
      /\ slot' \in [UNION {Slots[t] : t \in Targets} -> Runs \cup {Nobody}]
  BY <1>0 DEF Without
<1>2. /\ \A t \in Targets : gate'[t] # Nobody => gate'[t] = gate[t] /\ gate[t] \in Runs \ gs
      /\ \A t \in Targets : exec'[t] # Nobody => exec'[t] = exec[t] /\ exec[t] \in Runs \ es
  BY <1>0 DEF Without
<1>3. /\ DOMAIN slot' = DOMAIN slot
      /\ \A x \in DOMAIN slot : slot'[x] # Nobody => slot'[x] = slot[x] /\ slot[x] \in Runs \ ss
      /\ \A x \in DOMAIN slot : slot[x] \notin ss => slot'[x] = slot[x]
  BY <1>0 DEF Without
<1>4. \A t \in Targets : gate'[t] # Nobody => gate'[t][2] = t /\ at'[gate'[t]] \in Gated
  BY <1>2 DEF HoldsInOrder
<1>5. \A t \in Targets : exec'[t] # Nobody => exec'[t][2] = t /\ at'[exec'[t]] \in Locked
  BY <1>2 DEF HoldsInOrder
<1>6. ASSUME NEW x \in DOMAIN slot, slot'[x] # Nobody
      PROVE  /\ at'[slot'[x]] \in SlotAt
             /\ \A y \in Slots[slot'[x][2]] : y < x => slot'[y] = slot'[x]
  <2>1. slot'[x] = slot[x] /\ slot[x] \in Runs \ ss /\ slot[x][2] \in Targets
    BY <1>3, <1>6
  <2>2. at'[slot[x]] \in SlotAt
    BY <1>6, <2>1 DEF HoldsInOrder, SlotAt
  <2>3. ASSUME NEW y \in Slots[slot[x][2]], y < x PROVE slot'[y] = slot[x]
    <3>1. y \in DOMAIN slot
      BY <1>0, <2>1, SMT
    <3>2. slot[y] = slot[x]
      BY <1>6, <2>1, <2>3 DEF HoldsInOrder
    <3>q. QED
      BY <1>3, <2>1, <3>1, <3>2
  <2>q. QED
    BY <2>1, <2>2, <2>3
<1>q. QED
  BY <1>1, <1>3, <1>4, <1>5, <1>6 DEF HoldsInOrder, SlotAt

(* A lock from which nobody is dropped.                                    *)
LEMMA NothingDropped ==
  ASSUME TypeOK
  PROVE  gate = Without(gate, {}) /\ exec = Without(exec, {}) /\ slot = Without(slot, {})
BY DEF TypeOK, Without

(* The driver, and the cache.                                              *)
LEMMA LateSteps ==
  ASSUME ExecInv, NEW r \in Runs, Run(r) \/ Cache(r)
  PROVE  ExecInv'
<1> USE DEF Acquiring, Admitted, Locked, Gated, Ended
<1> TypeOK /\ HoldsInOrder /\ InLine /\ (\A q \in Runs : Chains(q)) /\ KeyAlone
  BY DEF ExecInv
<1>1. CASE Run(r)
  <2>1. /\ UNCHANGED <<gate, exec, queue, credentials>> /\ slot' = Without(slot, {r})
        /\ permits' = permits \ {r} /\ at[r] = "run" /\ at' = [at EXCEPT ![r] = "cache"]
    BY <1>1 DEF Run, Go
  <2>2. at'[r] = "cache" /\ \A q \in Runs : q # r => at'[q] = at[q]
    BY <2>1 DEF TypeOK
  <2>3. \A q \in Runs : /\ at[q] \in Gated /\ q \notin {} => at'[q] \in Gated
                        /\ at[q] \in Locked /\ q \notin {} => at'[q] \in Locked
                        /\ at[q] \in SlotAt /\ q \notin {r} => at'[q] \in SlotAt
    BY <2>2
  <2>4. HoldsInOrder' /\ slot' \in [UNION {Slots[t] : t \in Targets} -> Runs \cup {Nobody}]
    BY <2>1, <2>3, LocksDropped, NothingDropped
  <2>5. TypeOK'
    <3>1. at' \in [Runs -> {"idle", "gateway"} \cup Gated \cup Ended]
      BY <2>1 DEF TypeOK
    <3>q. QED
      BY <2>1, <2>4, <3>1 DEF TypeOK, credentials
  <2>6. InLine'
    <3>1. permits' = {q \in Runs : at'[q] \in Admitted}
      BY <2>1, <2>2 DEF InLine
    <3>2. \A p \in Procs : \A q \in Range(queue[p]) : q \in Runs
      BY SMT DEF TypeOK, Range
    <3>q. QED
      BY <2>1, <2>2, <3>1, <3>2, SMT DEF InLine
  <2>8. (\A q \in Runs : Chains(q)') /\ KeyAlone'
    BY <2>1, <2>2, CredentialsKept DEF credentials
  <2>q. QED
    BY <2>4, <2>5, <2>6, <2>8 DEF ExecInv
<1>2. CASE Cache(r)
  <2>1. /\ UNCHANGED <<slot, pool, credentials>> /\ gate' = Without(gate, {r})
        /\ exec' = Without(exec, {r}) /\ at[r] = "cache" /\ at' = [at EXCEPT ![r] = "done"]
    BY <1>2 DEF Cache, Go
  <2>2. at'[r] = "done" /\ \A q \in Runs : q # r => at'[q] = at[q]
    BY <2>1 DEF TypeOK
  <2>3. \A q \in Runs : /\ at[q] \in Gated /\ q \notin {r} => at'[q] \in Gated
                        /\ at[q] \in Locked /\ q \notin {r} => at'[q] \in Locked
                        /\ at[q] \in SlotAt /\ q \notin {} => at'[q] \in SlotAt
    BY <2>1, <2>2 DEF SlotAt
  <2>4. HoldsInOrder' /\ gate' \in [Targets -> Runs \cup {Nobody}]
                      /\ exec' \in [Targets -> Runs \cup {Nobody}]
    BY <2>1, <2>3, LocksDropped, NothingDropped
  <2>5. TypeOK'
    <3>1. at' \in [Runs -> {"idle", "gateway"} \cup Gated \cup Ended]
      BY <2>1 DEF TypeOK
    <3>q. QED
      BY <2>1, <2>4, <3>1 DEF TypeOK, credentials, pool
  <2>6. InLine'
    BY <2>1, <2>2, LineKept DEF Stays
  <2>7. (\A q \in Runs : Chains(q)') /\ KeyAlone'
    BY <2>1, <2>2, CredentialsKept DEF credentials
  <2>q. QED
    BY <2>4, <2>5, <2>6, <2>7 DEF ExecInv
<1>q. QED
  BY <1>1, <1>2

(* Runs that end where they are, be it one or a process's.                 *)
LEMMA AbandonStep ==
  ASSUME ExecInv, NEW rs \in SUBSET Runs, Abandon(rs),
         \A p \in Procs : rs \cap Range(queue[p]) = {} \/ Range(queue[p]) \subseteq rs
  PROVE  ExecInv'
<1> TypeOK /\ HoldsInOrder /\ InLine /\ (\A q \in Runs : Chains(q)) /\ KeyAlone
  BY DEF ExecInv
<1>1. \A q \in Runs : at'[q] = IF q \in rs THEN "failed" ELSE at[q]
  BY DEF Abandon
<1>2. /\ HoldsInOrder' /\ gate' \in [Targets -> Runs \cup {Nobody}]
      /\ exec' \in [Targets -> Runs \cup {Nobody}]
      /\ slot' \in [UNION {Slots[t] : t \in Targets} -> Runs \cup {Nobody}]
  <2>1. \A q \in Runs : /\ at[q] \in Gated /\ q \notin rs => at'[q] \in Gated
                        /\ at[q] \in Locked /\ q \notin rs => at'[q] \in Locked
                        /\ at[q] \in SlotAt /\ q \notin rs => at'[q] \in SlotAt
    BY <1>1
  <2>2. gate' = Without(gate, rs) /\ exec' = Without(exec, rs) /\ slot' = Without(slot, rs)
    BY DEF Abandon
  <2>q. QED
    BY <2>1, <2>2, LocksDropped
<1> USE Basics DEF Acquiring, Admitted, Locked, Gated, Ended
<1>3. /\ \A q \in Runs : todo'[q] = IF q \in rs THEN <<>> ELSE todo[q]
      /\ \A q \in Runs : chain'[q] = IF q \in rs THEN <<>> ELSE chain[q]
      /\ store' = store /\ permits' = permits \ rs
  BY DEF Abandon
<1>4. \A p \in Procs : queue'[p] = IF rs \cap Range(queue[p]) = {} THEN queue[p] ELSE <<>>
  BY DEF Abandon
<1>5. TypeOK'
  <2>1. at' \in [Runs -> {"idle", "gateway"} \cup Gated \cup Ended]
    BY DEF TypeOK, Abandon
  <2>2. queue' \in [Procs -> Seq(Runs)]
    BY SMT DEF TypeOK, Abandon
  <2>3. todo' \in [Runs -> Seq(Creds)] /\ chain' \in [Runs -> Seq(Creds)]
    BY SMT DEF TypeOK, Abandon
  <2>q. QED
    BY <1>2, <1>3, <2>1, <2>2, <2>3, SMT DEF TypeOK
<1>6. InLine'
  <2>0. IsInjective(<<>>) /\ Range(<<>>) = {}
    BY SMT DEF IsInjective, Range
  <2>1. \A p \in Procs : IsInjective(queue'[p])
    BY <1>4, <2>0 DEF InLine
  <2>2. ASSUME NEW p \in Procs, NEW q \in Range(queue'[p]) PROVE q[1] = p /\ at'[q] = "queued"
    <3>1. q \in Range(queue[p]) /\ q \notin rs
      BY <1>4, <2>0
    <3>2. q \in Runs
      BY <3>1, SMT DEF TypeOK, Range
    <3>q. QED
      BY <1>1, <3>1, <3>2 DEF InLine
  <2>3. ASSUME NEW q \in Runs, at'[q] = "queued" PROVE q \in Range(queue'[q[1]])
    <3>1. q \notin rs /\ q \in Range(queue[q[1]])
      BY <1>1, <2>3 DEF InLine
    <3>q. QED
      BY <1>4, <3>1
  <2>4. permits' = {q \in Runs : at'[q] \in Admitted}
    <3>1. \A q \in Runs : at'[q] \in Admitted <=> at[q] \in Admitted /\ q \notin rs
      BY <1>1
    <3>2. permits = {q \in Runs : at[q] \in Admitted}
      BY DEF InLine
    <3>q. QED
      BY ONLY <1>3, <3>1, <3>2
  <2>q. QED
    BY <2>1, <2>2, <2>3, <2>4 DEF InLine
<1>7. ASSUME NEW q \in Runs PROVE Chains(q)'
  <2>1. CASE q \in rs
    <3>1. Linked(<<>>)
      BY SMT DEF Linked, IsInjective
    <3>q. QED
      BY <1>1, <1>3, <2>1, <3>1 DEF Chains
  <2>2. CASE q \notin rs
    <3>1. todo'[q] = todo[q] /\ chain'[q] = chain[q] /\ at'[q] = at[q]
      BY <1>1, <1>3, <2>2
    <3>q. QED
      BY <3>1 DEF Chains, Wanted
  <2>q. QED
    BY <2>1, <2>2
<1>8. KeyAlone'
  <2>1. ASSUME NEW c \in Creds, NEW q \in KeyHolders(c)' PROVE q \in KeyHolders(c)
    <3>1. q \in Runs /\ c \in Range(chain'[q])
      BY <2>1 DEF KeyHolders
    <3>2. q \notin rs
      BY <1>3, <3>1, SMT DEF Range
    <3>q. QED
      BY <1>1, <1>3, <2>1, <3>1, <3>2 DEF KeyHolders
  <2>q. QED
    BY <1>3, <2>1 DEF KeyAlone
<1>q. QED
  BY <1>2, <1>5, <1>6, <1>7, <1>8 DEF ExecInv

(* A run moves on among its credentials: nobody else does, but for the     *)
(* producer that it starts.                                                *)
Advances(r) ==
  /\ at'[r] \in Admitted /\ Chains(r)'
  /\ \A q \in Runs \ {r} : at'[q] = at[q] \/ (at[q] \in {"idle"} \cup Ended /\ at'[q] = "gateway")
  /\ \A q \in Runs \ {r} : todo'[q] = todo[q] /\ chain'[q] = chain[q]
  /\ at' \in [Runs -> {"idle", "gateway"} \cup Gated \cup Ended]
  /\ todo' \in [Runs -> Seq(Creds)] /\ chain' \in [Runs -> Seq(Creds)]

(* What is left to show of such a step: a key lock is taken when it is     *)
(* free, and written under only to be let go.                              *)
LEMMA AcquiringStep ==
  ASSUME ExecInv, NEW r \in Runs, UNCHANGED <<locks, pool>>, at[r] \in Acquiring, Advances(r),
         store' \in [Creds -> {"none", "fresh", "stale"}],
         \A c \in Creds : r \in KeyHolders(c)' =>
           (r \in KeyHolders(c) \/ KeyHolders(c) = {}) /\ store'[c] # "fresh",
         \A c \in Creds : store'[c] = "fresh" =>
           store[c] = "fresh" \/ (r \in KeyHolders(c) /\ r \notin KeyHolders(c)')
  PROVE  ExecInv'
<1> /\ TypeOK /\ HoldsInOrder /\ InLine /\ (\A q \in Runs : Chains(q)) /\ KeyAlone
    /\ at'[r] \in Admitted /\ Chains(r)'
    /\ \A q \in Runs \ {r} : at'[q] = at[q] \/ (at[q] \in {"idle"} \cup Ended /\ at'[q] = "gateway")
    /\ \A q \in Runs \ {r} : todo'[q] = todo[q] /\ chain'[q] = chain[q]
    /\ at' \in [Runs -> {"idle", "gateway"} \cup Gated \cup Ended]
    /\ todo' \in [Runs -> Seq(Creds)] /\ chain' \in [Runs -> Seq(Creds)]
  BY DEF ExecInv, Advances
<1>1. TypeOK'
  BY DEF TypeOK, locks, pool
<1>2. HoldsInOrder'
  BY LocksKept DEF Acquiring, Admitted, Locked, Gated, SlotAt, Ended
<1>3. InLine'
  <2>1. at[r] \in Admitted /\ at'[r] # "queued" /\ at[r] # "queued"
    BY DEF Acquiring, Admitted
  <2>2. \A q \in Runs : Stays(q, {"queued"}) /\ Stays(q, Admitted)
    BY <2>1 DEF Stays, Acquiring, Admitted, Ended
  <2>q. QED
    BY <2>2, LineKept
<1>4. ASSUME NEW q \in Runs \ {r} PROVE Chains(q)'
  <2>1. Chains(q) /\ todo'[q] = todo[q] /\ chain'[q] = chain[q]
    OBVIOUS
  <2>2. at'[q] = at[q] \/ (at[q] \notin Acquiring /\ at'[q] \notin Acquiring)
    BY DEF Acquiring, Ended
  <2>q. QED
    BY <2>1, <2>2 DEF Chains, Wanted, Acquiring
<1>5. KeyAlone'
  <2>1. ASSUME NEW c \in Creds, NEW q \in KeyHolders(c)', q # r PROVE q \in KeyHolders(c)
    <3>1. q \in Runs /\ c \in Range(chain[q]) /\ Chains(q)
      BY <2>1 DEF KeyHolders
    <3>2. chain[q] # <<>>
      BY <3>1, SMT DEF Range
    <3>3. at'[q] = at[q]
      BY <2>1, <3>1, <3>2 DEF Chains, Acquiring, Ended
    <3>q. QED
      BY <2>1, <3>1, <3>3 DEF KeyHolders
  <2>2. ASSUME NEW c \in Creds, NEW q \in KeyHolders(c)' PROVE store'[c] # "fresh"
    <3>1. CASE q = r
      BY <2>2, <3>1
    <3>2. CASE q # r
      <4>1. q \in KeyHolders(c)
        BY <2>1, <2>2, <3>2
      <4>2. store[c] # "fresh" /\ r \notin KeyHolders(c)
        BY <3>2, <4>1 DEF KeyAlone
      <4>q. QED
        BY <4>2
    <3>q. QED
      BY <3>1, <3>2
  <2>3. ASSUME NEW c \in Creds, NEW q \in KeyHolders(c)', NEW p \in KeyHolders(c)' PROVE q = p
    BY <2>1, <2>3, SMT DEF KeyAlone
  <2>q. QED
    BY <2>2, <2>3 DEF KeyAlone
<1>q. QED
  BY <1>1, <1>2, <1>3, <1>4, <1>5, SMT DEF ExecInv

(* The material of one credential is there: on to the next one, to the     *)
(* driver, or back to the credential that delegated.                       *)
LEMMA ObtainedStep ==
  ASSUME ExecInv, NEW r \in Runs, at[r] \in Acquiring,
         NEW outer \in Seq(Creds), Linked(outer), Obtained(r, outer)
  PROVE  at'[r] \in {"run", "cell", "got"} /\ chain'[r] = outer /\ Advances(r)
<1> USE DEF Acquiring, Admitted, Locked, Gated, Ended
<1> TypeOK /\ Chains(r)
  BY DEF ExecInv
<1>0. todo[r] \in Seq(Creds) /\ todo[r] # <<>>
  BY DEF TypeOK, Chains
<1>1. /\ Tail(todo[r]) \in Seq(Creds) /\ Len(todo[r]) \in Nat
      /\ Len(todo[r]) # 1 => Tail(todo[r]) # <<>>
  <2>1. /\ Len(todo[r]) \in Nat \ {0} /\ Tail(todo[r]) \in Seq(Creds)
        /\ Len(Tail(todo[r])) = Len(todo[r]) - 1
    BY <1>0, HeadTailProperties, SMT
  <2>2. Len(todo[r]) # 1 => Len(Tail(todo[r])) # 0
    BY <2>1, SMT
  <2>q. QED
    BY <2>1, <2>2, EmptySeq
<1>2. /\ chain' = [chain EXCEPT ![r] = outer]
      /\ \/ /\ outer = <<>> /\ todo' = [todo EXCEPT ![r] = Tail(@)]
            /\ \/ Len(todo[r]) = 1 /\ at' = [at EXCEPT ![r] = "run"]
               \/ Len(todo[r]) # 1 /\ at' = [at EXCEPT ![r] = "cell"]
         \/ outer # <<>> /\ todo' = todo /\ at' = [at EXCEPT ![r] = "got"]
  BY DEF Obtained, Go
<1>3. chain'[r] = outer /\ chain' \in [Runs -> Seq(Creds)] /\ \A q \in Runs \ {r} : chain'[q] = chain[q]
  BY <1>2 DEF TypeOK
<1>4. /\ at'[r] \in {"run", "cell", "got"} /\ \A q \in Runs \ {r} : at'[q] = at[q]
      /\ at' \in [Runs -> {"idle", "gateway"} \cup Gated \cup Ended]
      /\ outer # <<>> <=> at'[r] = "got"
  BY <1>2 DEF TypeOK
<1>5. /\ \A q \in Runs \ {r} : todo'[q] = todo[q]
      /\ todo' \in [Runs -> Seq(Creds)] /\ todo'[r] \in {todo[r], Tail(todo[r])}
  BY <1>0, <1>1, <1>2 DEF TypeOK
<1>6. at'[r] # "run" => todo'[r] # <<>>
  BY <1>0, <1>1, <1>2 DEF TypeOK
<1>7. Chains(r)'
  BY <1>3, <1>4, <1>6 DEF Chains
<1>q. QED
  BY <1>3, <1>4, <1>5, <1>7 DEF Advances

(* A step of a run that leaves its credentials as they are.                *)
LEMMA PlaceStep ==
  ASSUME ExecInv, NEW r \in Runs, UNCHANGED <<locks, pool, todo, chain>>, NEW w \in Acquiring \ {"producing"},
         at[r] \in Acquiring \ {"cell"},
         w = "cell" => Wanted(r) \in Creds \ Range(chain[r]),
         at' = [at EXCEPT ![r] = w]
  PROVE  at'[r] = w /\ Advances(r)
<1>1. TypeOK /\ Chains(r)
  BY DEF ExecInv
<1>2. at'[r] = w /\ \A q \in Runs \ {r} : at'[q] = at[q]
  BY <1>1 DEF TypeOK
<1>3. at' \in [Runs -> {"idle", "gateway"} \cup Gated \cup Ended]
  BY <1>1 DEF TypeOK, Gated, Locked, Admitted
<1>4. Chains(r)'
  BY <1>1, <1>2 DEF Chains, Wanted
<1>q. QED
  BY <1>1, <1>2, <1>3, <1>4 DEF TypeOK, Advances, Admitted

(* The initial state.                                                      *)
LEMMA InitExec == Init => ExecInv
<1> SUFFICES ASSUME Init PROVE ExecInv
  OBVIOUS
<1>1. TypeOK
  BY SMT DEF Init, TypeOK
<1>2. HoldsInOrder
  BY DEF Init, HoldsInOrder
<1>3. Range(<<>>) = {} /\ IsInjective(<<>>) /\ Linked(<<>>)
  BY SMT DEF Range, IsInjective, Linked
<1>4. InLine
  BY <1>3 DEF Init, InLine, Acquiring, Admitted
<1>5. \A r \in Runs : Chains(r)
  BY <1>3 DEF Init, Chains, Acquiring
<1>6. KeyAlone
  BY <1>3 DEF Init, KeyAlone, KeyHolders
<1>q. QED
  BY <1>1, <1>2, <1>4, <1>5, <1>6 DEF ExecInv

(* A credential a run may want: it is one, and is not being acquired.      *)
LEMMA WantedAtCell ==
  ASSUME ExecInv, NEW r \in Runs, at[r] = "cell"
  PROVE  /\ chain[r] \in Seq(Creds) /\ Linked(chain[r]) /\ Wanted(r) \in Creds
         /\ Wanted(r) \notin Range(chain[r])
         /\ chain[r] # <<>> => Wanted(r) = Via[Last(chain[r])]
<1>1. chain[r] \in Seq(Creds) /\ todo[r] \in Seq(Creds) /\ Chains(r)
  BY DEF ExecInv, TypeOK
<1>2. todo[r] # <<>>
  BY <1>1 DEF Chains, Acquiring
<1>3. Head(todo[r]) \in Creds
  BY <1>1, <1>2, HeadTailProperties
<1>4. CASE chain[r] = <<>>
  <2>1. Range(chain[r]) = {}
    BY <1>4, SMT DEF Range
  <2>q. QED
    BY <1>1, <1>3, <1>4, <2>1 DEF Chains, Wanted
<1>5. CASE chain[r] # <<>>
  BY <1>1, <1>5 DEF Chains, Wanted
<1>q. QED
  BY <1>4, <1>5

(* An innermost credential.                                                *)
LEMMA Innermost ==
  ASSUME ExecInv, NEW r \in Runs, at[r] \in Acquiring \ {"cell"}
  PROVE  /\ chain[r] \in Seq(Creds) /\ Linked(chain[r]) /\ chain[r] # <<>>
         /\ Last(chain[r]) \in Creds /\ Last(chain[r]) \in Range(chain[r])
         /\ Wanted(r) = Via[Last(chain[r])]
<1>1. chain[r] \in Seq(Creds) /\ Chains(r)
  BY DEF ExecInv, TypeOK
<1>2. chain[r] # <<>> /\ Linked(chain[r])
  BY <1>1 DEF Chains
<1>q. QED
  BY <1>1, <1>2, FrontLinked DEF Wanted

(* Whose key locks a run holds.                                            *)
LEMMA KeysOf ==
  ASSUME NEW r \in Runs, NEW c
  PROVE  /\ r \in KeyHolders(c) <=>
              c \in Range(chain[r]) /\ ~(at[r] \in {"stale", "key"} /\ Last(chain[r]) = c)
         /\ r \in KeyHolders(c)' <=>
              c \in Range(chain'[r]) /\ ~(at'[r] \in {"stale", "key"} /\ Last(chain'[r]) = c)
BY DEF KeyHolders

(* A cell, with or without its material.                                   *)
LEMMA CellStep ==
  ASSUME ExecInv, NEW r \in Runs, TakeCell(r)
  PROVE  ExecInv'
<1> DEFINE c == Wanted(r)
           w == IF store[c] = "stale" THEN "stale" ELSE "key"
<1>1. UNCHANGED <<locks, pool>> /\ store' = store /\ at[r] = "cell" /\ at[r] \in Acquiring
  BY DEF TakeCell, Acquiring
<1>2. /\ chain[r] \in Seq(Creds) /\ Linked(chain[r]) /\ c \in Creds /\ c \notin Range(chain[r])
      /\ chain[r] # <<>> => c = Via[Last(chain[r])]
  BY <1>1, WantedAtCell
<1>3. TypeOK /\ KeyAlone /\ Chains(r)
  BY DEF ExecInv
<1>4. store' \in [Creds -> {"none", "fresh", "stale"}]
  BY <1>1, <1>3 DEF TypeOK
<1>5. ASSUME NEW x \in Creds, x \in Range(chain[r]) PROVE r \in KeyHolders(x) /\ store'[x] # "fresh"
  <2>1. r \in KeyHolders(x)
    BY <1>1, <1>5, KeysOf
  <2>q. QED
    BY <1>1, <1>3, <2>1 DEF KeyAlone
<1>6. CASE Obtained(r, chain[r])
  <2>1. at'[r] \in {"run", "cell", "got"} /\ chain'[r] = chain[r] /\ Advances(r)
    BY <1>1, <1>2, <1>6, ObtainedStep
  <2>2. ASSUME NEW x \in Creds, r \in KeyHolders(x)' PROVE r \in KeyHolders(x) /\ store'[x] # "fresh"
    BY <1>5, <2>1, <2>2, KeysOf
  <2>q. QED
    BY <1>1, <1>4, <2>1, <2>2, AcquiringStep
<1>7. CASE chain' = [chain EXCEPT ![r] = Append(@, c)] /\ at' = [at EXCEPT ![r] = w] /\ todo' = todo
  <2>0. w \in {"stale", "key"}
    OBVIOUS
  <2>1. /\ Append(chain[r], c) \in Seq(Creds) /\ Append(chain[r], c) # <<>>
        /\ Linked(Append(chain[r], c)) /\ Last(Append(chain[r], c)) = c
        /\ Range(Append(chain[r], c)) = Range(chain[r]) \cup {c}
    BY <1>2, AppendLinked
  <2>2. /\ chain'[r] = Append(chain[r], c) /\ at'[r] = w
        /\ \A q \in Runs \ {r} : at'[q] = at[q] /\ todo'[q] = todo[q] /\ chain'[q] = chain[q]
    BY <1>3, <1>7 DEF TypeOK
  <2>3. at' \in [Runs -> {"idle", "gateway"} \cup Gated \cup Ended]
    BY <1>3, <1>7, <2>0 DEF TypeOK, Gated, Locked, Admitted, Acquiring
  <2>4. todo' \in [Runs -> Seq(Creds)] /\ chain' \in [Runs -> Seq(Creds)]
    BY <1>3, <1>7, <2>1 DEF TypeOK
  <2>5. Chains(r)'
    <3>1. todo[r] # <<>>
      BY <1>1, <1>3 DEF Chains
    <3>q. QED
      BY <1>7, <2>0, <2>1, <2>2, <3>1 DEF Chains, Acquiring
  <2>6. Advances(r)
    BY <2>0, <2>2, <2>3, <2>4, <2>5 DEF Advances, Admitted, Acquiring
  <2>7. ASSUME NEW x \in Creds, r \in KeyHolders(x)' PROVE r \in KeyHolders(x) /\ store'[x] # "fresh"
    <3>1. x \in Range(chain[r])
      BY <2>0, <2>1, <2>2, <2>7, KeysOf
    <3>q. QED
      BY <1>5, <3>1
  <2>q. QED
    BY <1>1, <1>4, <2>6, <2>7, AcquiringStep
<1>q. QED
  BY <1>6, <1>7 DEF TakeCell, Go

(* A lapsed entry.                                                         *)
LEMMA StaleStep ==
  ASSUME ExecInv, NEW r \in Runs, RemoveStale(r)
  PROVE  ExecInv'
<1>1. /\ UNCHANGED <<locks, pool>> /\ at[r] \in Acquiring \ {"cell"} /\ at[r] = "stale"
      /\ todo' = todo /\ chain' = chain /\ at' = [at EXCEPT ![r] = "key"]
      /\ store' = [store EXCEPT ![Last(chain[r])] = "none"]
  BY DEF RemoveStale, Go, Acquiring
<1>2. TypeOK /\ KeyAlone
  BY DEF ExecInv
<1>3. at'[r] = "key" /\ Advances(r)
  BY <1>1, PlaceStep DEF Acquiring
<1>4. /\ store' \in [Creds -> {"none", "fresh", "stale"}]
      /\ \A c \in Creds : store'[c] = "fresh" => store[c] = "fresh"
  BY <1>1, <1>2 DEF TypeOK
<1>5. ASSUME NEW c \in Creds, r \in KeyHolders(c)' PROVE r \in KeyHolders(c) /\ store'[c] # "fresh"
  <2>1. r \in KeyHolders(c)
    BY <1>1, <1>3, <1>5, KeysOf
  <2>q. QED
    BY <1>2, <1>4, <2>1 DEF KeyAlone
<1>q. QED
  BY <1>1, <1>3, <1>4, <1>5, AcquiringStep

(* The key lock, and the disk again.                                       *)
LEMMA KeyStep ==
  ASSUME ExecInv, NEW r \in Runs, TakeKey(r)
  PROVE  ExecInv'
<1> DEFINE c == Last(chain[r])
<1>1. /\ UNCHANGED <<locks, pool>> /\ at[r] \in Acquiring \ {"cell"} /\ at[r] = "key"
      /\ KeyHolders(c) = {}
  BY DEF TakeKey, Acquiring
<1>2. TypeOK /\ KeyAlone
  BY DEF ExecInv
<1>3. chain[r] \in Seq(Creds) /\ Linked(chain[r]) /\ chain[r] # <<>> /\ c \in Creds
  BY <1>1, Innermost
<1>4. CASE Obtained(r, Front(chain[r])) /\ store' = store
  <2>1. /\ Front(chain[r]) \in Seq(Creds) /\ Linked(Front(chain[r]))
        /\ Range(Front(chain[r])) = Range(chain[r]) \ {c}
    BY <1>3, FrontLinked
  <2>2. at'[r] \in {"run", "cell", "got"} /\ chain'[r] = Front(chain[r]) /\ Advances(r)
    BY <1>1, <1>4, <2>1, ObtainedStep
  <2>3. ASSUME NEW x \in Creds, r \in KeyHolders(x)' PROVE r \in KeyHolders(x) /\ store'[x] # "fresh"
    <3>1. r \in KeyHolders(x)
      BY <2>1, <2>2, <2>3, KeysOf
    <3>q. QED
      BY <1>2, <1>4, <3>1 DEF KeyAlone
  <2>4. store' \in [Creds -> {"none", "fresh", "stale"}]
    BY <1>2, <1>4 DEF TypeOK
  <2>q. QED
    BY <1>1, <1>4, <2>2, <2>3, <2>4, AcquiringStep
<1>5. CASE /\ at' = [at EXCEPT ![r] = "obtain"] /\ todo' = todo /\ chain' = chain
           /\ store' = [store EXCEPT ![c] = "none"]
  <2>1. at'[r] = "obtain" /\ Advances(r)
    BY <1>1, <1>5, PlaceStep DEF Acquiring
  <2>2. /\ store' \in [Creds -> {"none", "fresh", "stale"}] /\ store'[c] = "none"
        /\ \A x \in Creds : store'[x] = "fresh" => store[x] = "fresh"
    BY <1>2, <1>3, <1>5 DEF TypeOK
  <2>3. ASSUME NEW x \in Creds, r \in KeyHolders(x)'
        PROVE (r \in KeyHolders(x) \/ KeyHolders(x) = {}) /\ store'[x] # "fresh"
    <3>1. CASE x = c
      BY <1>1, <2>2, <3>1
    <3>2. CASE x # c
      <4>1. r \in KeyHolders(x)
        BY <1>5, <2>3, <3>2, KeysOf
      <4>q. QED
        BY <1>2, <2>2, <4>1 DEF KeyAlone
    <3>q. QED
      BY <3>1, <3>2
  <2>q. QED
    BY <1>1, <2>1, <2>2, <2>3, AcquiringStep
<1>q. QED
  BY <1>4, <1>5 DEF TakeKey, Go

(* A delegation.                                                           *)
LEMMA DelegateStep ==
  ASSUME ExecInv, NEW r \in Runs, Delegate(r)
  PROVE  ExecInv'
<1>1. /\ UNCHANGED <<locks, pool>> /\ at[r] \in Acquiring \ {"cell"} /\ at[r] = "obtain"
      /\ todo' = todo /\ chain' = chain /\ store' = store /\ at' = [at EXCEPT ![r] = "cell"]
      /\ Wanted(r) \in Creds \ Range(chain[r])
  BY DEF Delegate, Go, Acquiring, credentials
<1>2. TypeOK /\ KeyAlone
  BY DEF ExecInv
<1>3. at'[r] = "cell" /\ Advances(r)
  BY <1>1, PlaceStep DEF Acquiring
<1>4. store' \in [Creds -> {"none", "fresh", "stale"}]
  BY <1>1, <1>2 DEF TypeOK
<1>5. ASSUME NEW c \in Creds, r \in KeyHolders(c)' PROVE r \in KeyHolders(c) /\ store'[c] # "fresh"
  <2>1. r \in KeyHolders(c)
    BY <1>1, <1>3, <1>5, KeysOf
  <2>q. QED
    BY <1>1, <1>2, <2>1 DEF KeyAlone
<1>q. QED
  BY <1>1, <1>3, <1>4, <1>5, AcquiringStep

(* The run of a producer.                                                  *)
LEMMA ProduceStep ==
  ASSUME ExecInv, NEW r \in Runs, Produce(r)
  PROVE  ExecInv'
<1> DEFINE d == Producer(r)
<1>1. /\ UNCHANGED <<locks, pool>> /\ at[r] \in Acquiring \ {"cell"} /\ at[r] = "obtain"
      /\ todo' = todo /\ chain' = chain /\ store' = store /\ Wanted(r) \in Targets
      /\ at[d] \in {"idle"} \cup Ended
      /\ at' = [at EXCEPT ![r] = "producing", ![d] = "gateway"]
  BY DEF Produce, Acquiring, credentials
<1>2. TypeOK /\ KeyAlone /\ Chains(r)
  BY DEF ExecInv
<1>3. d \in Runs /\ d # r
  <2>1. Last(chain[r]) \in Creds /\ Via[Last(chain[r])] \in Targets
    BY <1>1, Innermost
  <2>2. \A c \in Creds : Via[c] \in Targets => <<r[1], Via[c]>> \in Runs
    BY RunAssumption
  <2>q. QED
    BY <1>1, <2>1, <2>2 DEF Producer, Ended
<1>4. at'[r] = "producing" /\ at'[d] = "gateway" /\ \A q \in Runs \ {r, d} : at'[q] = at[q]
  BY <1>1, <1>2, <1>3 DEF TypeOK
<1>5. at' \in [Runs -> {"idle", "gateway"} \cup Gated \cup Ended]
  BY <1>1, <1>2 DEF TypeOK, Gated, Locked, Admitted, Acquiring
<1>6. Chains(r)'
  <2>1. Wanted(r)' = Wanted(r)
    BY <1>1 DEF Wanted
  <2>q. QED
    BY <1>1, <1>2, <1>4, <2>1 DEF Chains, Acquiring
<1>7. Advances(r)
  BY <1>1, <1>2, <1>4, <1>5, <1>6 DEF Advances, TypeOK, Admitted, Acquiring
<1>8. store' \in [Creds -> {"none", "fresh", "stale"}]
  BY <1>1, <1>2 DEF TypeOK
<1>9. ASSUME NEW c \in Creds, r \in KeyHolders(c)' PROVE r \in KeyHolders(c) /\ store'[c] # "fresh"
  <2>1. r \in KeyHolders(c)
    BY <1>1, <1>4, <1>9, KeysOf
  <2>q. QED
    BY <1>1, <1>2, <2>1 DEF KeyAlone
<1>q. QED
  BY <1>1, <1>7, <1>8, <1>9, AcquiringStep

(* What a step that keeps material starts from.                            *)
LEMMA Material ==
  ASSUME ExecInv, NEW r \in Runs, HasMaterial(r)
  PROVE  /\ at[r] \in Acquiring \ {"cell", "stale", "key"}
         /\ Last(chain[r]) \in Creds /\ r \in KeyHolders(Last(chain[r]))
         /\ store[Last(chain[r])] # "fresh"
<1>1. at[r] \in Acquiring \ {"cell", "stale", "key"}
  BY DEF HasMaterial, Acquiring
<1>2. Last(chain[r]) \in Creds /\ Last(chain[r]) \in Range(chain[r])
  BY <1>1, Innermost
<1>3. r \in KeyHolders(Last(chain[r]))
  BY <1>1, <1>2, KeysOf
<1>q. QED
  BY <1>1, <1>2, <1>3 DEF ExecInv, KeyAlone

(* The material is kept, and cell and key let go.                          *)
LEMMA KeepStep ==
  ASSUME ExecInv, NEW r \in Runs, Keep(r)
  PROVE  ExecInv'
<1>0. PICK c : c = Last(chain[r])
  OBVIOUS
<1>1. /\ UNCHANGED <<locks, pool>> /\ HasMaterial(r) /\ Obtained(r, Front(chain[r]))
      /\ store' = [store EXCEPT ![c] = IF c \in Expiring THEN "fresh" ELSE @]
  BY <1>0 DEF Keep
<1>2. /\ at[r] \in Acquiring \ {"cell"} /\ at[r] \in Acquiring /\ at[r] \notin {"stale", "key"}
      /\ c \in Creds /\ r \in KeyHolders(c)
  BY <1>0, <1>1, Material
<1>3. TypeOK /\ KeyAlone
  BY DEF ExecInv
<1>4. /\ chain[r] \in Seq(Creds) /\ Linked(chain[r]) /\ chain[r] # <<>>
  BY <1>2, Innermost
<1>5. /\ Front(chain[r]) \in Seq(Creds) /\ Linked(Front(chain[r]))
      /\ Range(Front(chain[r])) = Range(chain[r]) \ {c}
  BY <1>0, <1>4, FrontLinked
<1>6. chain'[r] = Front(chain[r]) /\ Advances(r)
  BY <1>1, <1>2, <1>5, ObtainedStep
<1>7. /\ store' \in [Creds -> {"none", "fresh", "stale"}]
      /\ \A x \in Creds \ {c} : store'[x] = store[x]
  BY <1>1, <1>3 DEF TypeOK
<1>8. r \notin KeyHolders(c)'
  BY <1>5, <1>6, KeysOf
<1>9. ASSUME NEW x \in Creds, r \in KeyHolders(x)' PROVE r \in KeyHolders(x) /\ store'[x] # "fresh"
  <2>1. x # c /\ r \in KeyHolders(x)
    BY <1>2, <1>5, <1>6, <1>9, KeysOf
  <2>q. QED
    BY <1>3, <1>7, <2>1 DEF KeyAlone
<1>10. ASSUME NEW x \in Creds, store'[x] = "fresh"
       PROVE  store[x] = "fresh" \/ (r \in KeyHolders(x) /\ r \notin KeyHolders(x)')
  BY <1>2, <1>7, <1>8, <1>10
<1>q. QED
  BY <1>1, <1>2, <1>6, <1>7, <1>9, <1>10, AcquiringStep

(* Time passes.                                                            *)
LEMMA LapseStep ==
  ASSUME ExecInv, NEW c \in Creds, Lapse(c)
  PROVE  ExecInv'
<1>1. /\ at' = at /\ UNCHANGED locks /\ UNCHANGED pool /\ todo' = todo /\ chain' = chain
      /\ store' = [store EXCEPT ![c] = "stale"]
  BY DEF Lapse
<1>2. TypeOK /\ HoldsInOrder /\ InLine /\ (\A r \in Runs : Chains(r)) /\ KeyAlone
  BY DEF ExecInv
<1>3. /\ store' \in [Creds -> {"none", "fresh", "stale"}]
      /\ \A x \in Creds : store'[x] = store[x] \/ store'[x] # "fresh"
  BY <1>1, <1>2 DEF TypeOK
<1>4. TypeOK'
  BY <1>1, <1>2, <1>3 DEF TypeOK, locks, pool
<1>5. HoldsInOrder'
  BY <1>1, <1>2, LocksKept
<1>6. InLine'
  BY <1>1, <1>2, LineKept DEF Stays
<1>7. (\A r \in Runs : Chains(r)') /\ KeyAlone'
  BY <1>1, <1>2, <1>3, CredentialsKept
<1>q. QED
  BY <1>4, <1>5, <1>6, <1>7 DEF ExecInv

(* A run that ends where it is, outside the line.                          *)
LEMMA FailStep ==
  ASSUME ExecInv, NEW r \in Runs, SlotFails(r) \/ Fail(r)
  PROVE  ExecInv'
<1>1. Abandon({r}) /\ at[r] # "queued"
  BY DEF SlotFails, Fail
<1>2. \A p \in Procs : {r} \cap Range(queue[p]) = {}
  <2>1. \A p \in Procs : r \notin Range(queue[p])
    BY <1>1 DEF ExecInv, InLine
  <2>q. QED
    BY <2>1
<1>3. {r} \in SUBSET Runs
  OBVIOUS
<1>q. QED
  BY <1>1, <1>2, <1>3, AbandonStep

(* The runs of a process.                                                  *)
LEMMA CancelStep ==
  ASSUME ExecInv, NEW p \in Procs, Cancel(p)
  PROVE  ExecInv'
<1> DEFINE rs == {r \in Runs : r[1] = p /\ at[r] \notin Ended}
<1>1. Abandon(rs) /\ rs \in SUBSET Runs
  BY DEF Cancel
<1>2. TypeOK /\ InLine
  BY DEF ExecInv
<1>3. ASSUME NEW x \in Procs PROVE rs \cap Range(queue[x]) = {} \/ Range(queue[x]) \subseteq rs
  <2>1. \A q \in Range(queue[x]) : q \in Runs /\ q[1] = x /\ at[q] = "queued"
    <3>1. queue[x] \in Seq(Runs)
      BY <1>2 DEF TypeOK
    <3>2. \A q \in Range(queue[x]) : q \in Runs
      BY <3>1, SMT DEF Range
    <3>q. QED
      BY <1>2, <3>2 DEF InLine
  <2>2. CASE x = p
    BY <2>1, <2>2 DEF Ended
  <2>3. CASE x # p
    BY <2>1, <2>3
  <2>q. QED
    BY <2>2, <2>3
<1>q. QED
  BY <1>1, <1>3, AbandonStep

(* Every step keeps the invariant.                                         *)
LEMMA NextExec == ExecInv /\ [Next]_vars => ExecInv'
<1> SUFFICES ASSUME ExecInv, [Next]_vars PROVE ExecInv'
  OBVIOUS
<1>1. ASSUME NEW r \in Runs, Step(r) PROVE ExecInv'
  BY <1>1, EarlySteps, SlotStep, LockStep, AdmitStep, CellStep, StaleStep, KeyStep, DelegateStep,
     ProduceStep, KeepStep, LateSteps, FailStep DEF Step
<1>2. CASE UNCHANGED vars
  <2>1. /\ at' = at /\ UNCHANGED locks /\ UNCHANGED pool /\ UNCHANGED credentials
    BY <1>2 DEF vars
  <2>2. gate' = gate /\ slot' = slot /\ exec' = exec /\ queue' = queue /\ permits' = permits
        /\ todo' = todo /\ chain' = chain /\ store' = store
    BY <2>1 DEF locks, pool, credentials
  <2>3. TypeOK' /\ HoldsInOrder' /\ InLine'
    <3>1. TypeOK'
      BY <2>1, <2>2 DEF ExecInv, TypeOK
    <3>2. HoldsInOrder' /\ InLine'
      BY <2>1, LocksKept, LineKept DEF ExecInv, Stays
    <3>q. QED
      BY <3>1, <3>2
  <2>4. (\A r \in Runs : Chains(r)') /\ KeyAlone'
    BY <2>1, <2>2, CredentialsKept DEF ExecInv
  <2>q. QED
    BY <2>3, <2>4 DEF ExecInv
<1>q. QED
  BY <1>1, <1>2, FailStep, CancelStep, LapseStep DEF Next

(* ExecInv is an invariant: who holds a lock, a slot, a reservation or a   *)
(* key of a credential is where the code has it in hand, slots are held    *)
(* from the first on, and a key lock has one holder (execute, lease_slots, *)
(* walk_and_acquire).                                                      *)
THEOREM ExecInvariant == Spec => []ExecInv
  BY InitExec, NextExec, PTL DEF Spec

(* Material is not obtained while there is usable material on disk: for    *)
(* any runs, processes and credentials (walk_and_acquire).                 *)
THEOREM ObtainedOnce == Spec => NotObtainedTwice
<1>1. ExecInv => \A r \in Runs : HasMaterial(r) => store[Last(chain[r])] # "fresh"
  BY Material
<1>2. ExecInv /\ [Next]_vars =>
        [\A r \in Runs :
           HasMaterial(r) /\ Len(chain'[r]) < Len(chain[r]) /\ at'[r] # "failed"
             => store[Last(chain[r])] # "fresh"]_vars
  BY <1>1
<1>q. QED
  BY <1>2, ExecInvariant, PTL DEF Spec, NotObtainedTwice

------------------------------------------------------------------------------
(* What a run's step leaves alone: the runs and the line of the other      *)
(* processes.                                                              *)
LEMMA LocalStep ==
  ASSUME ExecInv, NEW x \in Runs, Step(x) \/ SlotFails(x), NEW q \in Runs, q[1] # x[1]
  PROVE  /\ at'[q] = at[q] /\ todo'[q] = todo[q] /\ chain'[q] = chain[q]
         /\ queue'[q[1]] = queue[q[1]]
<1>0. TypeOK /\ InLine /\ q # x /\ q[1] \in Procs
  BY Basics DEF ExecInv
<1>1. CASE Start(x) \/ TakeGateway(x) \/ ResolveDeps(x) \/ AcquireSlot(x) \/ Cache(x) \/ Run(x)
  BY <1>0, <1>1 DEF Start, TakeGateway, ResolveDeps, AcquireSlot, Cache, Run, Go, TypeOK, pool, credentials
<1>2. CASE LockExecute(x) \/ Admit(x)
  BY <1>0, <1>2 DEF LockExecute, Admit, Go, TypeOK, credentials
<1>3. CASE RemoveStale(x) \/ Delegate(x)
  BY <1>0, <1>3 DEF RemoveStale, Delegate, Go, TypeOK, pool, credentials
<1>4. ASSUME NEW o, Obtained(x, o), UNCHANGED pool
      PROVE  /\ at'[q] = at[q] /\ todo'[q] = todo[q] /\ chain'[q] = chain[q]
             /\ queue'[q[1]] = queue[q[1]]
  BY <1>0, <1>4 DEF Obtained, Go, TypeOK, pool
<1>5. CASE TakeCell(x)
  BY <1>0, <1>4, <1>5 DEF TakeCell, Go, TypeOK, pool
<1>6. CASE TakeKey(x)
  BY <1>0, <1>4, <1>6 DEF TakeKey, Go, TypeOK, pool
<1>7. CASE Keep(x)
  BY <1>4, <1>7 DEF Keep
<1>8. CASE Produce(x)
  <2>1. Producer(x)[1] = x[1]
    BY DEF Producer
  <2>2. q # Producer(x)
    BY <2>1
  <2>q. QED
    BY <1>0, <1>8, <2>2 DEF Produce, TypeOK, pool, credentials
<1>9. CASE SlotFails(x) \/ Fail(x)
  <2>1. Abandon({x}) /\ at[x] # "queued"
    BY <1>9 DEF SlotFails, Fail
  <2>2. x \notin Range(queue[q[1]])
    BY <1>0, <2>1 DEF InLine
  <2>3. q \notin {x} /\ {x} \cap Range(queue[q[1]]) = {}
    BY <1>0, <2>2
  <2>q. QED
    BY <1>0, <2>1, <2>3 DEF Abandon
<1>q. QED
  BY <1>1, <1>2, <1>3, <1>5, <1>6, <1>7, <1>8, <1>9 DEF Step

(* Before the pool and after the driver, a run's step concerns no other,   *)
(* and at most puts it at the end of the line.                             *)
LEMMA UnadmittedStep ==
  ASSUME ExecInv, NEW x \in Runs, Step(x) \/ SlotFails(x), at[x] \notin Admitted \cup {"queued"}
  PROVE  /\ \A q \in Runs \ {x} : at'[q] = at[q] /\ todo'[q] = todo[q] /\ chain'[q] = chain[q]
         /\ at'[x] \notin Admitted
         /\ queue'[x[1]] \in {queue[x[1]], Append(queue[x[1]], x)}
<1>0. TypeOK /\ InLine /\ x[1] \in Procs
  BY Basics DEF ExecInv
<1>1. CASE Start(x) \/ TakeGateway(x) \/ ResolveDeps(x) \/ AcquireSlot(x) \/ Cache(x)
  BY <1>0, <1>1 DEF Start, TakeGateway, ResolveDeps, AcquireSlot, Cache, Go, TypeOK, pool,
                    credentials, Admitted, Acquiring
<1>2. CASE LockExecute(x)
  BY <1>0, <1>2 DEF LockExecute, Go, TypeOK, credentials, Admitted, Acquiring
<1>3. CASE SlotFails(x) \/ Fail(x)
  <2>1. Abandon({x}) /\ x \notin Range(queue[x[1]])
    BY <1>0, <1>3 DEF SlotFails, Fail, InLine
  <2>2. {x} \cap Range(queue[x[1]]) = {}
    BY <2>1
  <2>q. QED
    BY <1>0, <2>1, <2>2 DEF Abandon, Admitted, Acquiring
<1>4. at[x] \notin {"run", "queued", "cell", "stale", "key", "obtain", "producing", "got"}
  BY DEF Admitted, Acquiring
<1>q. QED
  BY <1>1, <1>2, <1>3, <1>4 DEF Step, Run, Admit, TakeCell, RemoveStale, TakeKey, Delegate, Produce,
                                Keep, HasMaterial

(* Who is waited for as a producer is a run.                               *)
LEMMA ProducerIsARun ==
  ASSUME ExecInv, NEW r \in Runs, at[r] = "producing"
  PROVE  Producer(r) \in Runs
<1>1. Last(chain[r]) \in Creds /\ Wanted(r) = Via[Last(chain[r])]
  BY Innermost DEF Acquiring
<1>2. Wanted(r) \in Targets
  BY DEF ExecInv, Chains
<1>3. \A c \in Creds : Via[c] \in Targets => <<r[1], Via[c]>> \in Runs
  BY RunAssumption
<1>q. QED
  BY <1>1, <1>2, <1>3 DEF Producer

(* A run stays starved while the runs of its process that are in line or   *)
(* admitted stay where they are, and nobody gets in before its producer.   *)
LEMMA StarvedFrame ==
  ASSUME ExecInv, ExecInv', NEW r \in Runs, Starves(r),
         \A q \in Runs : q[1] = r[1] /\ at[q] \in Admitted \cup {"queued"} =>
            at'[q] = at[q] /\ todo'[q] = todo[q] /\ chain'[q] = chain[q],
         \A q \in Runs : q[1] = r[1] /\ at'[q] \in Admitted => at[q] \in Admitted,
         Head(queue'[r[1]]) = Head(queue[r[1]])
  PROVE  Starves(r)'
<1> DEFINE d == Producer(r)
<1>1. /\ at[r] = "producing" /\ at[d] = "queued" /\ Head(queue[r[1]]) = d /\ ~Fits(d)
      /\ \A q \in permits : q[1] = r[1] /\ q # r => at[q] = "cell" /\ Wanted(q) \in Range(chain[r])
  BY DEF Starves
<1>2. permits = {q \in Runs : at[q] \in Admitted} /\ permits' = {q \in Runs : at'[q] \in Admitted}
  BY DEF ExecInv, InLine
<1>3. at'[r] = "producing" /\ chain'[r] = chain[r]
  BY <1>1 DEF Admitted, Acquiring
<1>4. d \in Runs /\ d[1] = r[1] /\ d' = d
  <2>1. d[1] = r[1] /\ d' = d
    BY <1>3 DEF Producer
  <2>2. d \in Runs
    BY <1>1, ProducerIsARun
  <2>q. QED
    BY <2>1, <2>2
<1>5. at'[d] = "queued"
  BY <1>1, <1>4
<1>6. \A q : q \in permits' /\ q[1] = r[1] <=> q \in permits /\ q[1] = r[1]
  BY <1>2
<1>7. Fits(d)' = Fits(d)
  <2>1. {q \in permits' : q[1] = r[1]} = {q \in permits : q[1] = r[1]}
    BY <1>6
  <2>2. Reserved(r[1])' = Reserved(r[1])
    BY <2>1 DEF Reserved
  <2>q. QED
    BY <1>4, <2>2 DEF Fits
<1>8. ASSUME NEW q \in permits', q[1] = r[1], q # r PROVE at'[q] = "cell" /\ Wanted(q)' \in Range(chain[r])
  <2>1. q \in permits /\ q \in Runs /\ at[q] \in Admitted
    BY <1>2, <1>6, <1>8
  <2>2. at'[q] = at[q] /\ todo'[q] = todo[q] /\ chain'[q] = chain[q]
    BY <1>8, <2>1
  <2>3. Wanted(q)' = Wanted(q)
    BY <2>2 DEF Wanted
  <2>q. QED
    BY <1>1, <1>8, <2>1, <2>2, <2>3
<1>q. QED
  BY <1>1, <1>3, <1>4, <1>5, <1>7, <1>8 DEF Starves

(* What a step of each place is.                                           *)
LEMMA StepsAt ==
  ASSUME NEW x \in Runs, Step(x) \/ SlotFails(x)
  PROVE  /\ at[x] = "queued" => Admit(x)
         /\ at[x] = "cell" => TakeCell(x)
         /\ at[x] = "producing" => at[Producer(x)] \in Ended
<1>1. at[x] = "queued" => Admit(x)
  BY DEF Step, SlotFails, Start, TakeGateway, ResolveDeps, AcquireSlot, LockExecute, TakeCell,
         RemoveStale, TakeKey, Delegate, Produce, Keep, HasMaterial, Run, Cache, Fail
<1>2. at[x] = "cell" => TakeCell(x)
  BY DEF Step, SlotFails, Start, TakeGateway, ResolveDeps, AcquireSlot, LockExecute, Admit,
         RemoveStale, TakeKey, Delegate, Produce, Keep, HasMaterial, Run, Cache, Fail
<1>3. at[x] = "producing" => at[Producer(x)] \in Ended
  BY DEF Step, SlotFails, Start, TakeGateway, ResolveDeps, AcquireSlot, LockExecute, Admit, TakeCell,
         RemoveStale, TakeKey, Delegate, Produce, Keep, HasMaterial, Run, Cache, Fail, Ended
<1>q. QED
  BY <1>1, <1>2, <1>3

(* Nobody of the process frees what a starved run's producer waits for.    *)
LEMMA StarvedAmong ==
  ASSUME ExecInv, NEW r \in Runs, Starves(r),
         NEW x \in Runs, x[1] = r[1], Step(x) \/ SlotFails(x)
  PROVE  at[x] \notin Admitted \cup {"queued"}
<1> DEFINE d == Producer(r)
<1>1. /\ at[r] = "producing" /\ at[d] = "queued" /\ Head(queue[r[1]]) = d /\ ~Fits(d)
      /\ \A q \in permits : q[1] = r[1] /\ q # r => at[q] = "cell" /\ Wanted(q) \in Range(chain[r])
  BY DEF Starves
<1>2. x # r
  BY <1>1, StepsAt DEF Ended
<1>3. at[x] # "queued"
  <2>1. at[x] = "queued" => x = d /\ Fits(x)
    BY <1>1, StepsAt DEF Admit
  <2>q. QED
    BY <1>1, <2>1
<1>4. at[x] \notin Admitted
  <2> SUFFICES ASSUME at[x] \in Admitted PROVE FALSE
    OBVIOUS
  <2>1. x \in permits
    BY DEF ExecInv, InLine
  <2>2. at[x] = "cell" /\ Wanted(x) \in Range(chain[r])
    BY <1>1, <1>2, <2>1
  <2>3. r \in CellHolders(x[1], Wanted(x))
    BY <2>2 DEF CellHolders
  <2>4. TakeCell(x)
    BY <2>2, StepsAt
  <2>q. QED
    BY <2>3, <2>4 DEF TakeCell
<1>q. QED
  BY <1>3, <1>4

(* A starved run stays starved, unless its process is cancelled.           *)
LEMMA StarvedStep ==
  ASSUME ExecInv, ExecInv', [Next]_vars, NEW r \in Runs, Starves(r), at'[r] # "failed"
  PROVE  Starves(r)'
<1> DEFINE d == Producer(r)
<1>1. at[r] = "producing" /\ at[d] = "queued"
  BY DEF Starves
<1>2. d \in Runs /\ d[1] = r[1] /\ r[1] \in Procs
  BY <1>1, ProducerIsARun, Basics DEF Producer
<1>3. queue[r[1]] \in Seq(Runs) /\ queue[r[1]] # <<>>
  <2>1. queue[r[1]] \in Seq(Runs) /\ d \in Range(queue[r[1]])
    BY <1>1, <1>2 DEF ExecInv, TypeOK, InLine
  <2>q. QED
    BY <2>1, SMT DEF Range
<1>4. CASE /\ \A q \in Runs : q[1] = r[1] =>
                at'[q] = at[q] /\ todo'[q] = todo[q] /\ chain'[q] = chain[q]
           /\ queue'[r[1]] = queue[r[1]]
  BY <1>4, StarvedFrame
<1>5. ASSUME NEW x \in Runs, Step(x) \/ SlotFails(x) PROVE Starves(r)'
  <2>1. CASE x[1] # r[1]
    BY <1>4, <1>5, <2>1, LocalStep
  <2>2. CASE x[1] = r[1]
    <3>1. at[x] \notin Admitted \cup {"queued"}
      BY <1>5, <2>2, StarvedAmong
    <3>2. /\ \A q \in Runs \ {x} : at'[q] = at[q] /\ todo'[q] = todo[q] /\ chain'[q] = chain[q]
          /\ at'[x] \notin Admitted /\ queue'[r[1]] \in {queue[r[1]], Append(queue[r[1]], x)}
      BY <1>5, <2>2, <3>1, UnadmittedStep
    <3>3. Head(Append(queue[r[1]], x)) = Head(queue[r[1]])
      <4>1. Len(queue[r[1]]) \in Nat \ {0} /\ 1 \in 1 .. Len(queue[r[1]])
        BY <1>3, EmptySeq, SMT
      <4>2. Append(queue[r[1]], x)[1] = queue[r[1]][1]
        BY <1>3, <4>1, AppendProperties, SMT
      <4>q. QED
        BY <4>2, SMT
    <3>4. Head(queue'[r[1]]) = Head(queue[r[1]])
      BY <3>2, <3>3
    <3>q. QED
      BY <3>1, <3>2, <3>4, StarvedFrame
  <2>q. QED
    BY <2>1, <2>2
<1>6. ASSUME NEW p \in Procs, Cancel(p) PROVE Starves(r)'
  <2> DEFINE rs == {q \in Runs : q[1] = p /\ at[q] \notin Ended}
  <2>1. Abandon(rs)
    BY <1>6 DEF Cancel
  <2>2. r \notin rs
    BY <2>1 DEF Abandon
  <2>3. p # r[1]
    BY <1>1, <2>2 DEF Ended
  <2>4. rs \cap Range(queue[r[1]]) = {}
    <3>1. \A q \in Range(queue[r[1]]) : q[1] = r[1]
      BY <1>2 DEF ExecInv, InLine
    <3>q. QED
      BY <2>3, <3>1
  <2>5. \A q \in Runs : q[1] = r[1] => q \notin rs
    BY <2>3
  <2>q. QED
    BY <1>2, <1>4, <2>1, <2>4, <2>5 DEF Abandon
<1>7. ASSUME NEW c \in Creds, Lapse(c) PROVE Starves(r)'
  BY <1>4, <1>7 DEF Lapse, pool
<1>8. CASE UNCHANGED vars
  BY <1>4, <1>8 DEF vars, pool, credentials
<1>q. QED
  BY <1>5, <1>6, <1>7, <1>8 DEF Next

(* Once the runs that wait for a producer fill the pool, none of them ends *)
(* until the process is cancelled: for any runs, demands and capacities    *)
(* (execute's reservation is held across the credentials).                 *)
THEOREM StarvationIsForGood == Spec => StarvedForEver
<1>1. ExecInv /\ ExecInv' /\ [Next]_vars =>
        [\A r \in Runs : Starves(r) /\ at'[r] # "failed" => Starves(r)']_vars
  BY StarvedStep
<1>q. QED
  BY <1>1, ExecInvariant, PTL DEF Spec, StarvedForEver

------------------------------------------------------------------------------
(* Of finitely many things with a number, one has the greatest.            *)
LEMMA Greatest ==
  ASSUME NEW S, IsFiniteSet(S), S # {}, NEW f \in [S -> Nat]
  PROVE  \E x \in S : \A y \in S : f[y] <= f[x]
<1> DEFINE Top(U) == \E x \in U : \A y \in U : f[y] <= f[x]
           Bad == {n \in Nat : \E U \in SUBSET S : U # {} /\ Cardinality(U) = n /\ ~Top(U)}
<1>1. \A U \in SUBSET S : IsFiniteSet(U) /\ Cardinality(U) \in Nat
  BY FS_Subset, FS_CardinalityType
<1>2. Bad = {}
  <2> SUFFICES ASSUME Bad # {} PROVE FALSE
    OBVIOUS
  <2>1. Min(Bad) \in Bad /\ \A n \in Bad : Min(Bad) <= n
    <3>1. Bad \subseteq Nat
      OBVIOUS
    <3>q. QED
      BY <3>1, MinIsLeast
  <2>2. PICK U \in SUBSET S : U # {} /\ Cardinality(U) = Min(Bad) /\ ~Top(U)
    BY <2>1
  <2>3. PICK x : x \in U
    BY <2>2
  <2>4. /\ Cardinality(U \ {x}) = Cardinality(U) - 1 /\ U \ {x} \in SUBSET S
        /\ Cardinality(U \ {x}) \in Nat /\ Cardinality(U) \in Nat
    BY <1>1, <2>3, FS_RemoveElement
  <2>5. Cardinality(U \ {x}) \notin Bad
    <3>1. Min(Bad) \in Nat /\ ~(Min(Bad) <= Cardinality(U \ {x}))
      <4> HIDE DEF Bad
      <4>q. QED
        BY <2>2, <2>4, SMT
    <3>q. QED
      BY <2>1, <3>1
  <2>6. U \ {x} = {} \/ Top(U \ {x})
    BY <2>4, <2>5
  <2>7. CASE U \ {x} = {}
    <3>1. \A y \in U : y = x
      BY <2>7
    <3>2. f[x] \in Nat /\ f[x] <= f[x]
      BY <2>3, SMT
    <3>q. QED
      BY <2>2, <2>3, <3>1, <3>2
  <2>8. CASE Top(U \ {x})
    <3>1. PICK z \in U \ {x} : \A y \in U \ {x} : f[y] <= f[z]
      BY <2>8
    <3>2. \A y \in U : f[y] \in Nat
      OBVIOUS
    <3>3. CASE f[x] <= f[z]
      BY <2>2, <3>1, <3>3
    <3>4. CASE ~(f[x] <= f[z])
      <4>1. \A y \in U : f[y] <= f[x]
        BY <2>3, <3>1, <3>2, <3>4, SMT
      <4>q. QED
        BY <2>2, <2>3, <4>1
    <3>q. QED
      BY <3>3, <3>4
  <2>q. QED
    BY <2>6, <2>7, <2>8
<1>q. QED
  BY <1>1, <1>2

(* Runs that wait for nobody but each other, none of them for a producer.  *)
Wedged(W) ==
  /\ W \subseteq Runs /\ W # {}
  /\ \A r \in W : at[r] \in {"gateway", "deps", "slots", "queued", "cell", "key"}
  /\ \A r \in W : (\E q \in W : WaitsFor(r, q)) /\ \A q \in Runs : WaitsFor(r, q) => q \in W

(* Dependencies end: some of them are past theirs.                         *)
LEMMA WedgePastDeps ==
  ASSUME ExecInv, NEW W, Wedged(W)
  PROVE  \E r \in W : at[r] \in {"slots", "queued", "cell", "key"}
<1> SUFFICES ASSUME \A r \in W : at[r] \in {"gateway", "deps"} PROVE FALSE
  BY DEF Wedged
<1> DEFINE T == {r[2] : r \in W}
<1>1. W \subseteq Runs /\ W # {} /\ \A r \in W : \E q \in W : WaitsFor(r, q)
  BY DEF Wedged
<1>2. T \in SUBSET Targets /\ T # {}
  BY <1>1, Basics
<1>3. PICK t \in T : Deps[t] \cap T = {}
  <2>1. \A ts \in SUBSET Targets : ts # {} => \E t \in ts : Deps[t] \cap ts = {}
    BY RunAssumption
  <2>q. QED
    BY <1>2, <2>1
<1>4. ASSUME NEW r \in W, r[2] = t, at[r] = "deps" PROVE FALSE
  <2>1. PICK q \in W : WaitsFor(r, q)
    BY <1>1
  <2>2. q \in DepsOf(r)
    BY <1>4, <2>1 DEF WaitsFor
  <2>3. PICK u \in Deps[t] : q = <<r[1], u>>
    BY <1>4, <2>2 DEF DepsOf
  <2>4. q[2] = u
    BY <2>3
  <2>q. QED
    BY <1>3, <2>3, <2>4
<1>5. PICK r \in W : r[2] = t
  OBVIOUS
<1>6. at[r] = "gateway"
  BY <1>4, <1>5
<1>7. PICK q \in W : WaitsFor(r, q)
  BY <1>1
<1>8. q = gate[t] /\ q \in Runs /\ t \in Targets
  BY <1>1, <1>2, <1>5, <1>6, <1>7 DEF WaitsFor
<1>9. q[2] = t /\ at[q] \in Gated
  BY <1>8, Basics DEF ExecInv, HoldsInOrder
<1>10. at[q] # "gateway"
  BY <1>9 DEF Gated, Locked, Admitted, Acquiring
<1>q. QED
  BY <1>4, <1>7, <1>9, <1>10

(* Slots are taken in order: some of them have theirs.                     *)
LEMMA WedgePastSlots ==
  ASSUME ExecInv, NEW W, Wedged(W)
  PROVE  \E r \in W : at[r] \in {"queued", "cell", "key"}
<1> SUFFICES ASSUME \A r \in W : at[r] \in {"gateway", "deps", "slots"} PROVE FALSE
  BY DEF Wedged
<1> DEFINE S == {r \in W : at[r] = "slots"}
<1>0. W \subseteq Runs /\ IsFiniteSet(Runs) /\ TypeOK /\ HoldsInOrder
  BY RunAssumption DEF Wedged, ExecInv
<1>1. S # {}
  BY WedgePastDeps
<1>2. ASSUME NEW r \in S
      PROVE  /\ Missing(r) # {} /\ Min(Missing(r)) \in Nat
             /\ slot[Min(Missing(r))] \in W
  <2>1. PICK q \in W : WaitsFor(r, q)
    BY DEF Wedged
  <2>2. ~(Missing(r) = {} /\ q = exec[r[2]])
    <3> SUFFICES ASSUME q = exec[r[2]] PROVE FALSE
      OBVIOUS
    <3>1. r[2] \in Targets /\ exec[r[2]] # Nobody
      BY <1>0, Basics
    <3>2. at[q] \in Locked
      BY <1>0, <3>1 DEF HoldsInOrder
    <3>q. QED
      BY <3>2 DEF Locked, Admitted, Acquiring
  <2>3. Missing(r) # {} /\ q = slot[Min(Missing(r))]
    BY <2>1, <2>2 DEF WaitsFor
  <2>q. QED
    BY <1>0, <2>3, MissingSlots
<1> DEFINE f == [r \in S |-> Min(Missing(r))]
<1>3. PICK r \in S : \A q \in S : f[q] <= f[r]
  <2>1. IsFiniteSet(S)
    BY <1>0, FS_Subset
  <2>2. f \in [S -> Nat]
    BY <1>2
  <2>q. QED
    BY <1>1, <2>1, <2>2, Greatest
<1>4. PICK x \in Nat : x = Min(Missing(r)) /\ x \in DOMAIN slot
  BY <1>0, <1>2, MissingSlots
<1>5. PICK q \in W : q = slot[x] /\ q # Nobody
  BY <1>0, <1>2, <1>4, Basics
<1>6. q \in S /\ \A y \in Slots[q[2]] : y < x => slot[y] = q
  <2>1. at[q] \in {"slots", "queued"} \cup Admitted /\ \A y \in Slots[q[2]] : y < x => slot[y] = q
    BY <1>0, <1>4, <1>5 DEF HoldsInOrder
  <2>q. QED
    BY <2>1 DEF Admitted, Acquiring
<1>7. PICK y \in Nat : y = Min(Missing(q)) /\ y \in Slots[q[2]] /\ slot[y] # q
  BY <1>0, <1>2, <1>6, MissingSlots
<1>8. y <= x
  BY <1>3, <1>4, <1>6, <1>7
<1>9. y # x /\ ~(y < x)
  BY <1>5, <1>6, <1>7
<1>q. QED
  BY <1>8, <1>9, SMT

(* The head of a line waits for the admitted: some of them are.            *)
LEMMA WedgePastLine ==
  ASSUME ExecInv, NEW W, Wedged(W)
  PROVE  \E r \in W : at[r] \in {"cell", "key"}
<1> SUFFICES ASSUME \A r \in W : at[r] \notin {"cell", "key"} PROVE FALSE
  OBVIOUS
<1>0. W \subseteq Runs /\ TypeOK /\ InLine
  BY DEF Wedged, ExecInv
<1>1. ASSUME NEW r \in W, at[r] = "queued" PROVE r # Head(queue[r[1]])
  <2> SUFFICES ASSUME r = Head(queue[r[1]]) PROVE FALSE
    OBVIOUS
  <2>1. PICK q \in W : WaitsFor(r, q)
    BY DEF Wedged
  <2>2. q \in permits
    BY <1>1, <2>1 DEF WaitsFor
  <2>3. at[q] \in Admitted
    BY <1>0, <2>2 DEF InLine
  <2>q. QED
    BY <2>3 DEF Wedged, Admitted, Acquiring
<1>2. PICK r \in W : at[r] = "queued"
  BY WedgePastSlots
<1>3. PICK q \in W : WaitsFor(r, q)
  BY DEF Wedged
<1>4. q = Head(queue[r[1]])
  BY <1>1, <1>2, <1>3 DEF WaitsFor
<1>5. r[1] \in Procs /\ queue[r[1]] \in Seq(Runs) /\ IsInjective(queue[r[1]]) /\ r \in Range(queue[r[1]])
  BY <1>0, <1>2, Basics DEF TypeOK, InLine
<1>6. queue[r[1]] # <<>>
  <2> SUFFICES ASSUME queue[r[1]] = <<>> PROVE FALSE
    OBVIOUS
  <2>1. Range(<<>>) = {}
    BY SMT DEF Range
  <2>q. QED
    BY <1>5, <2>1
<1>7. q \in Range(queue[r[1]])
  BY <1>4, <1>5, <1>6, TailOnce
<1>8. q[1] = r[1] /\ at[q] = "queued"
  BY <1>0, <1>5, <1>7 DEF InLine
<1>q. QED
  BY <1>1, <1>4, <1>8

(* Delegations end: there is no such set.                                  *)
LEMMA NoWedge ==
  ASSUME DelegationsEnd, ExecInv, NEW W, Wedged(W)
  PROVE  FALSE
<1> DEFINE K == {r \in W : at[r] \in {"cell", "key"}}
           cs == {c \in Creds : \E r \in K : c \in Range(chain[r]) \/ (at[r] = "cell" /\ c = Wanted(r))}
<1>0. W \subseteq Runs
  BY DEF Wedged
<1>1. \A r \in K : chain[r] \in Seq(Creds) /\ Linked(chain[r]) /\ Range(chain[r]) \subseteq cs
  <2>1. \A r \in K : chain[r] \in Seq(Creds) /\ Linked(chain[r])
    BY <1>0 DEF ExecInv, TypeOK, Chains
  <2>2. \A r \in K : Range(chain[r]) \subseteq Creds
    BY <2>1, SMT DEF Range
  <2>q. QED
    BY <2>1, <2>2
<1>2. \A r \in K : at[r] = "cell" => /\ Wanted(r) \in cs /\ Wanted(r) \notin Range(chain[r])
                                     /\ chain[r] # <<>> => Wanted(r) = Via[Last(chain[r])]
  BY <1>0, WantedAtCell
<1>3. \A r \in K : at[r] = "key" => Last(chain[r]) \in cs
  <2>1. \A r \in K : at[r] = "key" => Last(chain[r]) \in Range(chain[r])
    BY <1>0, Innermost DEF Acquiring
  <2>q. QED
    BY <1>1, <2>1
<1>4. PICK c \in cs : Via[c] \notin cs \ {c}
  <2>1. cs # {}
    BY <1>2, <1>3, WedgePastLine
  <2>q. QED
    BY <2>1 DEF DelegationsEnd
<1>5. ASSUME NEW r \in K, c \in Range(chain[r]) PROVE at[r] = "key" /\ c = Last(chain[r])
  <2>1. PICK i \in DOMAIN chain[r] : c = chain[r][i]
    BY <1>5 DEF Range
  <2>2. PICK n \in Nat : n = Len(chain[r]) /\ DOMAIN chain[r] = 1 .. n
    BY <1>1, SMT
  <2>3. i = n
    <3> SUFFICES ASSUME i # n PROVE FALSE
      OBVIOUS
    <3>1. i \in 1 .. n - 1 /\ i + 1 \in 1 .. n /\ i + 1 # i /\ i \in 1 .. n
      BY <2>2, SMT
    <3>2. chain[r][i + 1] = Via[c] /\ chain[r][i + 1] # c
      BY <1>1, <2>1, <2>2, <3>1 DEF Linked, IsInjective
    <3>3. Via[c] \in Range(chain[r])
      BY <2>2, <3>1, <3>2 DEF Range
    <3>q. QED
      BY <1>1, <1>4, <3>2, <3>3
  <2>4. c = Last(chain[r])
    BY <2>1, <2>2, <2>3 DEF Last
  <2>5. chain[r] # <<>>
    <3>1. Range(<<>>) = {}
      BY SMT DEF Range
    <3>q. QED
      BY <1>5, <3>1
  <2>6. at[r] # "cell"
    <3> SUFFICES ASSUME at[r] = "cell" PROVE FALSE
      OBVIOUS
    <3> HIDE DEF K, cs
    <3>1. Wanted(r) = Via[c] /\ Wanted(r) \in cs /\ Wanted(r) # c
      BY <1>2, <1>5, <2>4, <2>5
    <3>q. QED
      BY <1>4, <3>1
  <2>q. QED
    BY <2>4, <2>6
<1>6. ASSUME NEW q \in W, c \in Range(chain[q]) PROVE at[q] \in {"cell", "key"}
  <2>1. chain[q] # <<>>
    <3>1. Range(<<>>) = {}
      BY SMT DEF Range
    <3>q. QED
      BY <1>6, <3>1
  <2>2. at[q] \in Acquiring
    BY <1>0, <2>1 DEF ExecInv, Chains
  <2>3. at[q] \in {"gateway", "deps", "slots", "queued", "cell", "key"}
    BY DEF Wedged
  <2>q. QED
    BY <2>2, <2>3 DEF Acquiring
<1>7. \A r \in K : c \notin Range(chain[r])
  <2> SUFFICES ASSUME NEW r \in K, c \in Range(chain[r]) PROVE FALSE
    OBVIOUS
  <2>1. at[r] = "key" /\ c = Last(chain[r])
    BY <1>5
  <2>2. PICK q \in W : WaitsFor(r, q)
    BY DEF Wedged
  <2>3. q \in KeyHolders(c)
    BY <2>1, <2>2 DEF WaitsFor
  <2>4. c \in Range(chain[q]) /\ ~(at[q] \in {"stale", "key"} /\ Last(chain[q]) = c)
    BY <1>0, <2>3, KeysOf
  <2>q. QED
    BY <1>5, <1>6, <2>4
<1>8. PICK r \in K : at[r] = "cell" /\ c = Wanted(r)
  BY <1>4, <1>7
<1>9. PICK q \in W : WaitsFor(r, q)
  BY DEF Wedged
<1>10. c \in Range(chain[q])
  BY <1>8, <1>9 DEF WaitsFor, CellHolders
<1>q. QED
  BY <1>6, <1>7, <1>10

(* execute's waits are bounded, not circular: whatever the targets, slots, *)
(* credentials, processes and interleaving, runs that wait only for each   *)
(* other include one that waits for a producer, if no chain of delegations *)
(* comes back to where it started.                                         *)
THEOREM WaitsBounded == DelegationsEnd => (Spec => []WaitsAreBounded)
<1> SUFFICES ASSUME DelegationsEnd PROVE Spec => []WaitsAreBounded
  OBVIOUS
<1>1. ExecInv => WaitsAreBounded
  <2> SUFFICES ASSUME ExecInv, ~WaitsAreBounded PROVE FALSE
    OBVIOUS
  <2> DEFINE rs == {r \in Runs : ~AtProducer(r)}
  <2>1. PICK W \in SUBSET rs : W # {} /\ \A r \in W : Blockers(r) # {} /\ Blockers(r) \subseteq W
    BY DEF WaitsAreBounded, Wedges
  <2>2. \A r \in W : at[r] \in {"gateway", "deps", "slots", "queued", "cell", "key"}
    BY <2>1 DEF Blockers, WaitsFor, AtProducer
  <2>3. Wedged(W)
    BY <2>1, <2>2 DEF Wedged, Blockers
  <2>q. QED
    BY <2>3, NoWedge
<1>q. QED
  BY <1>1, ExecInvariant, PTL

==============================================================================
