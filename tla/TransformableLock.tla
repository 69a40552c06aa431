------------------------- MODULE TransformableLock --------------------------
(***************************************************************************)
(* What the lock over a target's cache entries promises (the module doc    *)
(* and the guard docs of crates/engine/src/engine/result_lock.rs).  One    *)
(* target: its gateway has at most one owner, who may hold one revision    *)
(* shared or exclusively and go from one to the other without letting go;  *)
(* anyone may ride a revision nobody holds exclusively; and a revision     *)
(* changes only under an exclusive hold.                                   *)
(***************************************************************************)
EXTENDS FiniteSets

CONSTANTS
  Tasks,     \* requests, in any process
  Revs,      \* revisions of the target
  Contents,  \* what a revision's cache entry may hold
  None       \* no revision

ASSUME NoneIsNoRev == None \notin Revs

VARIABLES
  hold,     \* per task: "none", "gate", "read" (upgradable) or "write"
  on,       \* per task: the revision held
  riding,   \* per task: the revisions it has a plain read on
  content   \* per revision: its cache entry

lockVars == <<hold, on, riding>>
absVars == <<lockVars, content>>

InitLock ==
  /\ hold = [t \in Tasks |-> "none"]
  /\ on = [t \in Tasks |-> None]
  /\ riding = [t \in Tasks |-> {}]

PromiseInit == InitLock /\ content \in [Revs -> Contents]

Excluded(r) == \E t \in Tasks : hold[t] = "write" /\ on[t] = r
Ridden(r) == \E t \in Tasks : r \in riding[t]

-----------------------------------------------------------------------------
Ride(t, r) ==
  /\ ~Excluded(r)
  /\ riding' = [riding EXCEPT ![t] = @ \cup {r}]
  /\ UNCHANGED <<hold, on>>

Alight(t, r) ==
  /\ riding' = [riding EXCEPT ![t] = @ \ {r}]
  /\ UNCHANGED <<hold, on>>

Gate(t) ==
  /\ \A u \in Tasks : hold[u] = "none"
  /\ hold' = [hold EXCEPT ![t] = "gate"]
  /\ UNCHANGED <<on, riding>>

Share(t, r) ==
  /\ hold[t] = "gate"
  /\ hold' = [hold EXCEPT ![t] = "read"]
  /\ on' = [on EXCEPT ![t] = r]
  /\ UNCHANGED riding

(* write() and write_revision() from the gateway, upgrade() from a read.   *)
Exclude(t, r) ==
  /\ hold[t] = "gate" \/ (hold[t] = "read" /\ on[t] = r)
  /\ ~Ridden(r)
  /\ hold' = [hold EXCEPT ![t] = "write"]
  /\ on' = [on EXCEPT ![t] = r]
  /\ UNCHANGED riding

Demote(t) ==
  /\ hold[t] = "write"
  /\ hold' = [hold EXCEPT ![t] = "read"]
  /\ UNCHANGED <<on, riding>>

LetGo(t) ==
  /\ hold[t] \in {"read", "write"}
  /\ hold' = [hold EXCEPT ![t] = "gate"]
  /\ on' = [on EXCEPT ![t] = None]
  /\ UNCHANGED riding

Ungate(t) ==
  /\ hold[t] = "gate"
  /\ hold' = [hold EXCEPT ![t] = "none"]
  /\ UNCHANGED <<on, riding>>

(* The exclusive holder rewrites or deletes the entry.                     *)
Change(t) ==
  /\ hold[t] = "write"
  /\ \E c \in Contents : content' = [content EXCEPT ![on[t]] = c]
  /\ UNCHANGED lockVars

LockStep(t) ==
  \/ \E r \in Revs : Ride(t, r) \/ Alight(t, r) \/ Share(t, r) \/ Exclude(t, r)
  \/ Gate(t) \/ Demote(t) \/ LetGo(t) \/ Ungate(t)

PromiseNext == \E t \in Tasks : (LockStep(t) /\ UNCHANGED content) \/ Change(t)

PromiseSpec == PromiseInit /\ [][PromiseNext]_absVars
=============================================================================
