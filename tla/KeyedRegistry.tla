---------------------------- MODULE KeyedRegistry ---------------------------
(***************************************************************************)
(* The registry of keyed locks (crates/lock/src/hlock/keyed.rs), for one   *)
(* key: keys share nothing but the registry's mutex, which each step that  *)
(* touches the map holds throughout.  The lock inside a cell is an         *)
(* exclusive in-memory one, whose guard owns the mutex and not the cell:   *)
(* only the shared cell makes two users of a key meet.                     *)
(***************************************************************************)
EXTENDS FiniteSets

CONSTANTS
  Users,   \* tasks using the key
  Cells,   \* LockCell allocations
  NoCell   \* no cell, no owner

ASSUME NoCellFresh == NoCell \notin Users /\ NoCell \notin Cells

VARIABLES
  entry,   \* the weak pointer in the map, or NoCell
  handle,  \* per user: the Arc of a KeyedHandle, or of a lock() under way
  guard,   \* per user: the Arc in its KeyedGuard's _cell
  locked,  \* per cell: the owner of the lock made for it
  stage    \* per user: "none", "have", "guard", "purge", "inner"

keyedVars == <<entry, handle, guard, locked, stage>>

KeyedInit ==
  /\ entry = NoCell
  /\ handle = [u \in Users |-> NoCell]
  /\ guard = [u \in Users |-> NoCell]
  /\ locked = [c \in Cells |-> NoCell]
  /\ stage = [u \in Users |-> "none"]

-----------------------------------------------------------------------------
(* strong_count() > 0.                                                     *)
Live(c) == \E u \in Users : handle[u] = c \/ guard[u] = c

(* The allocation of a cell is free once nobody refers to it, strongly or  *)
(* from the map, and its lock has been let go.                             *)
Fresh(c) == ~Live(c) /\ c # entry /\ locked[c] = NoCell

(* Registry::cell: the registered cell if it is alive, else a new one in   *)
(* its place.                                                              *)
Get(u) ==
  /\ stage[u] = "none"
  /\ \E c \in Cells :
       /\ IF entry # NoCell /\ Live(entry) THEN c = entry ELSE Fresh(c)
       /\ entry' = c
       /\ handle' = [handle EXCEPT ![u] = c]
  /\ stage' = [stage EXCEPT ![u] = "have"]
  /\ UNCHANGED <<guard, locked>>

(* lock or try_lock succeeds: the Arc moves into the guard, or, through a  *)
(* KeyedHandle, is cloned into it.                                         *)
Lock(u, keep) ==
  /\ stage[u] = "have" /\ locked[handle[u]] = NoCell
  /\ locked' = [locked EXCEPT ![handle[u]] = u]
  /\ guard' = [guard EXCEPT ![u] = handle[u]]
  /\ handle' = [handle EXCEPT ![u] = IF keep THEN @ ELSE NoCell]
  /\ stage' = [stage EXCEPT ![u] = "guard"]
  /\ UNCHANGED entry

(* Whether the Arc u drops is the last.                                    *)
LastOf(u, c) == \A v \in Users \ {u} : handle[v] # c /\ guard[v] # c

(* A handle is dropped, or a wait is cancelled or refused.                 *)
DropHandle(u) ==
  /\ stage[u] = "have"
  /\ handle' = [handle EXCEPT ![u] = NoCell]
  /\ stage' = [stage EXCEPT ![u] = IF LastOf(u, handle[u]) THEN "purge" ELSE "none"]
  /\ UNCHANGED <<entry, guard, locked>>

(* The guard outlives its handle.                                          *)
OutliveHandle(u) ==
  /\ stage[u] = "guard" /\ handle[u] # NoCell
  /\ handle' = [handle EXCEPT ![u] = NoCell]
  /\ UNCHANGED <<entry, guard, locked, stage>>

(* A guard drops its fields in order: the Arc,                             *)
DropCell(u) ==
  /\ stage[u] = "guard"
  /\ guard' = [guard EXCEPT ![u] = NoCell]
  /\ stage' = [stage EXCEPT ![u] =
       IF LastOf(u, guard[u]) /\ handle[u] = NoCell THEN "purge" ELSE "inner"]
  /\ UNCHANGED <<entry, handle, locked>>

\* mutant: the entry is removed whatever it points at
Purge_anyEntry(u) ==
  /\ stage[u] = "purge"
  /\ entry' = NoCell
  /\ stage' = [stage EXCEPT ![u] = "inner"]
  /\ UNCHANGED <<handle, guard, locked>>

\* mutant: a dead cell leaves its entry behind
Purge_nothing(u) ==
  /\ stage[u] = "purge"
  /\ stage' = [stage EXCEPT ![u] = "inner"]
  /\ UNCHANGED <<entry, handle, guard, locked>>

(* LockCell::drop, inside the drop of the last Arc: the entry goes if what *)
(* it points at is dead,                                                   *)
Purge(u) ==
  /\ stage[u] = "purge"
  /\ entry' = IF entry # NoCell /\ ~Live(entry) THEN NoCell ELSE entry
  /\ stage' = [stage EXCEPT ![u] = "inner"]
  /\ UNCHANGED <<handle, guard, locked>>

(* and then the lock's own guard, if there is one.                         *)
DropInner(u) ==
  /\ stage[u] = "inner"
  /\ locked' = [c \in Cells |-> IF locked[c] = u THEN NoCell ELSE locked[c]]
  /\ stage' = [stage EXCEPT ![u] = IF handle[u] = NoCell THEN "none" ELSE "have"]
  /\ UNCHANGED <<entry, handle, guard>>

KeyedNext ==
  \E u \in Users :
    \/ Get(u) \/ \E keep \in BOOLEAN : Lock(u, keep)
    \/ DropHandle(u) \/ OutliveHandle(u) \/ DropCell(u) \/ Purge(u) \/ DropInner(u)

KeyedSpec == KeyedInit /\ [][KeyedNext]_keyedVars

-----------------------------------------------------------------------------
(* Every variable has its type.                                            *)
KeyedTypeOK ==
  /\ entry \in Cells \cup {NoCell}
  /\ handle \in [Users -> Cells \cup {NoCell}]
  /\ guard \in [Users -> Cells \cup {NoCell}]
  /\ locked \in [Cells -> Users \cup {NoCell}]
  /\ stage \in [Users -> {"none", "have", "guard", "purge", "inner"}]

(* "every composer of key the same instance": two users never hold the     *)
(* lock of one key at once, though cells come and go under them.           *)
KeyExclusion ==
  \A u, v \in Users : stage[u] = "guard" /\ stage[v] = "guard" => u = v

(* "Entries clean themselves up with no background GC": when everybody is  *)
(* done, the map is empty.                                                 *)
CleansUpAfterItself ==
  (\A u \in Users : stage[u] = "none") => entry = NoCell

(***************************************************************************)
(* The inductive invariant.                                                *)
(***************************************************************************)
(* A live cell is the registered one, so there is at most one.             *)
LiveIsRegistered == \A c \in Cells : Live(c) => entry = c

(* A registered cell is alive, or its last user is about to purge it.      *)
DeadIsPurged == entry # NoCell => Live(entry) \/ \E u \in Users : stage[u] = "purge"

(* What a user at each point has.                                          *)
Has ==
  \A u \in Users :
    /\ stage[u] \in {"none", "purge"} => handle[u] = NoCell
    /\ stage[u] = "have" => handle[u] # NoCell
    /\ stage[u] = "guard" => guard[u] # NoCell /\ locked[guard[u]] = u
    /\ stage[u] # "guard" => guard[u] = NoCell
    /\ handle[u] # NoCell /\ stage[u] = "guard" => handle[u] = guard[u]

KeyedInv == KeyedTypeOK /\ LiveIsRegistered /\ DeadIsPurged /\ Has
====
