------------------------------ MODULE GuardSlot -----------------------------
(***************************************************************************)
(* How one request keeps a revision locked while, and only while, its      *)
(* artifacts are in use (GuardSlot, Handoff, MemoResult in                 *)
(* crates/engine/src/engine/result.rs).  The memoized resolution holds the *)
(* read guard weakly; the guard itself goes to the caller that created the *)
(* cell, beside the value, and every other caller upgrades the weak one or *)
(* takes a new read and checks the revision is still the one resolved.     *)
(* Other processes rebuild and delete the revision under its write lock,   *)
(* and may rewrite it without: a rebuild runs under a read of its own, and *)
(* the queued write of a run that was dropped lands when it will.          *)
(***************************************************************************)
EXTENDS Naturals

CONSTANTS
  Callers,   \* the claims of the request, in any frame
  Versions,  \* what the manifest's hashouts may be
  NoCaller,  \* nobody
  Cell,      \* the memoized value, as a holder of guards
  Handoff,   \* the hand-off to the creator, as one
  MaxGuards, \* bound on the reads taken
  MaxWrites  \* bound on the writes of other processes

ASSUME SlotAssumption ==
  /\ NoCaller \notin Callers /\ Cell \notin Callers /\ Handoff \notin Callers
  /\ Cell # Handoff
  /\ Versions \subseteq Nat \ {0}
  /\ MaxGuards \in Nat /\ MaxWrites \in Nat

Holders == Callers \cup {Cell, Handoff}

VARIABLES
  hashouts,  \* the revision's hashouts on disk, 0: no manifest
  writing,   \* whether another process has the revision's write lock
  comp,      \* the cell's computation: "none", "running" or "done"
  creator,   \* who created the cell
  resolved,  \* the hashouts the request resolved to, 0 before
  held,      \* per holder: the guard it has a strong reference to, 0: none
  weak,      \* the guard the slot refers to weakly
  guards,    \* reads taken
  claim,     \* per caller: where it is
  writes,    \* writes of other processes
  torn       \* the guards alive when the hashouts last changed without the lock

slotVars == <<hashouts, writing, comp, creator, resolved, held, weak, guards, claim, writes, torn>>

Live(g) == g # 0 /\ \E h \in Holders : held[h] = g
Locked == \E h \in Holders : held[h] # 0

SlotInit ==
  /\ hashouts \in Versions \cup {0} /\ writing = FALSE
  /\ comp = "none" /\ creator = NoCaller /\ resolved = 0
  /\ held = [h \in Holders |-> 0] /\ weak = 0 /\ guards = 0
  /\ claim = [c \in Callers |-> "idle"]
  /\ writes = 0 /\ torn = {}

-----------------------------------------------------------------------------
Goto(c, l) == claim' = [claim EXCEPT ![c] = l]
Hold(h, g) == held' = [held EXCEPT ![h] = g]
Outside == <<hashouts, writing, writes, torn>>
CellVars == <<comp, creator, resolved>>

(* once: the first caller creates the cell, the others join it.            *)
Ask(c) ==
  /\ claim[c] = "idle"
  /\ \/ comp = "none" /\ comp' = "running" /\ creator' = c /\ Goto(c, "waiting")
     \/ comp = "running" /\ Goto(c, "waiting") /\ UNCHANGED <<comp, creator>>
     \/ comp = "done" /\ Goto(c, "claiming") /\ UNCHANGED <<comp, creator>>
  /\ UNCHANGED <<Outside, resolved, held, weak, guards>>

\* mutant: the cell keeps a strong guard as well
Resolve_keeps ==
  /\ comp = "running" /\ ~writing /\ guards < MaxGuards
  /\ hashouts' \in IF hashouts # 0 THEN {hashouts} ELSE Versions
  /\ comp' = "done" /\ resolved' = hashouts'
  /\ guards' = guards + 1 /\ weak' = guards + 1
  /\ held' = [held EXCEPT ![Cell] = guards + 1, ![Handoff] = IF creator # NoCaller THEN guards + 1 ELSE 0]
  /\ UNCHANGED <<writing, writes, torn, creator, claim>>

(* resolve_locked_inner hits or builds, and leaves a riding read in the    *)
(* hand-off, which goes with the computation if its creator is gone.       *)
Resolve ==
  /\ comp = "running" /\ ~writing /\ guards < MaxGuards
  /\ hashouts' \in IF hashouts # 0 THEN {hashouts} ELSE Versions
  /\ comp' = "done" /\ resolved' = hashouts'
  /\ guards' = guards + 1 /\ weak' = guards + 1
  /\ IF creator # NoCaller THEN Hold(Handoff, guards + 1) ELSE UNCHANGED held
  /\ UNCHANGED <<writing, writes, torn, creator, claim>>

Collect(c) ==
  /\ claim[c] = "waiting" /\ comp = "done"
  /\ \/ /\ creator = c /\ creator' = NoCaller /\ Goto(c, "holding")
        /\ held' = [held EXCEPT ![c] = held[Handoff], ![Handoff] = 0]
     \/ creator # c /\ Goto(c, "claiming") /\ UNCHANGED <<creator, held>>
  /\ UNCHANGED <<Outside, comp, resolved, weak, guards>>

(* hold: the weak guard if something still holds it, else a new read.      *)
UpgradeWeak(c) ==
  /\ claim[c] = "claiming" /\ Live(weak)
  /\ Hold(c, weak) /\ Goto(c, "holding")
  /\ UNCHANGED <<Outside, CellVars, weak, guards>>

Lapse(c) ==
  /\ claim[c] = "claiming" /\ ~Live(weak)
  /\ Goto(c, "acquiring")
  /\ UNCHANGED <<Outside, CellVars, held, weak, guards>>

\* mutant: the new read is published before it is validated
Acquire_publishes(c) ==
  /\ claim[c] = "acquiring" /\ ~writing /\ guards < MaxGuards
  /\ guards' = guards + 1 /\ Hold(c, guards + 1) /\ weak' = guards + 1
  /\ Goto(c, "validating")
  /\ UNCHANGED <<Outside, CellVars>>

Acquire(c) ==
  /\ claim[c] = "acquiring" /\ ~writing /\ guards < MaxGuards
  /\ guards' = guards + 1 /\ Hold(c, guards + 1)
  /\ Goto(c, "validating")
  /\ UNCHANGED <<Outside, CellVars, weak>>

(* validate: the manifest still carries the hashouts handed out, or the    *)
(* claim fails with RevisionChangedError and lets its read go.             *)
Validate(c) ==
  /\ claim[c] = "validating"
  /\ \/ hashouts = resolved /\ Goto(c, "publishing") /\ UNCHANGED held
     \/ hashouts # resolved /\ Goto(c, "failed") /\ Hold(c, 0)
  /\ UNCHANGED <<Outside, CellVars, weak, guards>>

Publish(c) ==
  /\ claim[c] = "publishing" /\ Goto(c, "holding")
  /\ weak' = held[c]
  /\ UNCHANGED <<Outside, CellVars, held, guards>>

(* The last artifact of a claim is dropped; its caller may come back.      *)
Drop(c) ==
  /\ claim[c] = "holding" /\ Goto(c, "idle") /\ Hold(c, 0)
  /\ UNCHANGED <<Outside, CellVars, weak, guards>>

(* A caller's future is dropped: a hand-off that waits for it goes too,    *)
(* and so does a computation nobody else waits for.                        *)
Alone(c) == \A d \in Callers \ {c} : claim[d] # "waiting"
Abort(c) ==
  /\ claim[c] \notin {"idle", "failed"} /\ Goto(c, "failed")
  /\ held' = [h \in Holders |->
                IF h = c \/ (h = Handoff /\ creator = c) THEN 0 ELSE held[h]]
  /\ comp' = IF comp = "running" /\ claim[c] = "waiting" /\ Alone(c) THEN "none" ELSE comp
  /\ creator' = IF creator = c THEN NoCaller ELSE creator
  /\ UNCHANGED <<Outside, resolved, weak, guards>>

-----------------------------------------------------------------------------
(* Another process: gc, clean or a forced run.                             *)
TakeWrite ==
  /\ ~writing /\ ~Locked /\ writes < MaxWrites
  /\ writing' = TRUE /\ writes' = writes + 1
  /\ UNCHANGED <<hashouts, torn, CellVars, held, weak, guards, claim>>

EndWrite ==
  /\ writing /\ writing' = FALSE
  /\ hashouts' \in Versions \cup {0}
  /\ UNCHANGED <<writes, torn, CellVars, held, weak, guards, claim>>

(* Another process writes the revision without its write lock: it rebuilds *)
(* a revision whose artifacts are unavailable, under a riding read, which  *)
(* excludes no other read; or what a dropped run had queued lands.         *)
WriteUnlocked ==
  /\ writes < MaxWrites /\ writes' = writes + 1
  /\ hashouts' \in Versions
  /\ torn' = IF hashouts' = hashouts THEN torn ELSE {held[h] : h \in Holders} \ {0}
  /\ UNCHANGED <<writing, CellVars, held, weak, guards, claim>>

Act(c) ==
  \/ Ask(c) \/ Collect(c) \/ UpgradeWeak(c) \/ Lapse(c) \/ Acquire(c)
  \/ Validate(c) \/ Publish(c) \/ Drop(c) \/ Abort(c)

SlotNext == (\E c \in Callers : Act(c)) \/ Resolve \/ TakeWrite \/ EndWrite \/ WriteUnlocked

SlotSpec == SlotInit /\ [][SlotNext]_slotVars

-----------------------------------------------------------------------------
SlotTypeOK ==
  /\ hashouts \in Nat /\ resolved \in Nat /\ writing \in BOOLEAN
  /\ comp \in {"none", "running", "done"} /\ creator \in Callers \cup {NoCaller}
  /\ held \in [Holders -> Nat] /\ weak \in Nat /\ guards \in Nat
  /\ claim \in [Callers -> {"idle", "waiting", "claiming", "acquiring", "validating",
                         "publishing", "holding", "failed"}]
  /\ torn \subseteq Nat

(* A caller with artifacts in hand has the revision locked: it has not     *)
(* been deleted, and it is the one the request resolved to, so whatever    *)
(* dependents folded into their keys is what they stage, unless its guard  *)
(* was there when a process wrote another without the write lock, the      *)
(* exemption the code accepts.                                             *)
Unchanged(g) == hashouts # 0 /\ (hashouts = resolved \/ g \in torn)
StagedIsResolved ==
  \A c \in Callers : claim[c] = "holding" => held[c] # 0 /\ Unchanged(held[c])

(* "No memoized value holds a strong guard, not even briefly": once no     *)
(* caller is at work on the revision, another process can write it.        *)
Unpinned ==
  (\A c \in Callers : claim[c] \in {"idle", "claiming", "acquiring", "failed"}) => ~Locked

-----------------------------------------------------------------------------
(* What makes them inductive: a guard that is alive and reachable through  *)
(* the slot has kept the revision as it was resolved, or is torn.          *)
WriterAlone == writing => ~Locked
GuardsTaken == weak <= guards /\ \A h \in Holders : held[h] <= guards
HeldWhere ==
  /\ held[Cell] = 0
  /\ held[Handoff] # 0 => comp = "done" /\ creator # NoCaller /\ claim[creator] = "waiting"
  /\ \A c \in Callers : held[c] # 0 <=> claim[c] \in {"validating", "publishing", "holding"}
  /\ creator # NoCaller => claim[creator] = "waiting"
  /\ creator # NoCaller /\ comp = "done" => held[Handoff] # 0
ResolvedWhen ==
  /\ comp = "done" => resolved # 0
  /\ \A c \in Callers : claim[c] \in {"claiming", "acquiring", "validating"} => comp = "done"
Named ==
  /\ held[Handoff] # 0 => Unchanged(held[Handoff])
  /\ Live(weak) => Unchanged(weak)
  /\ \A c \in Callers : claim[c] \in {"publishing", "holding"} => Unchanged(held[c])
SlotInv == SlotTypeOK /\ WriterAlone /\ GuardsTaken /\ HeldWhere /\ ResolvedWhen /\ Named
=============================================================================
