----------------------------- MODULE WriteBehind ----------------------------
(***************************************************************************)
(* The write-behind queue of the SQLite cache                              *)
(* (crates/engine/src/engine/local_cache_sqlite.rs).  Writes and deletes   *)
(* are queued to one writer thread; the tracker maps each key to the slot  *)
(* of the last command queued for it, and whoever must see the committed   *)
(* state waits for that slot.  A command is named by its place in the      *)
(* channel, and so is its slot; the row of a key is what the last command  *)
(* applied to it left.                                                     *)
(***************************************************************************)
EXTENDS Naturals, Sequences

CONSTANTS
  Clients,        \* tasks and threads that use the cache
  Keys,           \* (addr, hashin, name) triples
  Calls,          \* bound: calls of each client
  BatchMax,       \* WRITE_BATCH_MAX
  MaxQueueWaits,  \* MAX_QUEUE_WAITS, the probes of exists_local
  MayPanic        \* whether the writer thread may panic

ASSUME WriteBehindAssumption ==
  /\ Calls \in [Clients -> Nat] /\ BatchMax \in Nat \ {0} /\ MaxQueueWaits \in Nat \ {0}
  /\ MayPanic \in BOOLEAN

VARIABLES
  cmds,     \* the keys of the commands sent so far, in channel order
  map,      \* PendingTracker.map: key to slot, 0: not pending
  applied,  \* the commands committed
  failed,   \* the commands whose batch failed
  done,     \* the slots completed
  writer,   \* where the writer thread is
  taken,    \* the commands it has received
  released, \* those whose slots its loop has released
  orphans,  \* history: slots no one owned when the writer was unwound
  pc,       \* per client: where it is in its call
  about,    \* per client: the keys its call is about
  waits,    \* per client: the slots it waits for
  mark,     \* per client: the commands sent when it looked
  tries,    \* per client: probes left, 0 in a call that parks
  calls     \* per client: calls made

clientVars == <<pc, about, waits, mark, tries, calls>>
writerVars == <<applied, failed, writer, taken, released>>
vars == <<cmds, map, done, orphans, writerVars, clientVars>>

Sent == 1..Len(cmds)

Init ==
  /\ cmds = <<>> /\ map = [k \in Keys |-> 0]
  /\ applied = {} /\ failed = {} /\ done = {} /\ orphans = {}
  /\ writer = "recv" /\ taken = 0 /\ released = 0
  /\ pc = [c \in Clients |-> "idle"]
  /\ about = [c \in Clients |-> {}] /\ waits = [c \in Clients |-> {}]
  /\ mark = [c \in Clients |-> 0] /\ tries = [c \in Clients |-> 0]
  /\ calls = [c \in Clients |-> 0]

-----------------------------------------------------------------------------
Goto(c, l) == pc' = [pc EXCEPT ![c] = l]
Begin(c) == pc[c] = "idle" /\ calls[c] < Calls[c] /\ calls' = [calls EXCEPT ![c] = @ + 1]

(* register_and_send: the map's lock spans the insert and the send.        *)
Register(k) ==
  /\ writer # "gone"
  /\ cmds' = Append(cmds, k)
  /\ map' = [map EXCEPT ![k] = Len(cmds) + 1]
  /\ orphans' = IF writer = "drained" THEN orphans \cup {Len(cmds) + 1} ELSE orphans
  /\ UNCHANGED <<done, writerVars>>

(* The receiver is gone: the key is cleared and the slot the insert        *)
(* displaced is completed.                                                 *)
RollBack(k) ==
  /\ writer = "gone"
  /\ map' = [map EXCEPT ![k] = 0]
  /\ done' = done \cup ({map[k]} \ {0})
  /\ UNCHANGED <<cmds, orphans, writerVars>>

(* SqliteCacheWriter::commit: queued, or an error; the caller goes on.     *)
Write(c, k) ==
  /\ Begin(c)
  /\ Register(k) \/ RollBack(k)
  /\ UNCHANGED <<pc, about, waits, mark, tries>>

(* delete: queued, and waited for; or an error.                            *)
Delete(c, k) ==
  /\ Begin(c)
  /\ \/ /\ Register(k)
        /\ about' = [about EXCEPT ![c] = {k}]
        /\ waits' = [waits EXCEPT ![c] = {Len(cmds) + 1}]
        /\ mark' = [mark EXCEPT ![c] = Len(cmds) + 1]
        /\ Goto(c, "waiting")
     \/ RollBack(k) /\ UNCHANGED <<pc, about, waits, mark>>
  /\ UNCHANGED tries

(* The tracker is searched for the slots of the keys ks.                   *)
Look(c, ks) ==
  /\ about' = [about EXCEPT ![c] = ks]
  /\ waits' = [waits EXCEPT ![c] = {map[k] : k \in ks} \ {0}]
  /\ mark' = [mark EXCEPT ![c] = Len(cmds)]
  /\ Goto(c, "waiting")
  /\ UNCHANGED <<cmds, map, done, orphans, writerVars>>

(* reader, seekable_reader and exists park on the slot they find.          *)
Park(c, k) ==
  Begin(c) /\ Look(c, {k}) /\ tries' = [tries EXCEPT ![c] = 0]

(* exists_local asks existence, which reports the slot and does not wait.  *)
Probe(c, k) ==
  Begin(c) /\ Look(c, {k}) /\ tries' = [tries EXCEPT ![c] = MaxQueueWaits]
ProbeAgain(c) ==
  pc[c] = "probe" /\ Look(c, about[c]) /\ UNCHANGED <<tries, calls>>

(* drain_queued_writes awaits every slot it finds.                         *)
DrainQueued(c) ==
  Begin(c) /\ Look(c, Keys) /\ tries' = [tries EXCEPT ![c] = 0]

(* The slots are done.  A probe that awaited one asks again, until its     *)
(* tries are used up; everyone else goes on to the committed state.        *)
Resume(c) ==
  /\ pc[c] = "waiting" /\ waits[c] \subseteq done
  /\ LET again == tries[c] > 1 /\ waits[c] # {} IN
       /\ Goto(c, IF again THEN "probe" ELSE "answer")
       /\ tries' = [tries EXCEPT ![c] = IF again THEN @ - 1 ELSE @]
  /\ UNCHANGED <<cmds, map, done, orphans, writerVars, about, waits, mark, calls>>

(* The indexed lookup, or the return.                                      *)
Answer(c) ==
  /\ pc[c] = "answer" /\ Goto(c, "idle")
  /\ about' = [about EXCEPT ![c] = {}] /\ waits' = [waits EXCEPT ![c] = {}]
  /\ mark' = [mark EXCEPT ![c] = 0] /\ tries' = [tries EXCEPT ![c] = 0]
  /\ UNCHANGED <<cmds, map, done, orphans, writerVars, calls>>

-----------------------------------------------------------------------------
(* collect_batch: what is queued, up to a number of commands and of bytes. *)
Collect ==
  /\ writer = "recv"
  /\ \E n \in 1..BatchMax : taken + n <= Len(cmds) /\ taken' = taken + n
  /\ writer' = "batch"
  /\ UNCHANGED <<cmds, map, done, orphans, applied, failed, released, clientVars>>

Batch == released + 1 .. taken

(* process_batch: one transaction, in channel order; or it is rolled back. *)
Commit ==
  /\ writer = "batch" /\ writer' = "release"
  /\ applied' = applied \cup Batch
  /\ UNCHANGED <<cmds, map, done, orphans, failed, taken, released, clientVars>>

FailBatch ==
  /\ writer = "batch" /\ writer' = "release"
  /\ failed' = failed \cup Batch
  /\ UNCHANGED <<cmds, map, done, orphans, applied, taken, released, clientVars>>

\* mutant: the key is cleared whoever owns it by now
Release_clears ==
  /\ writer = "release" /\ released < taken
  /\ LET i == released + 1 IN
       /\ map' = [map EXCEPT ![cmds[i]] = 0]
       /\ done' = done \cup {i}
       /\ released' = i
       /\ writer' = IF i = taken THEN "recv" ELSE "release"
  /\ UNCHANGED <<cmds, orphans, applied, failed, taken, clientVars>>

(* PendingTracker::complete, for the next command of the batch: the key is *)
(* cleared only if the slot is still the latest.                           *)
Release ==
  /\ writer = "release" /\ released < taken
  /\ LET i == released + 1 IN
       /\ map' = [k \in Keys |-> IF map[k] = i THEN 0 ELSE map[k]]
       /\ done' = done \cup {i}
       /\ released' = i
       /\ writer' = IF i = taken THEN "recv" ELSE "release"
  /\ UNCHANGED <<cmds, orphans, applied, failed, taken, clientVars>>

(* A panic, or every sender gone and nothing queued: the loop is left ...  *)
Unwind ==
  /\ \/ MayPanic /\ writer \in {"batch", "release"}
     \/ /\ writer = "recv" /\ taken = Len(cmds)
        /\ \A c \in Clients : pc[c] = "idle" /\ calls[c] = Calls[c]
  /\ writer' = "unwinding"
  /\ UNCHANGED <<cmds, map, done, orphans, applied, failed, taken, released, clientVars>>

\* mutant: the map is emptied and nobody told
DrainOnExit_silent ==
  /\ writer = "unwinding" /\ writer' = "drained"
  /\ orphans' = {i \in Sent : i \notin done /\ map[cmds[i]] # i}
  /\ map' = [k \in Keys |-> 0]
  /\ UNCHANGED <<cmds, done, applied, failed, taken, released, clientVars>>

(* ... DrainOnExit completes every slot in the map ...                     *)
DrainOnExit ==
  /\ writer = "unwinding" /\ writer' = "drained"
  /\ done' = done \cup ({map[k] : k \in Keys} \ {0})
  /\ orphans' = {i \in Sent : i \notin done /\ map[cmds[i]] # i}
  /\ map' = [k \in Keys |-> 0]
  /\ UNCHANGED <<cmds, applied, failed, taken, released, clientVars>>

(* ... and the thread's closure drops the receiver.                        *)
DropReceiver ==
  /\ writer = "drained" /\ writer' = "gone"
  /\ UNCHANGED <<cmds, map, done, orphans, applied, failed, taken, released, clientVars>>

Rest ==
  /\ writer = "gone"
  /\ \A c \in Clients :
       \/ pc[c] = "idle" /\ calls[c] = Calls[c]
       \/ pc[c] = "waiting" /\ ~ waits[c] \subseteq done
  /\ UNCHANGED vars

WriterStep ==
  Collect \/ Commit \/ FailBatch \/ Release \/ Unwind \/ DrainOnExit \/ DropReceiver
Call(c) ==
  \/ \E k \in Keys : Write(c, k) \/ Delete(c, k) \/ Park(c, k) \/ Probe(c, k)
  \/ DrainQueued(c)
GoOn(c) == ProbeAgain(c) \/ Resume(c) \/ Answer(c)

Next == WriterStep \/ (\E c \in Clients : Call(c) \/ GoOn(c)) \/ Rest

Spec == Init /\ [][Next]_vars

(* The writer is a thread of its own, and a woken client is polled.        *)
FairSpec == Spec /\ WF_vars(WriterStep) /\ \A c \in Clients : WF_vars(GoOn(c))

-----------------------------------------------------------------------------
Slots == Nat \ {0}
TypeOK ==
  /\ cmds \in Seq(Keys) /\ map \in [Keys -> Nat] /\ applied \subseteq Slots
  /\ failed \subseteq Slots /\ done \subseteq Slots /\ orphans \subseteq Slots
  /\ writer \in {"recv", "batch", "release", "unwinding", "drained", "gone"}
  /\ taken \in Nat /\ released \in Nat
  /\ pc \in [Clients -> {"idle", "waiting", "probe", "answer"}]
  /\ about \in [Clients -> SUBSET Keys] /\ waits \in [Clients -> SUBSET Slots]
  /\ mark \in [Clients -> Nat] /\ tries \in [Clients -> Nat]
  /\ calls \in [Clients -> Nat]

Working == writer \in {"recv", "batch", "release"}

(* A call that waited out the queue, be it a read, a probe, a delete or a  *)
(* drain, goes on only when every command queued for its keys before it    *)
(* looked is committed, or its batch has failed: "the slot a reader finds  *)
(* for a key is the last one to complete for it".                          *)
Settled(c) ==
  \A i \in 1..mark[c] : cmds[i] \in about[c] => i \in applied \cup failed
SeesWhatWasQueued ==
  Working => \A c \in Clients : pc[c] = "answer" => Settled(c)

(* Every wait ends: the writer releases the slots of a batch whether or    *)
(* not it landed, and, if it panics, those still in the map, so that       *)
(* nobody waits "on a commit that is never coming".  Left out are the      *)
(* slots the panic finds superseded, whose commands die with the channel,  *)
(* and those registered between the drain and the receiver's drop.         *)
WaitsEndUnlessOrphaned ==
  \A c \in Clients :
    pc[c] = "waiting" ~> pc[c] # "waiting" \/ waits[c] \cap orphans # {}

-----------------------------------------------------------------------------
(* What makes SeesWhatWasQueued inductive.  The writer releases the slots  *)
(* of a batch in channel order, after its transaction ...                  *)
Cursors ==
  /\ released <= taken /\ taken <= Len(cmds)
  /\ writer = "recv" => released = taken
  /\ writer \in {"batch", "release"} => released < taken
  /\ \A c \in Clients : mark[c] <= Len(cmds)
ReleasedIsOver ==
  /\ done \subseteq 1..released
  /\ 1..released \subseteq applied \cup failed
  /\ writer = "release" => 1..taken \subseteq applied \cup failed
(* ... the map has the last slot of every key with a command outstanding,  *)
(* and so has every wait.                                                  *)
MapIsLast ==
  \A i \in Sent : i > released => map[cmds[i]] >= i
WaitsForTheLast ==
  \A c \in Clients : pc[c] = "waiting" =>
    \A i \in 1..mark[c] :
      cmds[i] \in about[c] /\ i > released => \E s \in waits[c] : s >= i
QueueInv ==
  /\ TypeOK
  /\ Working => /\ Cursors /\ ReleasedIsOver /\ MapIsLast /\ WaitsForTheLast
                /\ SeesWhatWasQueued
=============================================================================
