---------------------------- MODULE ResultPath ------------------------------
(***************************************************************************)
(* How requests resolve one target (crates/engine/src/engine/result.rs,    *)
(* resolve_locked_inner, contend_for_write, execute_and_cache), beside the *)
(* commands that delete its cache entries (gc.rs, clean.rs), over the lock *)
(* TransformableLock promises.  A revision's entry is a manifest, whose    *)
(* hashouts are a version (0: no manifest), and the bytes of its blobs.    *)
(* Each task is one request, or one command, in a process of its own.  A   *)
(* request that wrote an entry trims the target's history when it is over, *)
(* and one that wrote an in-place target's files back to the tree copies   *)
(* the entry to the revision the tree now hashes to, without its lock.     *)
(* What a task writes it queues for its process's writer thread: it lands  *)
(* later, in order, or is lost with a failed batch, and until then only    *)
(* the task itself sees it.                                                *)
(***************************************************************************)
EXTENDS TransformableLock, Naturals

CONSTANTS
  Kind,          \* per task: "plain", "force", "hash", "gc" or "clean"
  Want,          \* per task: the revision its inputs hash to
  Reproducible,  \* the revisions of which every run makes the same bytes
  Remote,        \* the revisions a remote cache has
  Fix,           \* per revision: what the tree hashes to once its outputs are written back
  History,       \* how many revisions a trim keeps
  MayStop,       \* the tasks that may fail, be cancelled or be killed
  MaxRuns        \* bound on the versions made

ASSUME PathAssumption ==
  /\ Kind \in [Tasks -> {"plain", "force", "hash", "gc", "clean"}]
  /\ Want \in [Tasks -> Revs]
  /\ Remote \subseteq Revs /\ MayStop \subseteq Tasks
  /\ Reproducible \subseteq Revs /\ MaxRuns \in Nat \ {0}
  /\ None \notin Tasks
  /\ History \in Nat \ {0} /\ IsFiniteSet(Revs)
  /\ Fix \in [Revs -> Revs] /\ \A r \in Revs : Fix[Fix[r]] = Fix[r]
  \* The fixpoint's key hashes the very bytes that were written back.
  /\ \A r \in Revs : Fix[r] # r => {r, Fix[r]} \subseteq Reproducible

VARIABLES
  bytes,  \* per revision: the version its blobs hold, 0 when they are absent
  exec,   \* who holds the target's execute lock
  pc,     \* per task: where it is
  seen,   \* per task: the hashouts it resolved to, or made
  todo,   \* per task: the revisions a trim, gc or clean has chosen to delete
  runs,   \* the last version a run made; the first is the remote's
  queued, \* per task: the parts of an entry its process has yet to write
  made,   \* per task: the version of the blobs and manifest it queued last
  into,   \* per task: the revision they are of
  newer,  \* per revision with a manifest: those with a manifest of a newer stamp
  wrote,  \* the tasks that wrote their revision, and owe a trim of the history
  torn,   \* the revisions of which a part was lost, or replaced by another version
  late    \* those of which a manifest landed, since the gateway was taken, without it

queueVars == <<queued, made, into>>
pathVars == <<bytes, exec, seen, todo, runs, queueVars>>
histVars == <<newer, wrote, torn, late>>
vars == <<absVars, pathVars, histVars, pc>>

Start(t) ==
  CASE Kind[t] \in {"plain", "hash"} -> "start"
    [] Kind[t] = "force" -> "fgate"
    [] Kind[t] \in {"gc", "clean"} -> "listing"

Init ==
  /\ InitLock
  /\ content = [r \in Revs |-> 0]
  /\ bytes = [r \in Revs |-> 0]
  /\ exec = None
  /\ pc = [t \in Tasks |-> Start(t)]
  /\ seen = [t \in Tasks |-> 0]
  /\ todo = [t \in Tasks |-> {}]
  /\ runs = 1
  /\ queued = [t \in Tasks |-> {}] /\ made = [t \in Tasks |-> 0] /\ into = Want
  /\ newer = [r \in Revs |-> {}] /\ wrote = {} /\ torn = {} /\ late = {}

-----------------------------------------------------------------------------
At(t, from, to) == pc[t] = from /\ pc' = [pc EXCEPT ![t] = to]
Keep == UNCHANGED <<content, pathVars, histVars>>
Resolved(t, v) == seen' = [seen EXCEPT ![t] = v]
Entries == {r \in Revs : content[r] # 0}

Wrote(t) == t \in wrote

(* The gateway is taken, and what landed without it before is history.     *)
TakeGate(t) == Gate(t) /\ late' = {}
KeepAll == UNCHANGED <<content, pathVars, newer, wrote, torn>>

(* The stamps once r's manifest is the next older than those in S, or gone. *)
Stamped(r, S) ==
  [x \in Revs |-> IF x = r THEN S
                  ELSE IF x \in Entries \ S THEN newer[x] \cup {r} ELSE newer[x] \ {r}]
Unstamped(r) == [x \in Revs |-> IF x = r THEN {} ELSE newer[x] \ {r}]

(* A part goes to the process's writer thread, and the task moves on.      *)
Queue(t, part) == queued' = [queued EXCEPT ![t] = @ \cup {part}]
Mirroring(r) == {u \in Tasks : Want[u] = r /\ "mirror" \in queued[u]}

(* Nothing compares a part of an entry that is new with the parts that are *)
(* there, or that a remote's manifest on its way there names.              *)
Versions(r) == {content[r], bytes[r]} \cup {1 : u \in Mirroring(r)}
Mix(r, v) == torn' = IF Versions(r) \subseteq {0, v} THEN torn ELSE torn \cup {r}

(* The optimistic read, and the probe under it: a hit rides on it; a miss  *)
(* gives it back, and is all a hash-only request may learn.                *)
TakeRead(t) == At(t, "start", "probe") /\ Ride(t, Want[t]) /\ Keep

ProbeHit(t) ==
  /\ At(t, "probe", "riding") \/ At(t, "reprobe", "riding")
  /\ content[Want[t]] # 0
  /\ Resolved(t, content[Want[t]])
  /\ UNCHANGED <<absVars, bytes, exec, todo, runs, queueVars, histVars>>

ProbeMiss(t) ==
  /\ \/ At(t, "probe", IF Kind[t] = "hash" THEN "unknown" ELSE "try")
     \/ At(t, "reprobe", "try")
  /\ content[Want[t]] = 0
  /\ Alight(t, Want[t]) /\ Keep

(* try_write: the gateway if nobody has it, then the revision if nobody    *)
(* reads it, and otherwise neither.                                        *)
TryGateway(t) ==
  /\ \/ At(t, "try", "try_inner") /\ TakeGate(t)
     \/ /\ At(t, "try", "contend") /\ \E u \in Tasks : hold[u] # "none"
        /\ UNCHANGED <<lockVars, late>>
  /\ KeepAll

\* mutant: wait for the readers with the gateway in hand
TryRevision_waits(t) ==
  /\ At(t, "try_inner", "recheck") /\ Exclude(t, Want[t])
  /\ Keep

\* mutant: the gateway is kept when the revision is taken
TryRevision_keeps(t) ==
  /\ \/ At(t, "try_inner", "recheck") /\ Exclude(t, Want[t])
     \/ At(t, "try_inner", "contend") /\ Ridden(Want[t]) /\ UNCHANGED lockVars
  /\ Keep

TryRevision(t) ==
  /\ \/ At(t, "try_inner", "recheck") /\ Exclude(t, Want[t])
     \/ At(t, "try_inner", "contend") /\ Ridden(Want[t]) /\ Ungate(t)
  /\ Keep

(* contend_for_write: take and drop the gateway, probe under a read, and   *)
(* try again; the pause between rounds is the scheduler's.                 *)
Contend(t) ==
  /\ \/ At(t, "contend", "pass") /\ TakeGate(t)
     \/ At(t, "pass", "reread") /\ Ungate(t) /\ UNCHANGED late
     \/ At(t, "reread", "reprobe") /\ Ride(t, Want[t]) /\ UNCHANGED late
  /\ KeepAll

\* mutant: no second look under the write lock
Recheck_builds(t) ==
  /\ At(t, "recheck", "run")
  /\ UNCHANGED <<absVars, pathVars, histVars>>

(* Under the write lock: somebody else's entry, a remote's manifest, for   *)
(* whose copy to land nobody waits, or a run.                              *)
Recheck(t) ==
  LET r == Want[t] IN
  /\ \/ /\ content[r] # 0 /\ At(t, "recheck", "written")
        /\ Resolved(t, content[r]) /\ UNCHANGED <<queued, torn>>
     \/ /\ content[r] = 0 /\ r \in Remote /\ At(t, "recheck", "written")
        /\ Resolved(t, 1) /\ Queue(t, "mirror") /\ Mix(r, 1)
     \/ /\ content[r] = 0 /\ At(t, "recheck", "run")
        /\ UNCHANGED <<seen, queued, torn>>
  /\ UNCHANGED <<absVars, bytes, exec, todo, runs, made, into, newer, wrote, late>>

(* A forced run waits for the gateway, and then for the readers.           *)
ForceWrite(t) ==
  /\ \/ At(t, "fgate", "fwrite") /\ TakeGate(t)
     \/ At(t, "fwrite", "run") /\ Exclude(t, Want[t]) /\ UNCHANGED late
  /\ KeepAll

\* mutant: a rebuild under a riding read skips the execute lock
Execute_rebuildsBare(t) ==
  /\ \/ At(t, "run", "running") /\ exec = None /\ exec' = t
     \/ At(t, "rerun", "rerunning") /\ UNCHANGED exec
  /\ UNCHANGED <<absVars, bytes, seen, todo, runs, queueVars, histVars>>

(* The execute lock: one run of the target at a time, whatever it holds.   *)
Execute(t) ==
  /\ At(t, "run", "running") \/ At(t, "rerun", "rerunning")
  /\ exec = None /\ exec' = t
  /\ UNCHANGED <<absVars, bytes, seen, todo, runs, queueVars, histVars>>

Made(t) == IF Want[t] \in Reproducible THEN 1 ELSE runs + 1

(* cache_locally: the blobs are queued, then the manifest, and the request *)
(* waits for them, the execute lock still held.                            *)
StoreBlobs(t) ==
  /\ Made(t) <= MaxRuns
  /\ \/ At(t, "running", "stored") /\ Resolved(t, Made(t))
     \/ At(t, "rerunning", "restored") /\ UNCHANGED seen
  /\ Queue(t, "blobs") /\ made' = [made EXCEPT ![t] = Made(t)] /\ into' = [into EXCEPT ![t] = Want[t]]
  /\ runs' = IF Want[t] \in Reproducible THEN runs ELSE runs + 1
  /\ UNCHANGED <<absVars, bytes, exec, todo, histVars>>

StoreManifest(t) ==
  /\ At(t, "stored", "landing") \/ At(t, "restored", "relanding")
  /\ Queue(t, "manifest")
  /\ UNCHANGED <<absVars, bytes, exec, seen, todo, runs, made, into, histVars>>

(* writer_loop: the oldest part the process has queued becomes visible,    *)
(* wherever the task is by then.                                           *)
Before(part) ==
  CASE part = "mirror" -> {} [] part = "blobs" -> {"mirror"} [] part = "manifest" -> {"mirror", "blobs"}
Write(t, part) ==
  /\ part \in queued[t] /\ queued[t] \cap Before(part) = {}
  /\ queued' = [queued EXCEPT ![t] = @ \ {part}]
  /\ UNCHANGED <<lockVars, exec, pc, seen, todo, runs, made, into, wrote>>

Goes(t, part) == IF part = "mirror" THEN Want[t] ELSE into[t]

LandBlobs(t) ==
  /\ Write(t, "blobs")
  /\ bytes' = [bytes EXCEPT ![into[t]] = made[t]] /\ Mix(into[t], made[t])
  /\ UNCHANGED <<content, newer, late>>

(* A manifest was stamped when it was queued, a remote's where it was made. *)
Locked == {"landing", "written", "up", "handed", "letting"}
LandManifest(t, part) ==
  LET r == Goes(t, part)  v == IF part = "mirror" THEN 1 ELSE made[t] IN
  /\ Write(t, part) /\ part # "blobs"
  /\ content' = [content EXCEPT ![r] = v] /\ Mix(r, v)
  /\ \E S \in SUBSET (Entries \ {r}) :
       (\A x \in S : newer[x] \ {r} \subseteq S) /\ newer' = Stamped(r, S)
  /\ late' = IF pc[t] \in Locked THEN late ELSE late \cup {r}
  /\ UNCHANGED bytes

(* A batch that fails is not tried again.                                  *)
Lose(t, part) ==
  /\ Write(t, part)
  /\ torn' = torn \cup {Goes(t, part)}
  /\ UNCHANGED <<content, bytes, newer, late>>

Land(t) ==
  LandBlobs(t) \/ \E part \in {"mirror", "blobs", "manifest"} : LandManifest(t, part) \/ Lose(t, part)

(* The wait is over, also when there is nothing there.  A rebuild under a  *)
(* read is then reconciled with the manifest it replaced: other hashouts   *)
(* fail the request, and nobody else who rides.                            *)
Stored(t) ==
  LET r == Want[t] IN
  /\ queued[t] = {}
  /\ wrote' = wrote \cup {t} /\ exec' = None
  /\ \/ /\ At(t, "landing", "written") /\ UNCHANGED lockVars
        /\ torn' = IF {content[r], bytes[r]} = {made[t]} THEN torn \ {r} ELSE torn
     \/ made[t] = seen[t] /\ At(t, "relanding", "riding") /\ UNCHANGED <<lockVars, torn>>
     \/ made[t] # seen[t] /\ At(t, "relanding", "trim") /\ Alight(t, r) /\ UNCHANGED torn
  /\ UNCHANGED <<content, bytes, seen, todo, runs, queueVars, newer, late>>

\* mutant: the write lock is released before the riding read is taken
HandOff_gap(t) ==
  /\ \/ At(t, "written", "up") /\ LetGo(t)
     \/ At(t, "up", "handed") /\ Ungate(t)
     \/ At(t, "handed", "riding") /\ Ride(t, Want[t])
  /\ Keep

(* Write, upgradable read, riding read, and only then the gateway goes.    *)
HandOff(t) ==
  /\ \/ At(t, "written", "up") /\ Demote(t)
     \/ At(t, "up", "handed") /\ Ride(t, Want[t])
     \/ At(t, "handed", "letting") /\ LetGo(t)
     \/ At(t, "letting", "riding") /\ Ungate(t)
  /\ Keep

-----------------------------------------------------------------------------
(* The caller reads bytes under its riding read: those of a hit that are   *)
(* missing are pulled from the remote, which may have lost them, and then  *)
(* rebuilt.                                                                *)
Absent(t) == bytes[Want[t]] = 0 /\ "blobs" \notin queued[t] /\ ~Wrote(t)

Pull(t) ==
  /\ pc[t] = "riding" /\ Kind[t] # "hash"
  /\ Absent(t) /\ Want[t] \in Remote
  /\ Queue(t, "blobs") /\ made' = [made EXCEPT ![t] = 1] /\ into' = [into EXCEPT ![t] = Want[t]]
  /\ UNCHANGED <<absVars, bytes, exec, pc, seen, todo, runs, histVars>>

Unavailable(t) ==
  /\ Absent(t)
  /\ At(t, "riding", IF Kind[t] = "hash" THEN "unknown" ELSE "rerun")
  /\ IF Kind[t] = "hash" THEN Alight(t, Want[t]) ELSE UNCHANGED lockVars
  /\ Keep

(* maybe_store_fixpoint: the write-back moved the tree, and the entry is   *)
(* copied to where it moved, blobs first, while only the revision copied   *)
(* from is ridden; nobody waits for the copy to land.                      *)
CopyBlobs(t) ==
  LET r == Want[t] IN
  /\ Kind[t] # "hash" /\ Fix[r] # r
  /\ queued[t] = {} /\ 0 \notin {content[r], bytes[r]}
  /\ At(t, "riding", "copying")
  /\ Queue(t, "blobs") /\ made' = [made EXCEPT ![t] = bytes[r]] /\ into' = [into EXCEPT ![t] = Fix[r]]
  /\ UNCHANGED <<absVars, bytes, exec, seen, todo, runs, histVars>>

CopyManifest(t) ==
  /\ At(t, "copying", "copied") /\ Queue(t, "manifest")
  /\ UNCHANGED <<absVars, bytes, exec, seen, todo, runs, made, into, histVars>>

(* The last artifact is dropped, and with the request's state the trim it  *)
(* owes is submitted.                                                      *)
Finish(t) ==
  /\ \E at \in {"riding", "copied"} : At(t, at, IF Wrote(t) THEN "trim" ELSE "done")
  /\ Alight(t, Want[t]) /\ Keep

-----------------------------------------------------------------------------
(* A revision is listed when a row of it is there, blob or manifest.       *)
Listed == {r \in Revs : content[r] # 0 \/ bytes[r] # 0}
OverBudget == Cardinality(Listed) > History
Newest == {r \in Entries : Cardinality(newer[r]) < History}

(* trim_addr_history: all but the newest, and never what this request      *)
(* wrote.  A revision without a manifest names no blobs to delete.         *)
Surplus(t) == Entries \ (Newest \cup {r \in {Want[t]} : Wrote(t)})

(* Nothing to do is seen without a lock.                                   *)
SkipListing(t) ==
  /\ Listed = {} \/ (Kind[t] = "gc" /\ ~OverBudget)
  /\ At(t, "listing", "done")
  /\ UNCHANGED <<absVars, pathVars, histVars>>

Count(t) ==
  /\ At(t, "trim", IF OverBudget THEN "trimming" ELSE "done")
  /\ UNCHANGED <<absVars, pathVars, histVars>>

(* A trim that finds the target busy gives up: at its third attempt, but   *)
(* one that lost and is repeated is one made later.                        *)
GiveUp(t) ==
  /\ \E u \in Tasks : hold[u] # "none"
  /\ At(t, "trimming", "done")
  /\ UNCHANGED <<absVars, pathVars, histVars>>

\* mutant: the trim deletes by the list it made before it had the gateway
List_stale(t) ==
  /\ \/ /\ At(t, "trimming", "gating") \/ At(t, "listing", "gating")
        /\ todo' = [todo EXCEPT ![t] = Surplus(t)] /\ UNCHANGED lockVars
     \/ At(t, "gating", "deleting") /\ Gate(t) /\ UNCHANGED todo
  /\ UNCHANGED <<content, bytes, exec, seen, runs, queueVars, histVars>>

(* With the gateway in hand the target is listed again: clean takes all,   *)
(* gc all of a target that is gone.                                        *)
List(t) ==
  /\ At(t, "listing", "deleting") \/ At(t, "trimming", "deleting")
  /\ TakeGate(t)
  /\ \E S \in {Entries, Surplus(t)} :
       /\ Kind[t] = "clean" => S = Entries
       /\ Kind[t] \notin {"clean", "gc"} => S = Surplus(t)
       /\ todo' = [todo EXCEPT ![t] = S]
  /\ UNCHANGED <<content, bytes, exec, seen, runs, queueVars, newer, wrote, torn>>

\* mutant: gc deletes without the revision's lock
Pick_unlocked(t, r) ==
  /\ r \in todo[t]
  /\ todo' = [todo EXCEPT ![t] = @ \ {r}]
  /\ \/ /\ At(t, "deleting", "blobs") /\ hold' = [hold EXCEPT ![t] = "write"]
        /\ on' = [on EXCEPT ![t] = r] /\ UNCHANGED riding
     \/ At(t, "deleting", "deleting") /\ Kind[t] # "clean" /\ Ridden(r) /\ UNCHANGED lockVars
  /\ UNCHANGED <<content, bytes, exec, seen, runs, queueVars, histVars>>

(* A revision in use is waited for by clean and skipped by the others.     *)
Pick(t, r) ==
  /\ r \in todo[t]
  /\ todo' = [todo EXCEPT ![t] = @ \ {r}]
  /\ \/ At(t, "deleting", "blobs") /\ Exclude(t, r)
     \/ At(t, "deleting", "deleting") /\ Kind[t] # "clean" /\ Ridden(r) /\ UNCHANGED lockVars
  /\ UNCHANGED <<content, bytes, exec, seen, runs, queueVars, histVars>>

(* gc_entry: the blobs, then the manifest, behind what is queued.          *)
DeleteBlobs(t) ==
  /\ queued[t] = {}
  /\ At(t, "blobs", "manifest")
  /\ bytes' = [bytes EXCEPT ![on[t]] = 0]
  /\ UNCHANGED <<absVars, exec, seen, todo, runs, queueVars, histVars>>

DeleteManifest(t) ==
  /\ At(t, "manifest", "deleting") /\ LetGo(t)
  /\ content' = [content EXCEPT ![on[t]] = 0] /\ newer' = Unstamped(on[t])
  /\ torn' = torn \ {on[t]} /\ late' = late \ {on[t]}
  /\ UNCHANGED <<pathVars, wrote>>

EndDeleting(t) ==
  /\ todo[t] = {} /\ At(t, "deleting", "done") /\ Ungate(t)
  /\ Keep

-----------------------------------------------------------------------------
Ended == {"done", "unknown", "failed"}
Trimming == {"trim", "trimming", "deleting", "blobs", "manifest"}

(* A run fails, a wait or a run is cancelled, or the process is killed:    *)
(* what it held goes, what it wrote stays, and unless it was killed what   *)
(* it queued lands without it and a trim it owes is still submitted.       *)
Stop(t) ==
  /\ t \in MayStop /\ pc[t] \notin Ended
  /\ \/ pc' = [pc EXCEPT ![t] = "failed"] /\ \E q \in {{}, queued[t]} : queued' = [queued EXCEPT ![t] = q]
     \/ Wrote(t) /\ pc[t] \notin Trimming /\ pc' = [pc EXCEPT ![t] = "trim"] /\ UNCHANGED queued
  /\ hold' = [hold EXCEPT ![t] = "none"] /\ on' = [on EXCEPT ![t] = None]
  /\ riding' = [riding EXCEPT ![t] = {}]
  /\ exec' = IF exec = t THEN None ELSE exec
  /\ UNCHANGED <<content, bytes, seen, todo, runs, made, into, histVars>>

Work(t) ==
  \/ TakeRead(t) \/ ProbeHit(t) \/ ProbeMiss(t)
  \/ TryGateway(t) \/ TryRevision(t) \/ Recheck(t)
  \/ ForceWrite(t) \/ Execute(t) \/ StoreBlobs(t) \/ StoreManifest(t) \/ Stored(t) \/ HandOff(t)
  \/ Pull(t) \/ Unavailable(t) \/ CopyManifest(t)
  \/ Count(t) \/ GiveUp(t) \/ SkipListing(t) \/ List(t) \/ DeleteBlobs(t) \/ DeleteManifest(t) \/ EndDeleting(t)
  \/ \E r \in Revs : Pick(t, r)

Missing == {t \in Tasks : Kind[t] = "plain"}
Writers == {t \in Tasks : Kind[t] \in {"plain", "force"}}

Idle == (\A t \in Tasks : pc[t] \in Ended) /\ UNCHANGED vars

Next ==
  \/ \E t \in Tasks : Work(t) \/ Land(t) \/ Contend(t) \/ CopyBlobs(t) \/ Finish(t) \/ Stop(t)
  \/ Idle

Spec == Init /\ [][Next]_vars

(* Requests and writer threads move when they can; the gateway, taken and  *)
(* dropped over and over by others, comes round in the end.                *)
FairSpec ==
  /\ Spec
  /\ \A t \in Tasks : WF_vars(Work(t))
  /\ \A t \in Writers : WF_vars(Land(t))
  /\ \A t \in Missing : SF_vars(Contend(t))

(* jittered: misses that lost the same race do not retry in lockstep, so   *)
(* one that keeps trying does not meet another's pass or probe each time.  *)
Apart(t) ==
  /\ []<>(pc[t] = "try") => []<>(pc[t] = "try" /\ \A u \in Tasks : hold[u] = "none")
  /\ []<>(pc[t] = "try_inner") => []<>(pc[t] = "try_inner" /\ ~Ridden(Want[t]))

WinGateway(t) == TryGateway(t) /\ pc'[t] = "try_inner"
WinRevision(t) == TryRevision(t) /\ pc'[t] = "recheck"

(* Consumers finish, and who keeps trying wins.                            *)
ConsumersFinish ==
  /\ \A t \in Missing : SF_vars(WinGateway(t)) /\ SF_vars(WinRevision(t)) /\ Apart(t)
  /\ \A t \in Tasks : WF_vars(Finish(t))

-----------------------------------------------------------------------------
(* A request that resolved to some hashouts never stages bytes of others,  *)
(* "bytes the key never named": while it rides, the manifest it sees names *)
(* what it resolved to, and the bytes there are are those.  The runs of a  *)
(* target that is not reproducible can put other bytes under a manifest    *)
(* that stays: a forced run that stops before its manifest, or whose       *)
(* queued parts land once its lock is gone, a rebuild under somebody       *)
(* else's riding read, blobs pulled for a manifest made here.  A batch     *)
(* that fails can leave no manifest at all, and of a reproducible target   *)
(* nothing worse.                                                          *)
Named(t) == IF "mirror" \in queued[t] THEN 1 ELSE content[Want[t]]
StagedIsNamed ==
  \A t \in Tasks : pc[t] \in {"riding", "copying", "copied"} =>
    /\ Want[t] \in torn \/ (Named(t) = seen[t] /\ bytes[Want[t]] \in {0, seen[t]})
    /\ Want[t] \in Reproducible => {Named(t), bytes[Want[t]]} \subseteq {0, seen[t]}

(* The sandbox is per target: one run of it at a time, also of another     *)
(* revision, also when it rebuilds under a riding read.                    *)
Runs == {"running", "stored", "landing", "rerunning", "restored", "relanding"}
OneRunAtATime == \A t, u \in Tasks : pc[t] \in Runs /\ pc[u] \in Runs => t = u

(* Only a forced run replaces an entry: a miss that waited for another     *)
(* request's build shares it.  A manifest that lands from a task that is   *)
(* without the lock by then (a fixpoint's copy, a remote's manifest, a     *)
(* cancelled run's) the miss can find when its run is over.                *)
NeverBuiltTwice ==
  \A t \in Tasks : Kind[t] = "plain" /\ pc[t] \in {"run", "running", "stored"} =>
    content[Want[t]] = 0 \/ Want[t] \in late

(* "keep the target's `keep` newest revisions, always preserving           *)
(* `written_hashin`": also by the time it deletes, what a trim deletes is  *)
(* not the revision it was submitted for, nor one of the newest, unless    *)
(* its manifest, or one that was newer and no longer is, landed since the  *)
(* trim has the gateway: nothing keeps out the writes that land without.   *)
TrimKeepsNewest ==
  [][\A t \in Tasks : Wrote(t) /\ pc[t] = "manifest" /\ pc'[t] = "deleting" =>
       /\ on[t] # Want[t]
       /\ on[t] \in Newest => on[t] \in late \/ Cardinality(newer[on[t]] \cup late) >= History]_vars

(* "a miss that lost the race ... share the result (N10)": it does not     *)
(* wait for the consumers of what the winner built to exit, unless a       *)
(* forced run or a clean waits for them with the gateway in hand.          *)
Contending == {"try", "try_inner", "contend", "pass", "reread", "reprobe"}
WaitsForReaders(u) == pc[u] = "fwrite" \/ (Kind[u] = "clean" /\ pc[u] = "deleting")
LoserShares ==
  \A t \in Tasks :
    pc[t] \in Contending /\ content[Want[t]] # 0 ~>
      \/ pc[t] \notin Contending \/ content[Want[t]] = 0
      \/ \E u \in Tasks : WaitsForReaders(u)

(* No request, gc or clean waits for ever if consumers finish.             *)
EveryRequestEnds == ConsumersFinish => \A t \in Tasks : <>(pc[t] \in Ended)

-----------------------------------------------------------------------------
(* The inductive invariant behind the safety properties, first what a task *)
(* holds, which its place says.                                            *)
GateAt == {"try_inner", "pass", "fwrite", "letting", "deleting"}
ReadAt == {"up", "handed"}
WriteAt == {"recheck", "run", "running", "stored", "landing", "written"}
DeleteAt == {"blobs", "manifest"}
RideAt == {"probe", "reprobe", "handed", "letting", "riding", "rerun", "rerunning", "restored",
           "relanding", "copying", "copied"}
BareAt == {"start", "try", "contend", "reread", "fgate", "listing", "trim", "trimming"} \cup Ended

(* Every variable has its type.                                            *)
TypeOK ==
  /\ content \in [Revs -> 0 .. MaxRuns] /\ bytes \in [Revs -> 0 .. MaxRuns]
  /\ exec \in Tasks \cup {None}
  /\ pc \in [Tasks -> GateAt \cup ReadAt \cup WriteAt \cup DeleteAt \cup RideAt \cup BareAt]
  /\ hold \in [Tasks -> {"none", "gate", "read", "write"}]
  /\ on \in [Tasks -> Revs \cup {None}] /\ riding \in [Tasks -> SUBSET Revs]
  /\ seen \in [Tasks -> 0 .. MaxRuns]
  /\ todo \in [Tasks -> SUBSET Revs] /\ runs \in 0 .. MaxRuns
  /\ queued \in [Tasks -> SUBSET {"mirror", "blobs", "manifest"}]
  /\ made \in [Tasks -> 0 .. MaxRuns] /\ into \in [Tasks -> Revs]
  /\ newer \in [Revs -> SUBSET Revs] /\ torn \in SUBSET Revs /\ late \in SUBSET Revs
  /\ wrote \in SUBSET Tasks

PlaceSays(t) ==
  /\ hold[t] = IF pc[t] \in GateAt THEN "gate" ELSE IF pc[t] \in ReadAt THEN "read"
               ELSE IF pc[t] \in WriteAt \cup DeleteAt THEN "write" ELSE "none"
  /\ pc[t] \in ReadAt \cup WriteAt => on[t] = Want[t]
  /\ pc[t] \in ReadAt \cup WriteAt \cup DeleteAt <=> on[t] # None
  /\ riding[t] = IF pc[t] \in RideAt THEN {Want[t]} ELSE {}

OneGateway == \A t, u \in Tasks : hold[t] # "none" /\ hold[u] # "none" => t = u
WriteExcludesRides == \A t, u \in Tasks : hold[t] = "write" => on[t] \notin riding[u]
RunnerHasLock == \A t \in Tasks : pc[t] \in Runs <=> exec = t

(* What a kind of task never does, and has queued.                         *)
Unwritten == {"start", "probe", "reprobe", "try", "try_inner", "contend", "pass", "reread",
              "fgate", "fwrite", "recheck", "run", "running"}
KeepsToItsPart(t) ==
  /\ pc[t] \in {"fgate", "fwrite"} => Kind[t] = "force"
  /\ pc[t] \in {"copying", "copied"} => Fix[Want[t]] # Want[t]
  /\ pc[t] = "listing" => Kind[t] \in {"gc", "clean"}
  /\ Kind[t] \in {"gc", "clean"} =>
       pc[t] \in {"listing", "done", "failed", "deleting"} \cup DeleteAt /\ ~Wrote(t)
  /\ pc[t] \in Unwritten \cup {"stored", "landing"} => ~Wrote(t)
  /\ pc[t] \in Unwritten => queued[t] = {}
  /\ pc[t] = "stored" => queued[t] \subseteq {"blobs"}
  /\ pc[t] = "landing" => "mirror" \notin queued[t]

(* What a manifest names, and what a task resolved to, is what the blobs   *)
(* are, but for the torn revisions, and of a reproducible one there is one *)
(* version, also of the parts that are queued.                             *)
Knows == {"written", "up", "handed", "letting", "riding", "rerun", "rerunning", "restored",
          "relanding", "copying", "copied"}
Agrees(t) ==
  /\ Want[t] \in Reproducible => seen[t] < 2
  /\ into[t] \in Reproducible => made[t] < 2
  /\ queued[t] \cap {"blobs", "manifest"} # {} => made[t] # 0
  /\ pc[t] \in {"stored", "landing", "restored", "relanding"} => made[t] # 0 /\ into[t] = Want[t]
  /\ pc[t] = "copying" => made[t] # 0
  /\ pc[t] \in {"stored", "landing"} =>
       /\ seen[t] = made[t]
       /\ "blobs" \in queued[t] \/ Want[t] \in torn \/ bytes[Want[t]] = made[t]
       /\ pc[t] = "stored" \/ "manifest" \in queued[t] \/ Want[t] \in torn \/ content[Want[t]] = made[t]
  /\ pc[t] \in Knows =>
       /\ seen[t] # 0
       /\ Want[t] \in torn \/ (Named(t) = seen[t] /\ bytes[Want[t]] \in {0, seen[t]})
Matches(r) ==
  /\ content[r] = 0 \/ bytes[r] = 0 \/ content[r] = bytes[r] \/ r \in torn
  /\ r \in Reproducible => content[r] < 2 /\ bytes[r] < 2

PathInv ==
  /\ TypeOK /\ OneGateway /\ WriteExcludesRides /\ RunnerHasLock /\ NeverBuiltTwice
  /\ \A t \in Tasks : PlaceSays(t) /\ KeepsToItsPart(t) /\ Agrees(t)
  /\ \A r \in Revs : Matches(r)

(* The stamps are a strict order of the manifests, and a trim that owes to *)
(* a write spares its own revision and has, for each one it will delete,   *)
(* as many newer ones as are kept, but for those that landed since.        *)
StampsAreAnOrder ==
  /\ \A x, y \in Revs : y \in newer[x] => x \in Entries /\ y \in Entries /\ x # y
  /\ \A x, y, z \in Revs : x \in newer[y] /\ z \in newer[x] => z \in newer[y]
  /\ \A x, y \in Entries : x = y \/ x \in newer[y] \/ y \in newer[x]

Doomed(t) == todo[t] \cup ({on[t]} \cap Revs)
Spares(t) ==
  Wrote(t) /\ pc[t] \in {"deleting"} \cup DeleteAt =>
    /\ Want[t] \notin Doomed(t) /\ on[t] \notin todo[t]
    /\ \A r \in Doomed(t) : r \in late \/ Cardinality((newer[r] \cup late) \ Doomed(t)) >= History

HistInv == PathInv /\ StampsAreAnOrder /\ \A t \in Tasks : Spares(t)
=============================================================================
