------------------------------ MODULE Admission ------------------------------
(***************************************************************************)
(* What the admission pool promises, without counters, channels or a       *)
(* mutex: one line of requests, served strictly in order, each admitted    *)
(* into all of its pools at once, and what is out never exceeds a limit.   *)
(* ResourcePool implements it.                                             *)
(***************************************************************************)
EXTENDS Integers, Sequences, FiniteSets

CONSTANTS Tasks, Pools, Unbounded, Limit, Needs

VARIABLES
  line,   \* the tasks that wait, first come first
  out,    \* the tasks that were admitted and have not returned
  want    \* per task in the line or out: what it takes of each pool

avars == <<line, out, want>>

Nil == [p \in Pools |-> 0]
Limited(p) == Limit[p] # Unbounded

(* The units of p that are out, each with the task it was granted to.      *)
Used(p) == Cardinality(UNION {{t} \X (1 .. want[t][p]) : t \in out})

(* The whole of n fits now, in every pool at once.                         *)
Room(n) ==
  \A p \in Pools : Limited(p) /\ n[p] # 0 => Used(p) + n[p] <= Limit[p]

(* A request on unlimited pools only never waits.                          *)
Free(n) == \A p \in Pools : Limited(p) => n[p] = 0

InLine(t) == \E i \in 1 .. Len(line) : line[i] = t

AInit == line = << >> /\ out = {} /\ want = [t \in Tasks |-> Nil]

Arrive(t, n) ==
  /\ ~InLine(t) /\ t \notin out /\ ~Free(n)
  /\ line' = Append(line, t)
  /\ want' = [want EXCEPT ![t] = n]
  /\ UNCHANGED out

ArriveAndEnter(t, n) ==
  /\ ~InLine(t) /\ t \notin out
  /\ Free(n) \/ (line = << >> /\ Room(n))
  /\ out' = out \cup {t}
  /\ want' = [want EXCEPT ![t] = n]
  /\ UNCHANGED line

Enter ==
  /\ line # << >> /\ Room(want[Head(line)])
  /\ out' = out \cup {Head(line)}
  /\ line' = Tail(line)
  /\ UNCHANGED want

Leave(t) ==
  /\ \E k \in 1 .. Len(line) :
       /\ line[k] = t
       /\ line' = [i \in 1 .. Len(line) - 1 |-> IF i < k THEN line[i] ELSE line[i + 1]]
  /\ want' = [want EXCEPT ![t] = Nil]
  /\ UNCHANGED out

Return(t) ==
  /\ t \in out
  /\ out' = out \ {t}
  /\ want' = [want EXCEPT ![t] = Nil]
  /\ UNCHANGED line

ANext ==
  \/ \E t \in Tasks, n \in Needs : Arrive(t, n) \/ ArriveAndEnter(t, n)
  \/ \E t \in Tasks : Leave(t) \/ Return(t)
  \/ Enter

ASpec == AInit /\ [][ANext]_avars
==============================================================================
