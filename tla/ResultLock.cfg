SPECIFICATION FairSpec
CONSTANTS
  t1 = t1
  t2 = t2
  t3 = t3
  r1 = r1
  r2 = r2
  None = None
  Tasks <- MCTasks
  Revs = {r1, r2}
  Ops <- MCOps
  Changes = 1
INVARIANTS
  StableWhileHeld
PROPERTIES
  Refines
  EveryWaitEnds
CHECK_DEADLOCK FALSE
