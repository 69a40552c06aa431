SPECIFICATION FairSpec
CONSTANTS
  c1 = c1
  c2 = c2
  Callers = {c1, c2}
  MaxGen = 3
  Settings <- MCSettings
INVARIANTS
  TypeOK
  OneBodyUnlessOverwritten
  WaitersKeepTheirTask
  EndsWithOutcome
PROPERTIES
  EvictsOnlyAbandoned
  EveryWaitEnds
CHECK_DEADLOCK FALSE
