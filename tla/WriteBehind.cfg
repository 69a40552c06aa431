SPECIFICATION FairSpec
CONSTANTS
  c1 = c1
  c2 = c2
  k1 = k1
  k2 = k2
  Clients = {c1, c2}
  Keys = {k1, k2}
  Calls <- MCCalls
  BatchMax = 2
  MaxQueueWaits = 2
  MayPanic = TRUE
INVARIANTS
  SeesWhatWasQueued
PROPERTIES
  WaitsEndUnlessOrphaned
