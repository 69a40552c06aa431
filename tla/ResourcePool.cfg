SPECIFICATION FairSpec
CONSTANTS
  t1 = t1
  t2 = t2
  t3 = t3
  cpu = cpu
  mem = mem
  tok = tok
  gpu = gpu
  Tasks <- MCTasks
  Pools <- MCPools
  CPU = cpu
  Unbounded = Unbounded
  Capacity <- MCCapacity
  DefaultCpu = 1
  Demands <- MCDemands
  U64Max = 3
INVARIANTS
  TypeOK
  WithinCapacity
  HeldIsWhatIsLive
  NoIdleCapacity
  NeverClosed
PROPERTIES
  StrictFIFO
  ImplementsAdmission
  WaitersAreAdmitted
