SPECIFICATION Spec
CONSTANTS
  p1 = p1
  p2 = p2
  f1 = f1
  h1 = h1
  g1 = g1
  c1 = c1
  r1 = r1
  r2 = r2
  r3 = r3
  None = None
  Tasks = {p1, f1, p2}
  Revs = {r1, r2, r3}
  NRuns = 3
  MaxRuns = 3
  Contents <- MCContents
  Kind <- MCKindOf
  Want <- MCThreeRevs
  Reproducible = {r2, r3}
  Remote = {r1}
  Fix <- MCFix
  History = 2
  MayStop = {f1, p2}
INVARIANTS
  StagedIsNamed
  NeverBuiltTwice
  OneRunAtATime
PROPERTIES
  TrimKeepsNewest
