SPECIFICATION GateFairSpec
CONSTANTS
  a = a
  b = b
  c = c
  None = None
  Runs = {a, b, c}
  Material = {c}
INVARIANTS
  LiveTree
PROPERTIES
  KeptForDiagnostics
  Collected
