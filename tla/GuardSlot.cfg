SPECIFICATION SlotSpec
CONSTANTS
  a = a
  b = b
  c = c
  NoCaller = NoCaller
  Cell = Cell
  Handoff = Handoff
  Callers = {a, b, c}
  Versions = {1, 2}
  MaxGuards = 5
  MaxWrites = 3
SYMMETRY MCSymmetry
INVARIANTS
  StagedIsResolved
  Unpinned
CHECK_DEADLOCK FALSE
