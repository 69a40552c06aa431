SPECIFICATION Spec
CONSTANTS
  c1 = c1
  c2 = c2
  Callers = {c1, c2}
  MaxGen = 4
  Settings <- MCSteady
SYMMETRY MCSymmetry
INVARIANT
  NoTwoBodies
CHECK_DEADLOCK FALSE
