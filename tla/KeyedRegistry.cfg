SPECIFICATION KeyedSpec
CONSTANTS
  u1 = u1
  u2 = u2
  u3 = u3
  c1 = c1
  c2 = c2
  c3 = c3
  c4 = c4
  c5 = c5
  NoCell = NoCell
  Users = {u1, u2, u3}
  Cells = {c1, c2, c3, c4, c5}
SYMMETRY MCSymmetry
INVARIANTS
  KeyExclusion
  CleansUpAfterItself
