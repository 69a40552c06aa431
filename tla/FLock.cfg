SPECIFICATION Spec
CONSTANTS
  s1 = s1
  s2 = s2
  s3 = s3
  p1 = p1
  i1 = i1
  i2 = i2
  i3 = i3
  None = None
  States = {s1, s2, s3}
  Probers = {p1}
  Inodes = {i1, i2, i3}
  MaxReaders = 2
  StaleRetries = 2
  MayFail = TRUE
SYMMETRY MCSymmetry
INVARIANTS
  MutualExclusion
  HoldersSitOnThePath
  ProbeSeesTheHolder
