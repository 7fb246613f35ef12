CONSTANTS
  n1 = n1
  n2 = n2
  n3 = n3
  n4 = n4
  n5 = n5
  Names = {n1, n2, n3, n4, n5}
  NoName = none
  NumBlocks = 5
  Hidden = 0
  PerBlock = 2
  DirLen = 2
  MaxInodes = 1
SPECIFICATION HealthySpec
SYMMETRY MCSymmetry
CHECK_DEADLOCK FALSE
INVARIANTS DirectoryCompact NoLeak
