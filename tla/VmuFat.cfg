CONSTANTS
  n1 = n1
  n2 = n2
  n3 = n3
  Names = {n1, n2, n3}
  NoName = none
  NumBlocks = 3
  Hidden = 1
  PerBlock = 2
  DirLen = 2
  MaxInodes = 2
SPECIFICATION HealthySpec
SYMMETRY MCSymmetry
CHECK_DEADLOCK FALSE
INVARIANTS WalksEnd ChainsDisjoint SizeIsLength InCoreExact
