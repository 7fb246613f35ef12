CONSTANTS
  Blocks <- MCOneBlock
  Active <- MCLcdOnly
  OutOfMemory <- MCLcdOnly
SPECIFICATION FairSpec
PROPERTIES BusyEnds OperationsEnd
