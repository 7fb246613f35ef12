CONSTANTS
  Blocks <- MCOneBlock
  Active <- MCLcdOnly
  OutOfMemory <- MCNoDriver
SPECIFICATION Spec
PROPERTY QueuedOwnsBusy
