CONSTANTS
  Users <- MCUsers
  Animators <- MCAnimators
  Flips <- MCFlips
  Plugs = 2
  MaxDevs = 2
  FRAME_RETRY_MAX = 1
SPECIFICATION FairSpec
INVARIANTS LcdAlive
PROPERTIES FrameShown RemovalEnds
CHECK_DEADLOCK FALSE
