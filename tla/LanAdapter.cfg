CONSTANTS
  Rom <- MCRom
  FrameMax = 1
  PortMax = 11
SPECIFICATION Spec
INVARIANTS FramesInStep ReadyToServe KernelKnows
