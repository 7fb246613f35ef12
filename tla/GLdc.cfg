CONSTANTS
  Modes <- MCModes
  Textures <- MCTextures
  Probes <- MCProbes
  MaxHeaders = 2
  DrawWith = 0
  SubmitMax = 26
  VertBuf = 80
  Fallback = 8
  Vectors <- MCVectors
SPECIFICATION FairSpec
INVARIANTS PartsDrawn TexturesIntact RenderReadsScene
PROPERTY FinishReturns
