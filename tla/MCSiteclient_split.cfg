SPECIFICATION FairSpec
CONSTANTS
  PromptLen = 2
  ChunkMax = 3
  InitFill = 3
  CtorRx = 2
  MaxRx = 2
  MaxText = 3
  MaxCmd = 2
CHECK_DEADLOCK FALSE
PROPERTY
  SrAlwaysReturns
