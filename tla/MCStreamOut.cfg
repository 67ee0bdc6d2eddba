SPECIFICATION FairSpec
CONSTANTS
  Files <- MCFiles
  ElemSize = 2
  BufLen = 2
  Reps = {0, 1}
  Window = 3
  MaxPasses = 2
  SigpipeIgnored = TRUE
CHECK_DEADLOCK FALSE
INVARIANTS
  TypeOK
  InOrder
  ChunkTaken
  LoaderWaits
  NoFalseFailure
  AllPlayed
PROPERTIES
  ImplementsPipe
  Ends
