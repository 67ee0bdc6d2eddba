SPECIFICATION FairSpec
CONSTANTS
  Segs = {A, B}
  SegA = A
  INITFILL = 2
  Window = 2
  MaxArgs = 3
  MaxIter = 4
  MaxSig = 2
CHECK_DEADLOCK FALSE
INVARIANTS
  TypeOK
  SelectedInOrder
  NeverPollsClosed
  EnabledLast
  FailsSafe
PROPERTY
  QuitEnds
