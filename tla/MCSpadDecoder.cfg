SPECIFICATION Spec
CONSTANTS
  Radix = 4
  NDI = 1
  Starts <- MCStarts
  MaxLen = 9
  DiStates <- MCDiStates
  MaxFlips = 2
  MaxCuts = 1
CHECK_DEADLOCK FALSE
INVARIANTS
  TypeOK
  RowsNumbered
  AllRows
  StopsOnError
  SoundIsAccepted
  DiTransitions
