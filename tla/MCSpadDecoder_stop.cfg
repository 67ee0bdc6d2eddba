SPECIFICATION Spec
CONSTANTS
  Radix = 4
  NDI = 1
  Starts <- MCFromTheFirst
  MaxLen = 7
  DiStates <- MCDiStates
  MaxFlips = 2
  MaxCuts = 1
CHECK_DEADLOCK FALSE
INVARIANT
  StopsOnAnyError
