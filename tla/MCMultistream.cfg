SPECIFICATION FairSpec
CONSTANTS
  u1 = u1
  u2 = u2
  Fleets <- MCFleets
  BufLen = 2
  Limits = {0, 20, 22}
  Layouts <- MCLayouts
  OldFw = FALSE
  Pack24 = 1
  MaxReads = 6
  MaxShort = 1
  Shorts = {0, 3}
CHECK_DEADLOCK FALSE
INVARIANTS
  TypeOK
  FileIsStream
  IdsAsDecoded
  AtMostMaxBytes
  StopsForAReason
PROPERTY
  Ends
