SPECIFICATION FairSpec
CONSTANTS
  Bytes = 23
  BufLen = 2
  Uploads = TRUE
  SiteLists <- MCSiteLists
CHECK_DEADLOCK FALSE
INVARIANTS
  TypeOK
  UploadsOwnShot
  UploadsAll
  OneClientPerSite
PROPERTY
  SeenShotEnds
