SPECIFICATION FairSpec
CHECK_DEADLOCK FALSE
INVARIANTS
  TypeOK
  TriggerAfterArm
  PlayerKilled
PROPERTY
  TriggerOpens
