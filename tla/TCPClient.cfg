CONSTANTS
  InitDelay = 1
  MaxDelay = 3
  MaxCalls = 2
SPECIFICATION FairSpec
INVARIANTS
  TypeOK
  AssertsHold
  OneAtATime
PROPERTIES
  StopStays
  KeepsTrying
CHECK_DEADLOCK FALSE
