CONSTANTS
  MaxFds = 3
  MaxPeers = 4
  MaxThreads = 2
SPECIFICATION FairSpec
INVARIANTS
  TypeOK
  HeldOnce
  FdsAccounted
PROPERTIES
  EveryoneServed
CHECK_DEADLOCK FALSE
