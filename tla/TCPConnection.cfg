CONSTANTS
  MsgUnits = 2
  HighWater = 3
  MaxCalls = 3
  MaxIn = 1
  Contracts <- CleanContracts
SPECIFICATION FairSpec
INVARIANTS
  TypeOK
  AssertsHold
  StreamInOrder
  WritingIffBuffered
  Lifecycle
  CleanDestruction
PROPERTIES
  FinAfterData
  ShutdownSendsFin
  ClosesComplete
