CONSTANTS
  MsgUnits = 1
  HighWater = 2
  MaxCalls = 2
  MaxIn = 1
  Contracts <- StopThenClose
SPECIFICATION Spec
INVARIANTS
  AssertsHold
