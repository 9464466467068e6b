CONSTANTS
  Callers = {owner, t1}
  Tasks = {f1, f2}
  Owner = owner
SPECIFICATION FairSpec
INVARIANTS
  TypeOK
  DestructorFindsLoop
PROPERTIES
  WaitsEnd
CHECK_DEADLOCK FALSE
