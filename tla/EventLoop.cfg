CONSTANTS
  Callers = {t1, t2}
  Tasks = {f1, f2, f3}
SPECIFICATION FairSpec
INVARIANTS
  TypeOK
  NoLostWakeup
PROPERTIES
  EveryTaskRuns
  QuitStops
  ExecutesInOrder
