CONSTANTS
  Addrs = {a1, a2}
  Callers = {t1}
  Delays = {0, 2}
  Intervals = {0, 1}
  MaxTimers = 2
  MaxTime = 3
  MaxCancels = 1
  MaxJumps = 1
  CallsArePrompt = TRUE
SPECIFICATION FairSpec
INVARIANTS
  TypeOK
  HeapOwned
  TimersAccounted
  TimerfdArmed
PROPERTIES
  CancelledStaysCancelled
  OnceAndNotEarly
  DueTimersRun
CHECK_DEADLOCK FALSE
