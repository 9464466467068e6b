CONSTANTS
  Addrs = {a1}
  Callers = {t1}
  Delays = {0}
  Intervals = {0}
  MaxTimers = 2
  MaxTime = 2
  MaxCancels = 0
  MaxJumps = 0
  CallsArePrompt = FALSE
SPECIFICATION Spec
INVARIANTS
  SequenceReadable
CHECK_DEADLOCK FALSE
