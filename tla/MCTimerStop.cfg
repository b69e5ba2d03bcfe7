SPECIFICATION MCSpec
CONSTANTS
  Worker = {1}
  Never = 99
  Task = {1, 2}
  Timer = {1, 2, 3, 4, 5, 6}
  Scenarios <- AtRest
  FanOut = 2
  Batch = 1
  Handle <- MCHandle
  NewPeriod = {2}
  LastInstant = 3
  MaxCalls = 2
INVARIANT StopIsHonest
CHECK_DEADLOCK FALSE
