SPECIFICATION MCSpec
CONSTANTS
  Worker = {1}
  Never = 99
  Task = {1, 2}
  Timer = {1, 2, 3, 4, 5, 6}
  Scenarios <- MCScenarios
  FanOut = 2
  Batch = 1
  Handle <- MCHandle
  NewPeriod = {2}
  LastInstant = 3
  MaxCalls = 2
INVARIANTS HeapSound CallbackOwnsNode NoOversleep Paced
PROPERTIES TimerFires ChannelEnds
CHECK_DEADLOCK FALSE
