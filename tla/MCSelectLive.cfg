SPECIFICATION FairSpec
CONSTANTS
  Task = {t1, t2, t3}
  Chan <- MCChan
  Capacity <- MCCapacity
  Op <- LiveOp
  MaxCases = 2
  MaxOps = 1
  NoMsg = NoMsg
  NoTask = NoTask
  NoOp = NoOp
PROPERTY OperationsReturn
CHECK_DEADLOCK FALSE
