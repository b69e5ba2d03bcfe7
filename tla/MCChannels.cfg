SPECIFICATION MCSpec
CONSTANTS
  Task = {t1, t2, t3}
  Chan <- AllChan
  Capacity <- AllCapacity
  Op <- AllOp
  MaxCases = 2
  MaxOps = 2
  NoMsg = NoMsg
  NoTask = NoTask
  NoOp = NoOp
INVARIANTS NoneStranded WaitersInPlace StaysRegistered ResumedOnce FrameUnreferenced
PROPERTY ImplementsGoChannel
SYMMETRY TaskSymmetry
CHECK_DEADLOCK FALSE
