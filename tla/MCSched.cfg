CONSTANTS
  w1 = w1
  w2 = w2
  x = x
  Worker = {w1, w2}
  Outside = {x}
  Frame = {"a", "b", "c", "d", "e", "f"}
  Never = 99
  LocalCap = 4
  InboxCap = 1
  DrainBatch = 2
  ServiceEvery = 2
  GlobalEvery = 3
  SizeMod = 8
  Plan <- Programs
SPECIFICATION Spec
INVARIANTS OnePlace NoLostWake
PROPERTIES Runs StopEnds
CHECK_DEADLOCK FALSE
