SPECIFICATION Spec
CONSTANTS
  Task = {t1, t2, t3}
  NoTask = NoTask
  Programs <- MCOutput
  Bits = 3
  GroupMod = 8
  Thread = {w1, w2}
  NoJob = NoJob
  MaxQueue = 2
  FileLimit = 1
  RingSize = 4
  IndexMod = 16
  InboxSize = 2
  Scripts <- LongScripts
  PipeSize = 1
  MaxOutput = 2
  Block = {1, 2, 3, 4, 5, 6, 7}
  Address = {p1, p2}
  Requests = {0, 3, 5}
  MinBytes = 2
  Classes = 2
  ExactFrom = 4
  CacheDepth = 1
  Batch = 2
  CachePerClass = 3
  CentralBatches = 1
  FrameBytes = 1
  Hosts <- MCHosts
  Servers = 2
  Attempts = 1
  Stale = 1
  Grace = 1
  Port = {u1, u2}
PROPERTY OutputReturns
CHECK_DEADLOCK FALSE
