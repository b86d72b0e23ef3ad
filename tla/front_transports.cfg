SPECIFICATION Spec
CONSTANTS
  k1 = k1
  k2 = k2
  th1 = th1
  None = None
  MaxCalls = 3
  Mixes <- SomeMixes
  Clients = {k1, k2}
  Threads = {th1}
  Limit = 1
  Window = 2
  MaxKeys = 1
  TaskTTL = 1
  MaxTasks = 1
  MaxTime = 2
  MaxCrashes = 1
INVARIANTS RefusalIsFree TaskIsKept
PROPERTIES LimiterCounts LoopNeverWaits
CHECK_DEADLOCK FALSE
