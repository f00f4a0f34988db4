SPECIFICATION Lv2FairSpec
CONSTANTS
  t1 = t1
  t2 = t2
  t3 = t3
  Null = Null
  Threads = {t1, t2, t3}
  TimedLocks = {t3}
  TimedWaits = {t3}
  MaxDepth = 2
  Calls <- MCCalls
  Spuriously = 1
  OwnedWaits = TRUE
  Users = {t1, t2, t3}
  Nobody = Nobody
  Items = {x, y}
  Size = 1
  Priority <- MCPriority
  Batches = {1, 2}
  QueueCalls <- MCQueueCalls
  Callers = {t1, t2, t3}
  Bits = {"a", "b"}
  MaxVal = 2
  MaxPost = 2
  ObjectCalls <- MCObjectCalls
  o1 = o1
  o2 = o2
  o3 = o3
  Objects = {o1, o2, o3}
  Primary = o1
  None = None
  LifeCalls <- MCLifeCalls
INVARIANTS
  NoLostWakeup ListsAreTheWaiters NoLostSignal
  NoneSleepsInVain OnePerSignal JoinReachesItsThread ObjectsOutliveTheirThreads
PROPERTIES ServedInOrder Implements ReturnsWithMutex SignalledLeaves ProcessEnds
CHECK_DEADLOCK FALSE
