SPECIFICATION MCSpec
CONSTANTS
  t1 = t1
  t2 = t2
  t3 = t3
  Null = Null
  Threads = {t1, t2}
  TimedLocks = {}
  TimedWaits = {t1, t2}
  MaxDepth = 1
  Calls <- TwoCalls
  Spuriously = 1
  OwnedWaits = TRUE
PROPERTY SignalledNotTimedOut
CHECK_DEADLOCK FALSE
