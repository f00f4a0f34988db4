SPECIFICATION PortsFairSpec
CONSTANTS
  Null = Null
  s1 = s1
  q1 = q1
  SPUs = {s1, s2}
  Queues = {q1, q2}
  LastPort = 1
  Size = 1
  Reuses = FALSE
  PortCalls = 4
  PortEvents = 1
INVARIANTS AssertionsHold RightQueue
PROPERTY CallsReturn
CHECK_DEADLOCK FALSE
