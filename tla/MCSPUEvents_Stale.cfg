SPECIFICATION PortsSpec
CONSTANTS
  Null = Null
  s1 = s1
  q1 = q1
  SPUs = {s1}
  Queues = {q1, q2}
  LastPort = 0
  Size = 1
  Reuses = TRUE
  PortCalls = 4
  PortEvents = 1
INVARIANTS AssertionsHold
CHECK_DEADLOCK FALSE
