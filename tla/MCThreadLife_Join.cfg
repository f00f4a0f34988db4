SPECIFICATION MCSpec
CONSTANTS
  o1 = o1
  o2 = o2
  o3 = o3
  Objects = {o1, o2, o3}
  Primary = o1
  None = None
  LifeCalls <- MCLifeCalls
PROPERTY JoinGivesExitCode
CHECK_DEADLOCK FALSE
