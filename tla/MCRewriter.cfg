SPECIFICATION RewriterSpec
CONSTANTS
  First = 1
  Registers = {"x", "y"}
  Segments <- MCSegments
INVARIANTS KeepsTheGreatest EntersAtStarts
CHECK_DEADLOCK FALSE
