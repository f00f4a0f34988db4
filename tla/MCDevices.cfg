SPECIFICATION DevicesSpec
CONSTANTS
  main = main
  other = other
  Values = {0, 1, 2}
  Labels = {1, 2, 3}
  OwnLabels = {3}
  Ring = 2
  QueueSize = 1
  Places <- MCPlaces
  Guests = {main, other}
  Programs <- MCPrograms
  st1 = st1
  cp1 = cp1
  Pages <- MCPages
  Textures = {"a", "b"}
  Span <- MCSpan
  Stores = {st1}
  Copies = {cp1}
  MaxSize = 2
  Megabyte = 1
  p1 = p1
  PPUs = {p1}
  Spu = Spu
  Handler = Handler
  Events = {"lost", "other"}
  SpuCalls <- MCSpuCalls
  PpuCalls <- MCPpuCalls
  Privileges = 3
  Notices = 2
  Suspensions = 1
INVARIANTS
  HandlerFindsItsWord BlocksOnlyOnPPU OnlyOldEventsAreSilent
  DrawsSeeTheirData DrawsSeeTheirVertices NothingLeftBehind
PROPERTIES OnlyKnownGaps Served AccessReturns InterruptsServed
CHECK_DEADLOCK FALSE
