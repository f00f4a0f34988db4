SPECIFICATION MCFairSpec
CONSTANTS
  spu = spu
  ppu = ppu
  rsx = rsx
  Null = Null
  Threads = {spu, ppu}
  Spus = {spu}
  Hosts = {rsx}
  NLines = 2
  NWords = 1
  LinesPerPage = 2
  Values <- MCValues
  Zero = 0
  Does <- BlocksDoes
  Gives <- BlocksGives
  Calls <- BlocksCalls
PROPERTIES ImplementsLLSC CallsReturn
CHECK_DEADLOCK FALSE
