SPECIFICATION MCSpec
CONSTANTS
  spu = spu
  ppu = ppu
  rsx = rsx
  Null = Null
  Threads = {spu, ppu}
  Spus = {spu}
  Hosts = {rsx}
  NLines = 1
  NWords = 2
  LinesPerPage = 2
  Values <- MCValues
  Zero = 0
  Does <- ReserveDoes
  Gives <- ReserveGives
  Calls <- ReserveCalls
INVARIANTS ReservationMeansUnchanged NoMissedLostEvent ReservationLinked SlotsBounded
PROPERTY ImplementsLLSC
CHECK_DEADLOCK FALSE
