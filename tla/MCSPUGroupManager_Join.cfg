SPECIFICATION MCFairSpec
CONSTANTS
  ga = ga
  gb = gb
  a1 = a1
  a2 = a2
  b1 = b1
  raw1 = raw1
  Null = Null
  Garbage = Garbage
  Groups = {ga, gb}
  Members <- MCMembers
  RawThreads = {}
  Rank <- MCRank
  NSpus = 2
  MayFault = {a1}
  Starts <- MCStarts
  Suspends = 1
INVARIANTS AssertionsHold JoinAgrees
PROPERTY JoinReturns
CHECK_DEADLOCK FALSE
