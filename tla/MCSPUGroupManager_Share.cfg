SPECIFICATION MCSpec
CONSTANTS
  ga = ga
  gb = gb
  a1 = a1
  a2 = a2
  b1 = b1
  raw1 = raw1
  Null = Null
  Garbage = Garbage
  Groups = {ga, gb}
  Members <- MCMembers
  RawThreads = {raw1}
  Rank <- MCRank
  NSpus = 2
  MayFault = {a1}
  Starts <- OneStart
  Suspends = 1
INVARIANTS OneList SpusShared FlagsFollowLists
CHECK_DEADLOCK FALSE
