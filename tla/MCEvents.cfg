SPECIFICATION FairSpec
CONSTANTS
  w1 = w1
  w2 = w2
  mine = mine
  yours = yours
  x = x
  y = y
  Windows <- MCWindows
  Ids <- MCIds
  Targets <- MCTargets
  Wanted <- MCWanted
  QueueMax = 2
  Replay = 1
  MaxEvents = 3
INVARIANTS TypeOK EveryEventOffered OrderedAndInScope
PROPERTIES GapsAreMarked CatchesUp
CHECK_DEADLOCK FALSE
