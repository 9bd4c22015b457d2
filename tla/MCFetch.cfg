SPECIFICATION FairSpec
CONSTANTS
  Requests <- MCRequests
  PageSize = 2
  MaxWindow = 1
  MaxClock = 3
  MaxRecords = 3
  MaxTears = 1
INVARIANTS TypeOK CompletePullIsCurrent DeltasSupersede
PROPERTY EveryRunEnds
