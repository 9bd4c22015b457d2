SPECIFICATION Spec
CONSTANTS
  Requests = {1, 2, 3, 4, 5}
  Call <- MCCall
  Targets = {"h1", "h2"}
  Raw = {"ann", "other"}
  Clean <- MCClean
  Bounds <- MCBounds
  MaxSeries = 1
  MaxEmitted = 4
INVARIANTS FoldingIsExact FoldsAreReported FamiliesAgree
CHECK_DEADLOCK FALSE
