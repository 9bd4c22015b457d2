SPECIFICATION Spec
CONSTANTS
  ann = ann
  box = box
  tAnn = tAnn
  tBox = tBox
  tOld = tOld
  near = near
  far = far
  lab = lab
  typo = typo
  Names = {ann, box}
  Tokens = {tAnn, tBox, tOld}
  Addresses = {near, far}
  Patterns = {lab, typo}
  Covers <- MCCovers
  Settings <- MCSettings
  Never = 9
  TTL = 1
  OwnTickets = 2
  AllTickets = 3
  Capacity = 2
  ScanCost = 2
  MaxBuckets = 1
  MaxTargets = 2
  MaxReports = 1
  MaxClock = 2
  MaxRequests = 4
INVARIANTS TypeOK ViewIsScoped RateBound WindowsAreBacked
PROPERTIES OwnFloodOnly ReportSurvives
CHECK_DEADLOCK FALSE
