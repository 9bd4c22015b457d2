SPECIFICATION FairSpec
CONSTANTS
  Retention = 1
  QuietPeriod = 1
  MaxStaleness = 1
  DamageKinds = {"half"}
  MaxChanges = 2
  MaxSaves = 3
  MaxIOErrors = 1
  MaxOutages = 1
  MaxDamage = 1
CHECK_DEADLOCK FALSE
INVARIANT TypeOK
INVARIANT NothingLost
INVARIANT OneWriter
INVARIANT RetentionOvershoot
PROPERTY EventuallySaved
PROPERTY CloseFinishes
PROPERTY DurablePromise
