SPECIFICATION Spec
CONSTANTS
  Retention = 1
  QuietPeriod = 1
  MaxStaleness = 2
  DamageKinds = {"garbage"}
  MaxChanges = 2
  MaxSaves = 3
  MaxIOErrors = 1
  MaxOutages = 1
  MaxDamage = 1
CHECK_DEADLOCK FALSE
INVARIANT CleanShutdown
