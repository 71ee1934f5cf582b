CONSTANTS
  Primary = Primary
  Backup = Backup
  None = None
  LEASE_TTL = 2
  MAX_OBSERVER_AGE = 9
  MaxTime = 4
  MaxEpoch = 3
  ControlMargin = 1
  WatchdogPeriod = 1
  WatchdogBoot = 2
  MaxFaults = 1
SPECIFICATION FairSpec
CHECK_DEADLOCK FALSE
INVARIANTS BackupTypeOK MarkerMeansActive RuntimeNeedsMarker
PROPERTIES RollbackBound LeaseLossRollsBack HalfActivationRollsBack
