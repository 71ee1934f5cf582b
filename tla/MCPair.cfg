CONSTANTS
  Primary = Primary
  Backup = Backup
  None = None
  LEASE_TTL = 1
  MAX_OBSERVER_AGE = 9
  MaxTime = 3
  MaxEpoch = 3
  ReleaseMargin = 0
  EnforcePeriod = 1
  BootDelay = 1
  MaxFaults = 0
  ControlMargin = 0
  WatchdogPeriod = 1
  WatchdogBoot = 1
SPECIFICATION MCPairSpec
CHECK_DEADLOCK FALSE
INVARIANTS TokensDistinct
PROPERTIES OverlapBound
