CONSTANTS
  Primary = Primary
  Backup = Backup
  None = None
  LEASE_TTL = 3
  MAX_OBSERVER_AGE = 6
  MaxTime = 5
  MaxEpoch = 3
  ReleaseMargin = 1
  EnforcePeriod = 1
  BootDelay = 2
  MaxFaults = 1
SPECIFICATION FairSpec
CHECK_DEADLOCK FALSE
INVARIANTS PrimaryTypeOK CacheIsWitnessed FencedHostIsQuiet
PROPERTIES SelfFenceBound DisplacedPrimaryFences LeaseLossFences FencedHostStops
