CONSTANTS
  Primary = Primary
  Backup = Backup
  None = None
  LEASE_TTL = 3
  MAX_OBSERVER_AGE = 2
  MaxTime = 8
  MaxEpoch = 5
SPECIFICATION WitnessSpec
CHECK_DEADLOCK FALSE
PROPERTY GrantNeedsEvidence
