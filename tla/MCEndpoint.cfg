CONSTANTS
  Primary = Primary
  Backup = Backup
  None = None
  LEASE_TTL = 2
  MAX_OBSERVER_AGE = 1
  MaxTime = 3
  MaxEpoch = 3
  ProbeTime = 1
SPECIFICATION EndpointFairSpec
CHECK_DEADLOCK FALSE
INVARIANTS EndpointTypeOK HeldAlone
PROPERTIES WitnessKeepsTenures AddressFollowsLease
