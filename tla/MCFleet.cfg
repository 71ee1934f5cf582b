CONSTANTS
  Workers <- MCWorkers
  Listed <- MCListed
  w1 = w1
  w2 = w2
  AllowHighRisk = TRUE
  MaxClock = 1
  MaxCalls = 3
  None = None
SPECIFICATION FairSpec
INVARIANTS FleetTypeOK HoldStands
PROPERTIES StatusFollows TimedHoldsEnd
