CONSTANTS
  Requests <- MCRequests
  Candidates <- MCCandidates
  WorkerOf <- MCWorkerOf
  PlacesOf <- MCPlacesOf
  Limit <- MCLimit
  Suits <- MCSuits
  OwnerOf <- MCOwnerOf
  AllowFallback <- MCFallback
  Pin <- MCPin
  None = None
  r1 = r1
  r2 = r2
  r3 = r3
  owner = owner
  second = second
  SameWorkerRetries = 1
  AlternateRetries = 2
  MaxChanges = 1
SPECIFICATION FairSpec
CHECK_DEADLOCK FALSE
INVARIANTS DispatcherTypeOK AccountingExact CapacityRespected OwnersServe
PROPERTIES LockFreezesCounters EveryRequestAnswered
