CONSTANTS
  Plans <- MCPlans
  Unverified <- MCUnverified
  x1 = x1
  x2 = x2
  Procs = {p1, p2}
  Torn = Torn
SPECIFICATION Spec
INVARIANTS QueueTypeOK OutcomesAreEarned ReplayBlocked
CHECK_DEADLOCK FALSE
