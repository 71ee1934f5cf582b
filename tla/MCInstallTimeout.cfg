CONSTANTS
  Transactions = {t1, t2}
  Runs = {r1, r2}
  NFiles = 3
  Preexisting <- MCPreexisting
  Old = Old
  Absent = Absent
  None = None
  Faults = {"escape"}
SPECIFICATION Spec
INVARIANT FailureIsSettled
CHECK_DEADLOCK FALSE
