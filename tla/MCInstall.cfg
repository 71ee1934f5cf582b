CONSTANTS
  Transactions = {t1, t2}
  Runs = {r1, r2}
  NFiles = 3
  Preexisting <- MCPreexisting
  Old = Old
  Absent = Absent
  None = None
  Faults = {"before", "after", "escape", "kill"}
SPECIFICATION Spec
INVARIANTS InstallTypeOK RolledBackLeavesNothing LastReceiptIsTrue
PROPERTIES InstallIsSingleUse
CHECK_DEADLOCK FALSE
