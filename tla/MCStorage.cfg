CONSTANTS
  Transactions = {t1, t2}
  Runs = {r1, r2}
  NUnits = 2
  NObjects = 2
  QueriesFail = TRUE
  None = None
SPECIFICATION Spec
INVARIANTS StorageTypeOK LeftoversAreOwned CopiesOfSuccess
PROPERTIES StorageIsSingleUse
