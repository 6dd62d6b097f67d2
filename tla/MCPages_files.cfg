SPECIFICATION Spec
CONSTANTS
  r1 = r1
  r2 = r2
  Pages = {"files"}
  Rows = {r1, r2}
  Old = {r1}
  Patience = {TRUE}
  MayFail = TRUE
  MaxOps = 2
  MaxTasks = 2
PROPERTY FailureStays
CHECK_DEADLOCK FALSE
