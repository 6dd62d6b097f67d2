SPECIFICATION Spec
CONSTANTS
  r1 = r1
  r2 = r2
  Pages <- AllPages
  Rows = {r1, r2}
  Old = {r1}
  Patience = {TRUE, FALSE}
  MayFail = TRUE
  MaxOps = 2
  MaxTasks = 2
INVARIANT PagesInv
INVARIANT FailureIsTold
INVARIANT QuietListIsCurrent
PROPERTY TextIsKept
PROPERTY FlagsEnd
CHECK_DEADLOCK FALSE
