SPECIFICATION Spec
CONSTANTS
  rose = rose
  carl = carl
  own = own
  stock = stock
  NoPlan = NoPlan
  Gone = Gone
  Server = Server
  Customers = {carl, dora}
  Resellers = {rose}
  PlanIds = {own, stock}
  Sizes = {0, 1}
  Limits <- SomeLimits
  FirstPlans <- OnePlan
  FirstUsers <- OneCustomer
  FirstLimit <- Tight
  FirstEnforced = FALSE
  Handlers = {h1, h2}
  Jobs = {j1}
  Ops = {"create", "assign", "touch", "new", "update", "delete", "limits", "parent"}
  MaxRequests = 3
  MayFail = TRUE
SYMMETRY AnyActor
INVARIANT PackagesInv
PROPERTY GrantsStayWithin
CHECK_DEADLOCK FALSE
