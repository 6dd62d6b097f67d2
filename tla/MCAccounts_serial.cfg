SPECIFICATION Spec
CONSTANTS
  root = root
  ann = ann
  bob = bob
  cat = cat
  NoUser = NoUser
  Names = {root, ann, bob, cat}
  MaxId = 4
  Handlers = {h1}
  Ops = {"create", "adopt", "delete", "suspend", "resume", "role", "parent", "access", "site"}
  FirstUsers <- ResellerPanel
  FirstLogins <- Customers
  MaxRequests = 3
  AgentMayFail = TRUE
  MayCancel = TRUE
INVARIANT AccountsInv
PROPERTY RefusedDeleteKeepsLogin
PROPERTY AssignedUnderResellers
CHECK_DEADLOCK FALSE
