SPECIFICATION Spec
CONSTANTS
  op = op
  ann = ann
  bob = bob
  t1 = t1
  Tabs = {t1}
  Operator = op
  Customers = {ann, bob}
  None = None
  Factors = {"totp", "both"}
  Supported = TRUE
  MayFail = TRUE
  MayExpire = TRUE
  MaxOps = 3
  MaxRails = 1
INVARIANT ShellInv
INVARIANT KnowsWhoItIs
INVARIANT RailIsOfMe
PROPERTY LoginEnds
CHECK_DEADLOCK FALSE
