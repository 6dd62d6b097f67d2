SPECIFICATION Spec
CONSTANTS
  d1 = d1
  o1 = o1
  NoRow = NoRow
  Hosts = {d1, d2}
  Owners = {o1, o2}
  MaxId = 3
  Handlers = {h1, h2}
  Ops = {"create", "delete", "purge", "realias", "suspend", "resume", "issue", "attach", "disable", "chown"}
  SiteLimit = 2
  FirstTable <- OnePlain
  MaxRequests = 2
  Failing = {"create", "delete", "purge", "realias", "suspend", "resume", "issue", "attach", "disable", "chown", "move"}
  MayCancel = TRUE
  GiveUpOn = {"apply", "move"}
INVARIANT CreateUnwinds
PROPERTY CreateAnswersServed
CHECK_DEADLOCK FALSE
