SPECIFICATION FairSpec
CONSTANTS
  d1 = d1
  o1 = o1
  NoRow = NoRow
  Hosts = {d1, d2}
  Owners = {o1, o2}
  MaxId = 4
  Handlers = {h1}
  Ops = {"create", "delete", "purge", "realias", "suspend", "resume", "issue", "attach", "disable", "chown"}
  SiteLimit = 1
  FirstTable <- OnePlain
  MaxRequests = 4
  Failing = {"create", "realias", "suspend", "resume", "move"}
  MayCancel = FALSE
  GiveUpOn = {}
INVARIANT TypeOK
INVARIANT NoDrift
INVARIANT FilesSurvive
PROPERTY SuspensionHolds
PROPERTY FilesLeaveLast
PROPERTY RequestsEnd
CHECK_DEADLOCK FALSE
