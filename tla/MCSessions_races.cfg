SPECIFICATION Spec
CONSTANTS
  ann = ann
  bob = bob
  cat = cat
  old = old
  NoSession = NoSession
  Users = {ann, bob, cat}
  Staff = {ann, cat}
  Manages <- AnnsCustomer
  Passwords = {old, new}
  Codes = {c1}
  ChallengeIds = {k1}
  FirstUsers <- Protected
  FirstKeys <- BobsKey
  FirstSignedIn = ann
  Handlers = {h1, h2}
  Ops = {"login", "use", "logout", "stop", "password", "setup", "enable", "disable", "register", "finish", "unkey", "reset", "suspend", "restore", "impersonate"}
  MaxSessions = 4
  MaxRequests = 3
  MayCancel = TRUE
SYMMETRY AnyHandler
INVARIANT SessionsInv
INVARIANT OperatorComesBack
INVARIANT RevocationIsComplete
CHECK_DEADLOCK FALSE
