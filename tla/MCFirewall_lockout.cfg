SPECIFICATION Spec
CONSTANTS
  port = port
  zoned = zoned
  a1 = a1
  a2 = a2
  None = None
  Rules = {port, zoned}
  Addresses = {a1, a2}
  Sources = {s1}
  Refused = {zoned}
  Locking = {port}
  KeepsAlive = FALSE
  MaxBlocked = 1
  FirstFile <- Installed
  Handlers = {h1}
  Ops = {"add", "subscribe", "refresh"}
  MaxRequests = 4
  MaxFaults = 0
  MaxBoots = 0
  MayCancel = FALSE
INVARIANT NobodyLockedOut
CHECK_DEADLOCK FALSE
