SPECIFICATION MCSpec
CONSTANTS
  first = first
  older = older
  newer = newer
  altphp = altphp
  Stopped = Stopped
  Nothing = Nothing
  Estates = {first, moved, faulty}
  Versions = {older, newer}
  Providers = {remi, altphp}
  Backends = {httpd, lshttpd}
  Broken = {faulty}
  Needs <- TwoVersions
  Offers <- NewerOnly
  Handled = {newer}
  LiteSpeed = lshttpd
  FirstEstate = first
  FirstPHP = remi
  FirstBackend = httpd
  Handlers = {h1}
  Ops = {"apply", "switch", "migrate"}
  MaxRequests = 2
  MaxFaults = 2
  MaxCrashes = 1
  None = None
  Rules = {port, zoned}
  Addresses = {a1, a2}
  Sources = {s1, s2}
  Refused = {zoned}
  Locking = {}
  KeepsAlive = TRUE
  MaxBlocked = 1
  FirstFile = {}
  Callers = {h1}
  Offered = {"add", "delete", "subscribe", "refresh", "unsubscribe", "confirm"}
  MaxCalls = 3
  MaxFailures = 2
  MaxBoots = 1
  MayCancel = TRUE
INVARIANT WebserverInv
INVARIANT ServedPoolsListen
INVARIANT FirewallInv
INVARIANT KernelIsProjection
PROPERTY ApplyIsAtomic
PROPERTY ProvisionalEnds
CHECK_DEADLOCK FALSE
