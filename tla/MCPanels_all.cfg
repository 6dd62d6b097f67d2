SPECIFICATION MCSpec
CONSTANTS
  ann = ann
  bob = bob
  top = top
  sub = sub
  x = x
  y = y
  index = index
  indexphp = indexphp
  Accounts = {ann, bob}
  Folders = {top, sub}
  Names = {x, y}
  Top = top
  Disk <- SomeFiles
  Prefixes <- NameOfOne
  Nobody = Nobody
  Patience = {TRUE}
  MayFail = TRUE
  MaxOps = 2
  MaxOut = 3
  JobIds = {j1}
  Paths = {index, indexphp}
  MaxKeys = 2
  MaxCalls = 4
  Default = Default
  FormPatience = {TRUE, FALSE}
  MaxFormOps = 2
  MaxFormCalls = 2
INVARIANT PanelsInv
INVARIANT QuietListingIsCurrent
INVARIANT UnsavedIsMarked
INVARIANT QuietFormIsOfSubject
PROPERTY DeletesWhatIsShownIfListed
PROPERTY LossIsAsked
PROPERTY UntouchedSaveChangesNothing
PROPERTY JobsAreFollowed
CHECK_DEADLOCK FALSE
