\* Two items to maintain, two clients and two more containers to replace them; a channel
\* of one request, so that few exits block the spawner and the loop; a container that
\* may outlive its kill, and an image that may be missing.
SPECIFICATION FairSpec
CONSTANTS
  Size = 2
  ReqCap = 1
  Items = {i1, i2, i3, i4}
  MaxOwed = 1
  Clients = {c1, c2}
  Stoppers = {s1}
  MaxFaults = 3
  ImageMayFail = TRUE
  Deaf = {i1}
  Weathers = {FALSE}
  MayRepeat = FALSE
  NoItem = NoItem
INVARIANTS IInv InOnePlace DoneMeansDown
PROPERTIES KeepsBacklog NoPutAfterStop StopAnsweredUnlessHung
\* A pool that hangs may take its clients with it.
CHECK_DEADLOCK FALSE
