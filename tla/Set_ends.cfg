\* The same with one client.
SPECIFICATION FairSpec
CONSTANTS
  Pools = {"pg", "redis"}
  Size <- TwoAndOnes
  Clients = {c1}
  MayFail = TRUE
  MayHang = TRUE
  MayExpire = TRUE
  MayHangUp = TRUE
  MayClose = TRUE
PROPERTIES CancelledEnds ClosingEnds RequestsEnd
CHECK_DEADLOCK FALSE
