\* Pools that do not fail, and clients that wait and return what they get.
SPECIFICATION ServingSpec
CONSTANTS
  Pools = {"pg", "redis"}
  Size <- Ones
  Clients = {c1, c2}
  MayFail = FALSE
  MayHang = FALSE
  MayExpire = FALSE
  MayHangUp = FALSE
  MayClose = FALSE
PROPERTIES BatchAnswered
CHECK_DEADLOCK FALSE
