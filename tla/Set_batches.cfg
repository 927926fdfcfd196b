\* A pool of two items and one of one, which may fail, hang or be stopped by the end of
\* their context, and two clients, who may disconnect.  A Close stops pools like the
\* context does: Set_ends has it.
SPECIFICATION Spec
CONSTANTS
  Pools = {"pg", "redis"}
  Size <- TwoAndOnes
  Clients = {c1, c2}
  MayFail = TRUE
  MayHang = TRUE
  MayExpire = TRUE
  MayHangUp = TRUE
  MayClose = FALSE
SYMMETRY Symmetry
INVARIANTS IInv Conserved
PROPERTIES KeepsLease
CHECK_DEADLOCK FALSE
