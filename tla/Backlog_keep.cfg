\* Two items, a short channel, and enough exits to reach the bound and the wedge.
SPECIFICATION FairSpec
CONSTANTS
  Size = 2
  ReqCap = 2
  MaxExits = 12
INVARIANTS IInv SpawnCovers OvershootBound WedgedUnderLoad
PROPERTIES MaintainsSizeUnlessWedged DrainTerminates
\* The pool may be done, wedged, or stuck in its own Stop.
CHECK_DEADLOCK FALSE
