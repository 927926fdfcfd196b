\* A kill before the container runs.
SPECIFICATION FairSpec
CONSTANTS
  MaxKills = 2
  MaxResets = 0
  Weathers = {TRUE}
PROPERTIES KillExits
\* The item may be done, or wait for ever.
CHECK_DEADLOCK FALSE
