\* Calm surroundings, and others in which everything may fail.
SPECIFICATION FairSpec
CONSTANTS
  MaxKills = 2
  MaxResets = 2
  Weathers = {TRUE, FALSE}
INVARIANTS IInv NobodyLeftBehind OneFunctionAtATime ExitedMeansGone
PROPERTIES KeepsContract ExitEnds KillOfRunningExits
\* The item may be done, or wait for ever.
CHECK_DEADLOCK FALSE
