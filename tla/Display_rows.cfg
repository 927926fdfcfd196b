\* Rows of both tables, in calm surroundings and in others.
SPECIFICATION FairSpec
CONSTANTS
  Cap = 1
  MaxEvents = 2
  Weathers = {TRUE, FALSE}
INVARIANTS IInv
PROPERTIES EmittersGoOn StopEnds RowSettles NeverBack
\* The display may have nothing more to show.
CHECK_DEADLOCK FALSE
