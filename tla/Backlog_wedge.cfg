\* Seven items, as many as the first exits that fill requestch and block.
SPECIFICATION FairSpec
CONSTANTS
  Size = 7
  ReqCap = 5
  MaxExits = 6
PROPERTIES MaintainsSize
CHECK_DEADLOCK FALSE
