\* The image cannot be had.
SPECIFICATION FairSpec
CONSTANTS
  Size = 1
  ReqCap = 5
  Items = {i1, i2}
  MaxOwed = 2
  Clients = {c1}
  Stoppers = {s1}
  MaxFaults = 1
  ImageMayFail = TRUE
  Deaf = {}
  Weathers = {FALSE}
  MayRepeat = FALSE
  NoItem = NoItem
PROPERTIES StopAnswered
