\* One item for two clients and three replacements; in calm surroundings and in others.
SPECIFICATION FairSpec
CONSTANTS
  Size = 1
  ReqCap = 5
  Items = {i1, i2, i3, i4}
  MaxOwed = 2
  Clients = {c1, c2}
  Stoppers = {s1}
  MaxFaults = 3
  ImageMayFail = FALSE
  Deaf = {}
  Weathers = {TRUE, FALSE}
  MayRepeat = TRUE
  NoItem = NoItem
PROPERTIES CheckoutAnswered ReturnedComesBack
