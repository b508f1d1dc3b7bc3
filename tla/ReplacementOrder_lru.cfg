SPECIFICATION OrderSpec
CONSTANTS
  Content = {zeros}
  Blank = zeros
  LastPage = 3
  N = 3
  Bufs = {b1, b2, b3, b4, b5}
  Null = Null
  MaxStreams = 12
  JunkInts = {9}
  PointersFitInt = TRUE
  Handles = {h}
  Using = {"LRU"}
  MaxPins = 8
  MaxFix = 1
  MaxVisits = 8
PROPERTIES LRUEvictsLeastRecent
CHECK_DEADLOCK FALSE
