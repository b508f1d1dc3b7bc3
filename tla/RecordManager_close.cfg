SPECIFICATION Spec
CONSTANTS
  Content <- PageContents
  Blank <- ZeroPage
  LastPage = 2
  N = 2
  Bufs = {b1, b2, b3}
  Null = Null
  MaxStreams = 8
  JunkInts = {0, 9}
  PointersFitInt = TRUE
  Vals = {v1}
  NoVal = NoVal
  HeaderVal = HeaderVal
  Slots = 2
  Pivots = {0, 1, 2}
  SlotLimit = 1
  X = 1
  JunkPages <- Leftovers
  MaxPins = 7
  MaxOver = 4
INVARIANT ClosedIsOnFile
CHECK_DEADLOCK FALSE
