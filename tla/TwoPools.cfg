SPECIFICATION Spec
CONSTANTS
  Content = {zeros, text}
  Blank = zeros
  LastPage = 2
  Bufs = {b1, b2, b3}
  Null = Null
  MaxStreams = 4
  JunkInts = {9}
  PointersFitInt = TRUE
  PoolIds = {1, 2}
  Sizes = {1, 2}
  Using <- UsingBoth
  Asked <- AskedBoth
  Stored <- StoredBoth
  Unwritten = Unwritten
  MaxPins <- PinsBoth
INVARIANT NoLostStore
PROPERTY StrayHasCause
CHECK_DEADLOCK FALSE
