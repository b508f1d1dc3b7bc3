SPECIFICATION Spec
CONSTANTS
  Content = {zeros, text}
  Blank = zeros
  LastPage = 2
  N = 2
  Bufs = {b1, b2, b3, b4}
  Null = Null
  MaxStreams = 5
  JunkInts = {0}
  PointersFitInt = TRUE
  Clients = {c1, c2}
  Using = {"FIFO"}
  JunkPages = {zeros, text}
  Unwritten = Unwritten
  MaxPins <- Pins
INVARIANTS TypeOK PinnedStays PinsAccounted CleanIsOnFile NoLostStore ShutdownIsDurable
PROPERTIES StrayHasCause IsPageStore
SYMMETRY ClientSymmetry
