SPECIFICATION Spec
CONSTANTS
  Content = {zeros, text}
  Blank = zeros
  LastPage = 2
  N = 2
  Bufs = {b1, b2, b3, b4}
  Null = Null
  MaxStreams = 5
  JunkInts = {0, 5}
  PointersFitInt = TRUE
  Handles = {h1}
  Using = {"FIFO", "LRU", "CLOCK", "LFU", "LRU_K"}
  MaxPins = 2
  MaxFix = 1
INVARIANTS TypeOK PoolShape
PROPERTIES EvictionWritesBack FileFollowsFrames
CHECK_DEADLOCK FALSE
