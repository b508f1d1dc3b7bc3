SPECIFICATION Spec
CONSTANTS
  Content = {zeros, text}
  Blank = zeros
  LastPage = 2
  N = 2
  Bufs = {b1, b2, b3}
  Null = Null
  MaxStreams = 5
  JunkInts = {9}
  PointersFitInt = TRUE
  Clients = {c1}
  Using = {"LRU", "CLOCK", "LFU", "LRU_K"}
  JunkPages = {text}
  Unwritten = Unwritten
  MaxPins <- Pins
INVARIANT NoLostStore
PROPERTIES StrayHasCause IsPageStore
