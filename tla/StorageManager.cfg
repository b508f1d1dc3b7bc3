SPECIFICATION Spec
CONSTANTS
  Content = {zeros, text}
  Blank = zeros
  LastPage = 3
  Handles = {h1, h2}
  PageSize = 2
  IntSpan = 16
  Streams = {s1, s2}
  NoStream = NoStream
  Asked <- AskedPages
SYMMETRY Interchangeable
INVARIANTS TypeOK TotalNeverAhead
PROPERTIES DeathHasCause OneBlockPerWrite
CHECK_DEADLOCK FALSE
