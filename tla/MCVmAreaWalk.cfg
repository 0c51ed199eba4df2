SPECIFICATION Spec
CONSTANTS
  NV = 6
  NPages = 4
  NIds = 7
  PtPages = 2
  PmdPages = 4
  Fail = {}
  Walks = TRUE
INVARIANT WalksEnd
CHECK_DEADLOCK FALSE
