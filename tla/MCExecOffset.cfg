SPECIFICATION ExecSpec
CONSTANTS
  NV = 5
  NPages = 4
  NIds = 3
  PtPages = 2
  PmdPages = 4
  Fail = {"map", "dir", "unmap"}
  Walks = FALSE
  PG = 8
  USTACK = 4
  BUFSIZ = 2
  Programs <- MCPrograms
  Argvs <- MCArgvs
INVARIANT OffsetRespected
CHECK_DEADLOCK FALSE
