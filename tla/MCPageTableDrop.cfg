SPECIFICATION Spec
CONSTANTS
  NPages = 5
  Vaddr <- MCVaddr
  MaxData = 2
PROPERTY InsertKeepsOthers
CHECK_DEADLOCK FALSE
