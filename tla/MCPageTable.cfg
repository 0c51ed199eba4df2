SPECIFICATION Spec
CONSTANTS
  NPages = 6
  Vaddr <- MCVaddr
  MaxData = 2
INVARIANTS EntriesExact TreeExact NoDangling
PROPERTY Implements
CHECK_DEADLOCK FALSE
