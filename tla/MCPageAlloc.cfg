CONSTANTS
  NPages = 5
  NOccupied = 1
  SizeMax = 8
  Typed <- MCTyped
SPECIFICATION ImplSpec
INVARIANTS TypeOK Linked FreeListExact BlocksExact
PROPERTIES NoPanic Implements CallsReturn
\* alloc_cont_pages may run into the sentinel, where the model stops.
CHECK_DEADLOCK FALSE
