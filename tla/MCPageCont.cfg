CONSTANTS
  NPages = 4
  NOccupied = 1
  SizeMax = 7
  Typed = {}
SPECIFICATION Spec
PROPERTIES ContReturns
CHECK_DEADLOCK FALSE
