SPECIFICATION BranchSpec
CONSTANTS
  W = 6
  ImmBits = 3
  IndexBits = 2
  Values = {0, 1, 2, 31, 32, 62}
  Pcs = {4, 8, 56}
INVARIANT SignedBranches
CHECK_DEADLOCK FALSE
