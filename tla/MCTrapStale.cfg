SPECIFICATION TrapSpec
CONSTANTS
  User = {"a", "b"}
  Idle = "idle"
  Maps <- MCMaps
  Writable <- MCWritable
  NV = 4
  NTlb = 2
  ASID_INVALID = 2
  Steps = 1
INVARIANT AsidsReverted
