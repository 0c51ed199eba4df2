SPECIFICATION MCSpec
CONSTANTS
  idle = idle
  init = init
  task1 = task1
  task2 = task2
  task3 = task3
  null = null
  Task <- MCTask
  IdleP <- idle
  InitP <- init
  CPUs <- MCCPUs
  Boot = 0
  NoRq <- null
  User = {"a", "b"}
  Idle = "idle"
  Maps <- MCMaps
  Writable <- MCWritable
  NV = 4
  NTlb = 2
  ASID_INVALID = 4
  Steps = 2
  NPages = 3
  Requests <- MCRequests
  MaxOwn = 6
  Keys = 7
  Proc = {"idle", "init", "p", "q", "r", "s"}
  initproc = "init"
  idleproc = "idle"
  UintSize = 64
  MaxCount = 6
  W = 6
  ImmBits = 3
  IndexBits = 2
  Values = {0, 1, 2, 31, 32, 62}
  Pcs = {4, 8, 56}
  CountBits = 6
  LW = 6
  WS = 4
  Chars = {1, 2}
  Addrs <- MCAddrs
  Lens <- MCLens
  MaxLen = 3
INVARIANTS
  OnePlace PayloadExact OnlyBootQueues
  ResumeExact OwnPages NoDuplicates PanicOnlyOnFault
  ChainExact QueuesExact OwnedExact NoLeak NoHalt
  RbBalanced RbOrdered RbAugmented KinExact BranchExact ClockAlive NumbersExact BuffersExact
PROPERTY NoStarvation
