CONSTANTS
  idle = idle
  init = init
  task1 = task1
  task2 = task2
  task3 = task3
  null = null
  Task <- MCTask
  IdleP <- idle
  InitP <- init
  CPUs <- MCCPUs
  Boot = 0
  NoRq <- null
SPECIFICATION SchedSpec
PROPERTY EnqueuesOnMinimum
