CONSTANTS
  idle = idle
  init = init
  a = a
  b = b
  s1 = s1
  s2 = s2
  NoTask = NoTask
  Idle = idle
  Task1 = init
  Tasks <- Four
  BootFree <- FreeAB
  Sems <- OneSem
  BootSems <- BootOne
  Quantum = 2
  MAX_BUFF = 2
  Timeouts = {1, 2}
  InitialValues = {}
  MaxCount = 0
SPECIFICATION Spec
INVARIANTS WaitersSound NoSleepWithSpareKey
PROPERTY GetKeyReturns
