CONSTANTS
  idle = idle
  init = init
  a = a
  b = b
  s1 = s1
  s2 = s2
  NoTask = NoTask
  Idle = idle
  Task1 = init
  Tasks <- Four
  BootFree <- FreeAB
  Sems <- TwoSems
  BootSems <- BootTwo
  Quantum = 1
  MAX_BUFF = 1
  Timeouts = {}
  InitialValues = {0, 1}
  MaxCount = 1
SPECIFICATION Spec
INVARIANTS SemaphoresSound NoUnearnedPass
PROPERTIES SoleWaiterWoken DestroyReleases StrandedOnlyByReuse
