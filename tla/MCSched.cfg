CONSTANTS
  idle = idle
  init = init
  a = a
  b = b
  s1 = s1
  s2 = s2
  Tasks <- MCTasks
  Idle = idle
  Task1 = init
  BootFree <- MCBootFree
  Sems <- MCSems
  Quantum = 2
SPECIFICATION SchedSpec
INVARIANTS Discipline UnlistedBlocked SuspendedHasFrame
PROPERTIES NoOvertaking LifecycleSpec ReadyRuns
