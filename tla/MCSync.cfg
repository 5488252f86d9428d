CONSTANTS
  k1 = k1  k2 = k2  u1 = u1  idle = idle
  Tasks <- MCTasks
  idle_thread = idle
  prio <- MCPrio
  KThreads = {k1, k2}
  MaxDepth = 2
  boot <- MCBoot
  NULL = NULL
SPECIFICATION FairSpec
INVARIANTS Exclusion NoPanic TagInOneList NoLostWakeup InterruptsRestored
PROPERTIES ImplementsLock ReadyRuns LockProgress
