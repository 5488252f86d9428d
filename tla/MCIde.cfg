CONSTANTS
  k = k  u = u  idle = idle
  Tasks <- MCTasks
  idle_thread = idle
  prio <- MCPrio
  boot <- MCBoot
  KThreads = {k}
  Clients = {k, u}
  Modes = {"slow", "stale"}
  Ops <- MCOps
  Chunk = 2
  Secs = {2, 3}
  PollTurns = 2
  NULL = NULL
SPECIFICATION FairSpec
INVARIANTS DoneNotLost NoOverrun RightData NoLeftover
PROPERTY HolderFinishes
\* busy_wait may run out of turns: the callers PANIC.
CHECK_DEADLOCK FALSE
