CONSTANTS
  w1 = w1  w2 = w2  r1 = r1  idle = idle
  Tasks <- MCTasks
  idle_thread = idle
  prio <- MCPrio
  boot <- MCBoot
  Readers = {r1, w2}
  Writers = {w1, w2}
  Chars = {"a", "b"}
  bufsize = 3
  MaxCount = 3
  NULL = NULL
SPECIFICATION PipeSpec
INVARIANTS SlotsOwned ShortWait
PROPERTY ImplementsFifo
