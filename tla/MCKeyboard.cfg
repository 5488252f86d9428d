CONSTANTS
  r1 = r1  idle = idle
  Tasks <- MCTasks
  idle_thread = idle
  prio <- MCPrio
  boot <- MCBoot
  Readers = {r1}
  Keys = {"l", "shift_l", "caps_lock", "ctrl_r", "arrow"}
  Chars = {"l", "L", "a", "A", "1", "!", "^l"}
  bufsize = 2
  MaxCount = 1
  NULL = NULL
SPECIFICATION FairSpec
INVARIANT NoStuckKey
PROPERTIES ReaderServed TypedChar
