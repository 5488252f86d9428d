CONSTANTS
  q = q  p = p
  Procs = {q, p}
  root = q
  NFrames = 30
  NPages = 7
  StackPages = 1
  Levels = 2
  PerTable = 1
  Descs = {1}
  blocks_per_arena <- MCBlocks
  Sizes = {5}
  ImageBase = 5
  MaxImage = 2
  MaxLive = 2
  Programs = {p}
  HeapKept = FALSE
  NULL = NULL
SPECIFICATION Spec
INVARIANTS FramesOwned BlocksApart ArenasCounted OnlyMemoryEnds
\* An ASSERT that fails for lack of memory stops the machine.
CHECK_DEADLOCK FALSE
