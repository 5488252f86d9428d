CONSTANTS
  q = q  p = p
  Procs = {q, p}
  root = q
  NFrames = 24
  NPages = 4
  StackPages = 1
  Levels = 2
  PerTable = 2
  Descs = {1}
  blocks_per_arena <- MCBlocks
  Sizes = {2}
  ImageBase = 2
  MaxImage = 2
  MaxLive = 3
  Programs = {q, p}
  HeapKept = TRUE
  NULL = NULL
SPECIFICATION Spec
INVARIANT FreeAssertHolds
CHECK_DEADLOCK FALSE
