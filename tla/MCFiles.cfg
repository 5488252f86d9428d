CONSTANTS
  p1 = p1  p2 = p2
  Procs = {p1, p2}
  shell = p1
  Names = {"a"}
  Inodes = {1}
  Redirected = {1}
  MaxFd = 5
  MaxFile = 5
  MaxOpens = 2
  NULL = NULL
  PAGE = PAGE
SPECIFICATION Spec
INVARIANTS PipeCounted InodeStaysOpen NoCrash
PROPERTY NoSlotReuse
CONSTRAINT BoundedOpens
CHECK_DEADLOCK FALSE
