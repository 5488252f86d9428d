CONSTANTS
  p1 = p1  p2 = p2  f = f  g = g
  Procs = {p1, p2}
  Inodes = {f, g}
  BLOCK_SIZE = 2
  NDIRECT = 2
  NINDIRECT = 1
  NBlocks = 4
  Counts = {3, 4}
  Near <- MCNear
  Tails = FALSE
  NULL = NULL
SYMMETRY MCSymmetry
SPECIFICATION Spec
INVARIANTS ReadsBack BlocksOwned OnDisk
