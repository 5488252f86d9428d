CONSTANTS
  p1 = p1  p2 = p2  f = f  g = g
  Procs = {p1, p2}
  Inodes = {f, g}
  BLOCK_SIZE = 2
  NDIRECT = 2
  NINDIRECT = 1
  NBlocks = 4
  Counts = {4}
  Near <- MCNear
  Tails = TRUE
  NULL = NULL
SYMMETRY MCSymmetry
SPECIFICATION Spec
INVARIANT ReadsBack
