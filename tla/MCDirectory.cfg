SPECIFICATION Spec
CONSTANTS
  Procs = {p}
  Names = {a, b}
  Data = {x}
  NInodes = 3
  Sizes = {2, 4}
  PerBlock = 3
  NSectors = 2
  NSlots = 1
  NHandles = 3
  MaxOpens = 2
  NULL = NULL
SYMMETRY Sym
INVARIANTS NoPanic DiskConsistent InodesNamed ListingComplete
PROPERTIES ImplementsCatalog
