SPECIFICATION Spec
CONSTANTS
  SIZE_WORD = 32
  KMALLOC_ALIGN = 2
  HEADER = 6
  KMALLOC_POOL_SIZE = 24
  PoolBases = {0, 24}
  Sizes = {5, 11, 19, 31}
  NULL = NULL
INVARIANTS
  Tiling
  FreeListExact
  StaleCaught
PROPERTY
  Refinement
