SPECIFICATION Spec
CONSTANTS
  FANOUT = 3
  VMALLOC_DEFAULT_SIZE = 4
  VMALLOC_MAX_RANGES = 2
  Hhdm <- MCHhdm
  KernelEnds = {24, 30, 61}
  Frames = {1, 2, 3, 4, 5, 6, 7, 8, 9, 10}
  Sizes = {1, 3}
  FlagSets <- MCFlagSets
  MaxTaken = 1
  NULL = NULL
INVARIANTS
  FreeRangesExact
  FramesConserved
PROPERTY
  Refinement
CHECK_DEADLOCK FALSE
