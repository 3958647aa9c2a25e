SPECIFICATION Spec
CONSTANTS
  PAGE = 2
  WORD = 40
  MemoryMaps <- Maps
  KernelStart = 5
  KernelEnd = 7
  SkipStart = 8
  SkipEnd = 10
  Clients = {c1, c2}
  INVALID = INVALID
INVARIANTS
  Accounting
  HintSound
  OnlyRam
  OneOwner
  ReclaimSafe
PROPERTY
  Refinement
CHECK_DEADLOCK FALSE
