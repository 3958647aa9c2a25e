SPECIFICATION Spec
CONSTANTS
  Threads = {t1, t2}
  Sectors = {s1}
  Values = {0, 1}
  ADMIN_QUEUE_DEPTH = 3
  IO_QUEUE_DEPTH = 3
  SQ_PAGE = 3
  CQ_PAGE = 4
  PRP_PAGE = 2
  U16 = 4
  Setups <- MCSetups
  Lens = {0, 1, 2, 3, 4, 5}
  MAX_COUNT = 4
  NULL = NULL
INVARIANT RingsSound
PROPERTIES Refinement EveryCallReturns
