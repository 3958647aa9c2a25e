SPECIFICATION Spec
CONSTANTS
  CPUs = {0, 1}
  BSP = 0
  Tasks = {t1, t2}
  NULL = NULL
INVARIANTS
  OnePlace
  StackIsCurrents
  SpawnsAtHome
  NothingLeaked
PROPERTY
  EventuallyRuns
CHECK_DEADLOCK FALSE
