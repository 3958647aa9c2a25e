SPECIFICATION ConsoleSpec
CONSTANTS
  CPUs = {0}
  BSP = 0
  Locks = {"printlock", "g_sched_lock"}
INVARIANT
  IrqStateRestored
CHECK_DEADLOCK FALSE
