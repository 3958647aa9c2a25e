SPECIFICATION Spec
CONSTANTS
  Bsp = 0
  Machines <- MCMachines
  APIC_IDS = 4
  MAX_CPUS = 3
  COUNTS = {"default", "fallback"}
  Pages = {p1}
  Entries = {e1}
  MaxPanics <- MCMaxPanics
  NULL = NULL
INVARIANTS CpuSelfOwn StaleCovered
PROPERTIES PanicHalts ApsJoin
CHECK_DEADLOCK FALSE
