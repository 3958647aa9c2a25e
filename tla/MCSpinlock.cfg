SPECIFICATION Spec
CONSTANTS
  CPUs = {0, 1}
  BSP = 0
  Locks = {"g_kmalloc_lock", "g_vmalloc_lock", "g_paging_lock", "g_pmm_lock", "g_kbd_lock", "g_sched_lock"}
INVARIANTS
  MutualExclusion
  NoIrqWhileHeld
  IrqStateRestored
PROPERTY
  Progress
