CONSTANTS
  NULL = NULL
  MADT_MAX_LAPICS = 3
  MADT_MAX_IOAPICS = 2
  MADT_MAX_ISOS = 3
  PCI_DEVICES = 2
  PCI_FUNCTIONS = 3
  PS2_KBD_VECTOR = 33
  CPUs = {0, 1}
  Listeners = {l1, l2}
  Codes = {30, 158, 224}
  Lines = {4}
  Machines <- MCMachines
SPECIFICATION Spec
INVARIANTS InventoryExact RouteExact EventsRight
PROPERTY KeysHandled
CHECK_DEADLOCK FALSE
