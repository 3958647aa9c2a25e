SPECIFICATION Spec
CONSTANTS
  FANOUT = 3
  Boots <- MCBoots
  Targets = {30}
  Lengths = {2}
  FlagSets <- MCFlagSets
INVARIANTS
  TablesFormTree
  BootMapKept
PROPERTIES
  UserMapsReachable
  Refinement
CHECK_DEADLOCK FALSE
