SPECIFICATION Spec
CONSTANTS
  FANOUT = 3
  Boots <- MCBoots
  Targets = {30}
  Lengths = {2}
  FlagSets <- MCFlagSets
INVARIANT
  GlobalNotUser
CHECK_DEADLOCK FALSE
