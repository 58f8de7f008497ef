SPECIFICATION Spec
CONSTANTS
  Params = {p1}
  MaxScale = 1
  InitScale = 1
  GrowthInterval = 2
  Faults = {}
  Toggle = TRUE
  MaxUpdates = 2
CHECK_DEADLOCK FALSE
INVARIANTS
  CountIsUpdates
