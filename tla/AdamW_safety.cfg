SPECIFICATION Spec
CONSTANTS
  Params = {p1, p2}
  MaxScale = 2
  InitScale = 1
  GrowthInterval = 2
  Faults = {"before", "after"}
  Toggle = FALSE
  MaxUpdates = 3
SYMMETRY ParamSymmetry
CHECK_DEADLOCK FALSE
INVARIANTS
  UpdatesSound
  StepsCounted
  SkipJustified
