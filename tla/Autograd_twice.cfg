SPECIFICATION Spec
CONSTANTS
  Leaves <- TwoLeaves
  Extent = 2
  Spans = 9
  MaxNodes = 2
  MaxGrads = 4
  MaxTensors = 4
  MaxBackward = 2
  Ops = {"add", "mul"}
  Scales = {1}
INVARIANTS
  LeafGradsRetained
CHECK_DEADLOCK FALSE
