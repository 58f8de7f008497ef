SPECIFICATION Spec
CONSTANTS
  Leaves <- TwoLeaves
  Extent = 2
  Spans = 8
  MaxNodes = 3
  MaxGrads = 3
  MaxTensors = 5
  MaxBackward = 1
  Ops = {"add", "mul", "dropout", "dropout_add", "split", "reshape"}
  Scales = {1, 2}
INVARIANTS
  GradientsRight
  SlotsOwnStorage
  ForwardReadable
  NothingLeft
CHECK_DEADLOCK FALSE
