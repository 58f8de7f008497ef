SPECIFICATION Spec
CONSTANTS
  Tensors = {t1, t2, t3, t4}
  NoSpan = NoSpan
  Capacity = 7
  SizeMax = 7
  FreeCapacity = 2
  Sizes = {1, 3}
  Alignments = {1, 2, 4}
  MaxGeneration = 2
SYMMETRY TensorSymmetry
INVARIANTS
  HeldIsExclusive
  Coalesced
  OwnFreeAccepted
  NothingForgotten
PROPERTIES
  AllocatorSpec
CHECK_DEADLOCK FALSE
