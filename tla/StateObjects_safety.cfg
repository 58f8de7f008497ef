SPECIFICATION Spec
CONSTANTS
  Addresses = {a1, a2, a3}
  MaxTouched = 2
  MaxEpoch = 2
  Capacity = 4
  Sizes = {1, 2}
  MaxFence = 3
SYMMETRY AddressSymmetry
INVARIANTS
  DeviceOwnsSpans
  EndStepAccepted
CHECK_DEADLOCK FALSE
