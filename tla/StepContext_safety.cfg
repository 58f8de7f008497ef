SPECIFICATION FairSpec
CONSTANTS
  Workers = {w1}
  Main = Main
  NoThread = NoThread
  ScratchSlots = 2
  DataSlots = 3
  MaxPending = 3
  MaxGeneration <- TwoOfOne
  MaxFence = 3
  EmptySteps = TRUE
CHECK_DEADLOCK FALSE
INVARIANTS
  DeviceKeepsBuffers
  PendingBounded
  WaitedFenceIsKnown
  NoLostWakeup
  LeaseIsExclusive
  SynchronizeDrains
PROPERTIES
  LeaseSpec
  CallsReturn
