SPECIFICATION Spec
CONSTANTS
  Workers = {w1}
  Main = Main
  NoThread = NoThread
  ScratchSlots = 2
  DataSlots = 2
  MaxPending = 3
  MaxGeneration <- ThreeOfEach
  MaxFence = 3
  EmptySteps = FALSE
INVARIANTS
  DownloadReadsOwnBatch
