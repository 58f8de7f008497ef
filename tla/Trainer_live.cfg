SPECIFICATION FairTrainerSpec
CONSTANTS
  Workers = {w1}
  EvalWorkers = {v1}
  PrefetchFactor = 1
  EvalPrefetch = 1
  Buffers = {b1, b2, b3}
  NoBuffer = NoBuffer
  NoWorker = NoWorker
  BatchSize = 1
  Kind = "none"
  NumSamples = 1
  Ranges <- MCRanges
  Xor <- MCXor
  Hash <- MCHash
  MaxHalfBits = 1
  MaxSeq = 2
  MaxEvalSteps = 2
CHECK_DEADLOCK FALSE
INVARIANTS
  CallsClean
PROPERTIES
  CallsReturn
