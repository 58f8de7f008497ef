SPECIFICATION FairSpec
CONSTANTS
  Workers = {w1, w2}
  PrefetchFactor = 2
  Buffers = {b1, b2}
  NoBuffer = NoBuffer
  NoWorker = NoWorker
  BatchSize = 2
  Kind = "shards"
  NumSamples = 5
  Ranges <- MCRanges
  Xor <- MCXor
  Hash <- MCHash
  MaxHalfBits = 1
  MaxSeq = 5
CHECK_DEADLOCK FALSE
INVARIANTS
  EpochOnce
  NeverStarved
  BindingSound
  SamplesInOrder
  NothingLost
  DestroyGivesBack
PROPERTIES
  NextReturns
  DestroyReturns
