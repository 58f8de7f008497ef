SPECIFICATION FairSpec
CONSTANTS
  Latest = Latest
  Best = Best
  Afresh = Afresh
  NoRecord = NoRecord
  Records <- MCRecords
  ShardSteps <- MCShardSteps
  Capacity = 2
  Epochs = 2
  LatestEvery = 2
  EvalEvery = 1
  Patience = 1
  ReportEvery = 0
  MaxStarts = 3
CHECK_DEADLOCK FALSE
INVARIANTS NothingSkipped WholeUnlessCut
PROPERTIES LogSpec RunEnds
