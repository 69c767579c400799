SPECIFICATION LoaderSpec
CONSTANTS
  Documents <- MCDocuments
  Orders <- MCOrders
  Configs <- MCConfigs
  TokensPerRow = 4
  MaxDocuments = 2
  MaxContext = 3
  Prefetch = 2
  MaxRows = 6
  MaxCrashes = 2
  World = 3
  GpusPerNode = 2
  MicroBatch = 2
  Samples = 13
  Ahead = 1
  MaxSteps = 4
INVARIANTS LoaderTypeOK TokensInOrder RowsFitLimits SamplesOnce FailsOnlyAfterTear
PROPERTY Resumes
CHECK_DEADLOCK FALSE
