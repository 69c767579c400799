SPECIFICATION Spec
CONSTANTS
  MaxSteps = 5
  Interval = 2
  KeepLatestK = 2
  PurgeExempt = {}
  EnableFirstStepCheckpoint = FALSE
  JobConfigs <- FinishedJobs
  NumBatches = 5
  MaxLaunches = 2
  MaxFaults = 0
INVARIANTS LatestIsLoadable
