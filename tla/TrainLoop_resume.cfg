SPECIFICATION FairSpec
CONSTANTS
  MaxSteps = 6
  Interval = 2
  KeepLatestK = 2
  PurgeExempt = {1}
  EnableFirstStepCheckpoint = TRUE
  JobConfigs <- ResumableJobs
  NumBatches = 5
  MaxLaunches = 3
  MaxFaults = 2
INVARIANTS TypeOK ConsistentSnapshots LatestIsLoadable NothingLostOnExit BoundedLoss PurgeSparesResume
PROPERTIES ImplementsRecovery JobCompletes
