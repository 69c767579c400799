SPECIFICATION FairSpec
CONSTANTS
  NumPromptsPerTrainStep = 2
  TargetOffpolicySteps = 1
  MaxActiveRolloutGroups = 4
  WindowSize = 3
  StartStep = 0
  NumTrainingSteps = 4
  MaxConsecutiveUntrainableBatches = 1
  MaxUntrainableGroups = 1
  Faults = {}
INVARIANTS TypeOK WindowBypass PolicyAgeBound GeneratorLag
PROPERTIES SyncReadsStableData TrainingCompletes
