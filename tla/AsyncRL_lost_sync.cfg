SPECIFICATION FairSpec
CONSTANTS
  NumPromptsPerTrainStep = 2
  TargetOffpolicySteps = 0
  MaxActiveRolloutGroups = 2
  WindowSize = 1
  StartStep = 0
  NumTrainingSteps = 2
  MaxConsecutiveUntrainableBatches = 2
  MaxUntrainableGroups = 0
  Faults = {"push"}
PROPERTIES RunEnds
CHECK_DEADLOCK FALSE
