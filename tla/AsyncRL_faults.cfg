SPECIFICATION FairSpec
CONSTANTS
  NumPromptsPerTrainStep = 2
  TargetOffpolicySteps = 1
  MaxActiveRolloutGroups = 4
  WindowSize = 2
  StartStep = 1
  NumTrainingSteps = 3
  MaxConsecutiveUntrainableBatches = 1
  MaxUntrainableGroups = 2
  Faults = {"data", "pack", "train", "nan", "push", "pull"}
INVARIANTS SlotAccounting BufferCallsNeverRaise GeneratorsHoldNamedWeights CompletedInSync
PROPERTIES RunEnds
