SPECIFICATION FairSpec
CONSTANTS
  Requests = {r1, r2}
  DpDegree = 2
  MaxEngineStepsBetweenDecisions = 2
  MaxTokens = 2
  MaxPolicyVersion = 2
  BroadcastIsBarrier = TRUE
  EngineMayCrash = TRUE
INVARIANTS TypeOK EachRequestInOnePlace HonestVersions LoadAccounting NobodyWaitsAfterClose
PROPERTIES ImplementsService ServedUnlessCrashed
