SPECIFICATION FairSpec
CONSTANTS
  Requests = {r1, r2}
  DpDegree = 1
  MaxEngineStepsBetweenDecisions = 1
  MaxTokens = 2
  MaxPolicyVersion = 1
  BroadcastIsBarrier = TRUE
  EngineMayCrash = TRUE
PROPERTIES EveryCallEnds
