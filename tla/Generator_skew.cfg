SPECIFICATION Spec
CONSTANTS
  Requests = {r1, r2}
  DpDegree = 2
  MaxEngineStepsBetweenDecisions = 1
  MaxTokens = 2
  MaxPolicyVersion = 1
  BroadcastIsBarrier = FALSE
  EngineMayCrash = FALSE
INVARIANTS NobodyWaitsAfterClose
