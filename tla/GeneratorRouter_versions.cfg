SPECIFICATION Spec
CONSTANTS
  NumGenerators = 2
  Rollouts = {r1}
  MaxTurns = 2
  MaxSessions = 1
  MaxPolicyVersion = 1
  Strategies = {"least_loaded"}
  HotSwap = {TRUE}
  Faults = {}
INVARIANTS MinIsOldest
CHECK_DEADLOCK FALSE
