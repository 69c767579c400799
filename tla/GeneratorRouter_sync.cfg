SPECIFICATION FairSpec
CONSTANTS
  NumGenerators = 2
  Rollouts = {r1, r2}
  MaxTurns = 2
  MaxSessions = 1
  MaxPolicyVersion = 1
  Strategies = {"round_robin", "least_loaded", "sticky"}
  HotSwap = {TRUE, FALSE}
  Faults = {"pull", "generate"}
INVARIANTS
  TypeOK LoadAccounting DrainedWhilePulling WokenFindServing NoStarvation
  OldestTurnOpens
PROPERTIES ImplementsService EveryCallEnds
CHECK_DEADLOCK FALSE
