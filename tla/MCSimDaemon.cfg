SPECIFICATION FairSpec
CONSTANTS
  Until = 5
  Shut <- LateShut
  Dawn <- LateDawn
  Asks = {0, 2, 3}
  Budget = 2
  Costs = {0, 1, 2}
  MaxFaults = 4
  MayLose = TRUE
  LosesAll = TRUE
  MayKill = TRUE
  MayStop = TRUE
  Idle = TRUE
  MayHalt = TRUE
  HasMaxWait = TRUE
  HasRival = TRUE
INVARIANTS GovernorHolds StatusIsHonest
PROPERTIES WaitsAreOver
CHECK_DEADLOCK FALSE
