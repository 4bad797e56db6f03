SPECIFICATION FairSpec
CONSTANTS
  Until = 5
  Shut <- MCShut
  Dawn <- MCDawn
  Asks = {0, 2, 3}
  Budget = 2
  Costs = {0, 2}
  MaxFaults = 2
  MayLose = TRUE
  LosesAll = TRUE
  MayKill = FALSE
  MayStop = FALSE
  Idle = FALSE
  MayHalt = FALSE
  HasMaxWait = FALSE
  HasRival = FALSE
PROPERTIES WaitingEnds
CHECK_DEADLOCK FALSE
