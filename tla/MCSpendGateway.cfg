SPECIFICATION Spec
CONSTANTS
  daemon = daemon
  api = api
  c1 = c1
  c2 = c2
  c3 = c3
  Procs <- MCProcs
  Calls <- MCCalls
  Owner <- MCOwner
  Explore <- MCExplore
  Worst <- MCWorst
  RemoteReadings <- MCRemote
  MaxAttempts = 2
  Permits = 1
  RunCap = 3
  ExploreCeiling = 2
  HaltCeiling = 3
  HardCeiling = 4
  MayThrottle = FALSE
  MayGarble = FALSE
  MayOmitCost = TRUE
INVARIANTS NeverPastTheCeiling EachAttemptIsCovered RunCapHolds
CHECK_DEADLOCK FALSE
