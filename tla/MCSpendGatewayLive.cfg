SPECIFICATION FairSpec
CONSTANTS
  daemon = daemon
  api = api
  c1 = c1
  c2 = c2
  c3 = c3
  Procs <- MCProcs
  Calls <- MCTwoCalls
  Owner <- MCTwoOwners
  Explore <- MCNone
  Worst <- MCOneEach
  RemoteReadings <- MCRemote
  MaxAttempts = 2
  Permits = 1
  RunCap = 2
  ExploreCeiling = 2
  HaltCeiling = 2
  HardCeiling = 3
  MayThrottle = TRUE
  MayGarble = TRUE
  MayOmitCost = TRUE
PROPERTY EveryCallEnds
CHECK_DEADLOCK FALSE
