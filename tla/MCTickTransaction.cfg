SPECIFICATION FairSpec
CONSTANTS
  p1 = p1
  p2 = p2
  None = None
  Procs <- MCProcs
  EventsAt <- MCEventsAt
  Shut <- MCShut
  LastTime = 5
  MaxFaults = 4
  MayDeploy = TRUE
PROPERTIES NothingBehindACursor KeepsThePromise ReachesTheHorizon
