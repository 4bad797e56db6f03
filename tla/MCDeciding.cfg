SPECIFICATION DecidingSpec
CONSTANTS
  daemon = daemon
  api = api
  c1 = c1
  c2 = c2
  Null = Null
  Handles <- MCHandles
  Calls <- MCCalls
  Amounts <- MCAmounts
  Overlap = FALSE
  MaxRows = 4
  r1 = r1
  r2 = r2
  r3 = r3
  Pin = Pin
  Other = Other
  None = None
  Requests <- MCRequests
  Batch <- MCBatch
  LastTick = 3
  MaxFaults = 3
  MayTimeout = TRUE
  MayCrash = TRUE
  MayGarble = TRUE
  MayDrift = TRUE
  Questions = {1, 2}
  Unsure = {1, 2}
  Escalations <- MCEscalations
  Models = 2
  Allowance = 2
  MayGoLive = {{1}, {1, 2}}
  Mishaps = 2
  LastOption = 3
  Parts = 2
  Firms <- Firm
  Vendor = "tallybird"
  Cafe = "thirdrail"
  Accountant = "ledgerline"
  GroupsShown = 3
  Dealings <- MCDealings
  Waiting <- MCWaiting
INVARIANTS OpenLedgerIsExact PaidOnce Replayable LiveOpinionsReplay ShadowTakesNoLivePlace
INVARIANTS WeighedFairly TheTwinStaysInTheQuestion
PROPERTIES TicksAreDecided
CHECK_DEADLOCK FALSE
