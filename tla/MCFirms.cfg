SPECIFICATION Spec
CONSTANTS
  books = books
  cafe = cafe
  Orgs <- MCOrgs
  Bookkeeper = books
  Cafe = cafe
  OrgRank <- MCRank
  Seats <- MCSeats
  Employer <- MCEmployer
  Role <- MCRole
  Heads <- MCHeads
  Clerks <- MCClerks
  FirstHire = 24
  MaxHires = 2
  MaxAway = 1
  TICK = 1
  DAY = 1
  WEEK = 2
  MONTH = 4
  QUARTER = 8
  OfficeHours <- MCOpen
  FirstJobs <- MCJobs
  FirstPayday = 1
  EconomySince = 0
  Rent <- MCOne
  Fixed <- MCNone
  OpeningCash <- MCOpening
  Takings <- MCTakings
  StockOrders = {1}
  TaxBills = {1}
  LeaveFrom = 2
  FailedAfter = 3
  ReviewCooldown = 2
  LoanWeeks = 1
  RepayAbove = 3
  RepayDownTo = 2
  Horizon = 7
INVARIANTS PaydaysInOrder OneOfEach DesksAreFilledOnce
PROPERTIES FailedPaysOnlyTheBank HardshipIsReal
CHECK_DEADLOCK FALSE
