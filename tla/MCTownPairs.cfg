SPECIFICATION TownSpec
CONSTANTS
  law = law
  accounting = accounting
  partner = partner
  junior = junior
  ada = ada
  bo = bo
  ann = ann
  ben = ben
  lead = lead
  barista = barista
  eng = eng
  Clients = {law}
  Accountant = accounting
  FirstPlan = 2
  Month = 10
  CloseAttempts = 3
  CloseCapacity = 0
  ReworkFee = 2
  AuditFee = 1
  TrueUp = 1
  MayBeAway = TRUE
  MaxByHand = 2
  Earners = {partner, junior}
  Minutes = {5}
  Customers = {ada, bo}
  Matters = {0, 3}
  Workdays = {0, 1}
  MonthEnds = {0}
  ForgetTenths = 1
  LostAfterDays = 5
  PriceUnit = 100
  RiseTenths = 11
  PriceCeiling = 110
  DebtStart = 100
  DebtFloor = 30
  DebtCeiling = 200
  DebtBy <- MCDebtBy
  HeldDeployDebt = 2
  PostmortemDebt = 5
  TooMuch = 120
  LongOutages = 2
  Holders = {ada, law}
  Subscriptions = {"crm", "pos", "timetrack"}
  HolderOf <- MCHolderOf
  Outside = {"crm", "pos"}
  WorthKeeping = {"pos", "timetrack"}
  TrustStart = 3
  AtRiskBelow = 2
  Best = 4
  WinBackAfter = 1
  People = {1, 2, 3, 4}
  FirmOf <- MCFirmOf
  Software = 3
  Users = {1, 2}
  Clerk <- MCClerk
  Facts = {1}
  Seeded = 2
  MaxParticipants = 3
  MaxDepth = 2
  Cooldown = 2
  PerDay = 3
  Talkative = 2
  Ticks = 1
  Places = {0, 2}
  Owing <- MCOwing
  Seats = {ann, ben}
  MaxRounds = 3
  ModelSeats = 2
  Staff = {lead, barista, eng}
  EmployerOf <- MCEmployerOf
  Vendor = "software_office"
  Cafe = "cafe"
  Plaza = "plaza"
  WeekTicks = 5
  ShiftOf <- MCShiftOf
  OpenAt <- MCOpenAt
  LunchAt = {2}
  HourAt = {1}
  Wander = {eng}
  Troubles = {"unpaid", "swamped"}
INVARIANT NoMeetingTwice
CHECK_DEADLOCK FALSE
