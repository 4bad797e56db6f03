SPECIFICATION FairSpec
CONSTANTS
  invoicing = invoicing
  ann = ann
  clerk = clerk
  engineer = engineer
  Modules = {invoicing}
  People = {ann}
  Uses <- MCUses
  Agents = {clerk, engineer}
  Support = {clerk}
  Engineers = {engineer}
  Managers = {clerk, engineer}
  Nobody = Nobody
  Seeded <- MCSeeded
  Tick = 2
  Calendar <- MCCalendar
  Lengths = {9}
  Afters = {0, 2}
  Delays = {0, 3}
  Floor = 2
  PressedKeeps = 4
  QueueKeeps = 2
  Timeout = 6
  ReopenWindow = 8
  EnoughBlocked = 1
  MaxIncidents = 2
  MaxTickets = 2
INVARIANTS OneOutageAtATime EverythingIsAboutItsOutage
PROPERTIES NeverLonger NobodyNoticesAfter EverythingEnds
