SPECIFICATION Spec
CONSTANTS
  vendor = vendor
  cafe = cafe
  client = client
  fee = fee
  lunch = lunch
  party = party
  Firms = {vendor, cafe}
  Clients = {client}
  Vendor = vendor
  Bills = {fee}
  From <- MCFrom
  To <- MCTo
  Face <- MCFace
  Subscription = {fee}
  Monthly = 8
  Cash <- MCCash
  Terms = 2
  AskFrom = 1
  Window = 1
  WriteOffAfter = 2
  Promises = {}
  Horizon = 2
INVARIANTS NothingIsCollectedTwice
