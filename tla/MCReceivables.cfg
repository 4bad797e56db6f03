SPECIFICATION FairSpec
CONSTANTS
  vendor = vendor
  cafe = cafe
  client = client
  fee = fee
  lunch = lunch
  party = party
  Firms = {vendor, cafe}
  Clients = {client}
  Vendor = vendor
  Bills = {fee, lunch, party}
  From <- MCFrom
  To <- MCTo
  Face <- MCFace
  Subscription = {fee}
  Monthly = 8
  Cash <- MCCash
  Terms = 2
  AskFrom = 1
  Window = 1
  WriteOffAfter = 2
  Promises = {1, 2}
  Horizon = 2
CONSTRAINT TwoBills
INVARIANTS BooksAgree DisputesAreHeard PromisesAreScored
PROPERTIES BillsEnd
