SPECIFICATION Spec
CONSTANTS
  b1 = b1
  b2 = b2
  p1 = p1
  p2 = p2
  customer = customer
  admin = admin
  system = system
  k1 = k1
  k2 = k2
  key1 = key1
  c1 = c1
  c2 = c2
  c3 = c3
  NoOne = NoOne
  NoCode = NoCode
  NoKey = NoKey
  NoRequest = NoRequest
  Bookings = {b1}
  Providers = {p1, p2}
  Actors = {p1, p2, customer, admin, system}
  Codes = {k1, k2}
  Keys = {key1}
  Calls = {c1, c2}
  Starts = {0}
  CustomerOf <- OneCustomer
  Duration <- TwoHours
  Requests <- CoreRequests
SYMMETRY AnyOrder
INVARIANTS
  DecisionStillCurrent
  OnlyTheHolderIsLive
  TimelineAgrees
  CodeNeedsHolder
PROPERTIES
  FinishedForGood
  ImplementsMachine
