SPECIFICATION FairSpec
CONSTANTS
  e1 = e1
  e2 = e2
  toCustomer = toCustomer
  toProvider = toProvider
  Events = {e1, e2}
  Transactional = {e1}
  Notices = {toCustomer, toProvider}
  Owed <- WhoIsOwed
  Limit = 1
  MAX_DISPATCH_ATTEMPTS = 2
  MaxDismissals = 1
  NoEvent = NoEvent
INVARIANTS
  NothingAnnouncedEarly
  DispatchedMeansTried
  ToldAgainOnlyAfterDismissal
PROPERTIES
  FactsAreAnnounced
