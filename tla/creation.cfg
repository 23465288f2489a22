SPECIFICATION Spec
CONSTANTS
  customer = customer
  admin = admin
  k1 = k1
  k2 = k2
  morning = morning
  evening = evening
  d1 = d1
  c1 = c1
  c2 = c2
  Nothing = Nothing
  Customers = {customer}
  Admins = {admin}
  Keys = {k1, k2}
  Slots = {morning, evening}
  Capacity <- OneEach
  Drafts = {d1}
  Owner <- OnlyAdmin
  Calls = {c1, c2}
  MaxBookings = 2
  MaxEdits = 1
  MaxLost = 1
SYMMETRY EitherCall
CHECK_DEADLOCK FALSE
INVARIANTS
  OneBookingPerKey
  SlotNeverOverfull
  OneBookingPerDraft
PROPERTIES
  ImplementsRegister
