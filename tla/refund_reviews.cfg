SPECIFICATION Spec
CONSTANTS
  pay1 = pay1
  anna = anna
  ben = ben
  carla = carla
  c1 = c1
  c2 = c2
  Nothing = Nothing
  Rows = {pay1}
  Amount = 2
  Amounts = {1, 2}
  Prices = {2, 3}
  Admins = {anna, ben}
  Customers = {carla}
  Calls = {c1, c2}
  SelfApprovalAllowed = FALSE
  MaxReviews = 2
  MaxCrashes = 1
SYMMETRY AnyNames
INVARIANTS
  RefundsAddUp
  NeverOverRefunded
