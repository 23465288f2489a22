SPECIFICATION FairSpec
CONSTANTS
  pay1 = pay1
  pay2 = pay2
  None = None
  Rows = {pay1}
  MaxSessions = 3
  MaxCrashes = 1
  MaxByHand = 1
CHECK_DEADLOCK FALSE
INVARIANTS
  CaptureAgrees
  WorkIsPaidFor
  RefundNotForgotten
  RefundedIsReturned
PROPERTIES
  
  ImplementsMachine
