SPECIFICATION FairSpec
CONSTANTS
  d1 = d1
  d2 = d2
  hourly = hourly
  trigger = trigger
  sixHourly = sixHourly
  admin1 = admin1
  admin2 = admin2
  Nothing = Nothing
  Payouts = {d1}
  DueRuns = {hourly, trigger}
  RetryRuns = {sixHourly}
  Timers = {hourly, sixHourly}
  Admins = {admin1}
  MaxRetries = 1
  MaxAttempts = 3
  MaxCrashes = 1
CHECK_DEADLOCK FALSE
INVARIANTS
  PaidOnce
  SendableMeansUnsent
  LedgerTellsTheTruth
PROPERTIES
  KeysAreFresh
  FirmHoldStops
  ImplementsMachine
  DueIsTaken
