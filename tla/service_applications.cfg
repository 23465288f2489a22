SPECIFICATION Spec
CONSTANTS
  Nothing = Nothing
  Services = {plumbing, cleaning}
  Keys = {k1, k2}
  Calls = {c1, c2}
  MaxApplications = 2
  MaxVersion = 5
  MaxPolicy = 2
SYMMETRY AnyNames
INVARIANTS
  OneOpenApplication
  OncePerKey
  JudgedOnTheLastAnswer
PROPERTIES
  AppliedAsRequired
  ClosedForGood
