SPECIFICATION RetrySpec
CONSTANTS
  Runs = {r1}
  Users = {u1, u2}
  Profiles = {a}
  NoApp = NoApp
  MaxLate = 2
INVARIANT PlainFailureIsNone
INVARIANT NeverVisible
PROPERTY RetryCreates
