SPECIFICATION WaitingSpec
CONSTANTS
  Procs = {p1, p2, p3}
  User = p1
  None = None
  StaleAfter = 1
  MaxHold = 1
INVARIANT TypeOK
INVARIANT ExclusiveUntilStale
INVARIANT OneFaithfulCall
PROPERTY LeftoverIsCleared
PROPERTY WaitsEnd
CHECK_DEADLOCK FALSE
