SPECIFICATION AgentsSpec
CONSTANTS
  Procs = {p1, p2, p3}
  First = p1
  None = None
  StaleAfter = 1
  MaxHold = 1
  Versions = {v1, v2}
  UserDoc = UserDoc
  Foreign = Foreign
  Absent = Absent
  MaxFaults = 3
INVARIANT FailureIsAtomic
INVARIANT PriorPairOnDisk
INVARIANT RecordVouches
INVARIANT ResumableUnlessTorn
PROPERTY UserDocKept
PROPERTY CommandsAreAtomic
