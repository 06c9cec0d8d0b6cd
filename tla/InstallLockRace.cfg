SPECIFICATION PromptSpec
CONSTANTS
  Procs = {p1, p2}
  None = None
  StaleAfter = 1
  MaxHold = 1
INVARIANT MutualExclusion
