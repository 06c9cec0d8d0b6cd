SPECIFICATION Spec
CONSTANTS
  Runs = {r1, r2}
  Users = {u1, u2}
  Profiles = {a, b}
  NoApp = NoApp
  MaxLate = 0
SYMMETRY Symmetry
INVARIANT DoneIsDone
INVARIANT SparesOthers
