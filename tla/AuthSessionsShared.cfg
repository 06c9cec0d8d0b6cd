SPECIFICATION Spec
CONSTANTS
  Runs = {r1, r2}
  Envs = {e1, e2}
  Creds = {c1, c2, c3}
  NoCred = NoCred
  NoKey = NoKey
  Torn = Torn
SYMMETRY Symmetry
INVARIANT RightServer
INVARIANT StoredIsLive
INVARIANT NoOrphans
PROPERTY LogoutLeavesNothing
PROPERTY OneEntryAtATime
