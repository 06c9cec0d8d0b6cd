SPECIFICATION Spec
CONSTANTS
  Runs = {r1}
  Envs = {e1}
  Creds = {c1, c2}
  NoCred = NoCred
  NoKey = NoKey
  Torn = Torn
INVARIANT RecoveryIsPossible
