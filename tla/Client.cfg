SPECIFICATION ClientSpec
CONSTANTS
  Runs = {r1}
  Owner = o
  Others = {p1}
  Communities = {c1}
  Renewals = {q1}
  MaxRev = 2
  MaxLife = 2
  MaxLate = 1
  Missing = Missing
  MaxBody = 2
  Limit = 3
  Actors = {r1}
  Skills = {sa, sb}
  Basic = sa
  Needs <- MCNeeds
  Targets = {t1, t2}
  Preferred = {t1}
  Given = {t2}
  Nothing = Nothing
  Writers = {w1, w2}
  Items = {1, 2, 3}
  PageLimit = 1
  MaxVersion = 2
INVARIANT ClientTypeOK
INVARIANT UnchangedIsTrue
INVARIANT AppliedToWhatWasRead
INVARIANT ToldTruly
INVARIANT SettingsKept
INVARIANT SecretKept
INVARIANT OwnLoginOnly
INVARIANT OnePicture
INVARIANT ShownOnce
INVARIANT ResentRightly
PROPERTY DoneIsInstalled
PROPERTY KeptUnlessForced
PROPERTY PlacementsPreserved
CHECK_DEADLOCK FALSE
