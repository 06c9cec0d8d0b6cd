SPECIFICATION SkillsSpec
CONSTANTS
  a = a
  b = b
  t1 = t1
  t2 = t2
  Actors = {r1}
  Skills <- MCSkills
  Needs <- MCNeeds
  Targets = {t1, t2}
  Preferred <- MCPreferred
  Given <- MCGiven
  MaxVersion = 2
  Nothing = Nothing
INVARIANT PinIsRecorded
