SPECIFICATION RepairSpec
CONSTANTS
  Targets = {t1, t2}
  Versions = {v1, v2}
  Absent = Absent
  UserDir = UserDir
  UserLink = UserLink
  Link = Link
  Partial = Partial
  Leftover = Leftover
  Root = Root
  MaxFaults = 0
INVARIANT SkillOnDisk
