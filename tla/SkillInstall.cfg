SPECIFICATION WorldsSpec
CONSTANTS
  Targets = {t1, t2}
  Versions = {v1, v2}
  Absent = Absent
  UserDir = UserDir
  UserLink = UserLink
  Link = Link
  Partial = Partial
  Leftover = Leftover
  Root = Root
  Overlap = Overlap
  MaxFaults = 2
SYMMETRY Symmetry
INVARIANT InstallIsAtomic
INVARIANT SkillKept
INVARIANT PlacementsCurrent
INVARIANT OnlyCrossingHarms
PROPERTY UserDirsKept
PROPERTY InstallsAreWhole
