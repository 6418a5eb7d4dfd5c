SPECIFICATION DirSpec
CONSTANTS
  NetIds = {p1, p2}
  Threads = {t1, t2}
  None = None
  MaxRuns = 2
  MaxEdits = 1
  MaxFaults = 1
SYMMETRY Symmetry
INVARIANTS
  FileIsList
  BansKept
  SettingsKept
  NeverRegenerated
