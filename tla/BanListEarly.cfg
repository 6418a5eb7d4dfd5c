SPECIFICATION DirSpec
CONSTANTS
  NetIds = {p1, p2, p3}
  Threads = {t1, t2}
  None = None
  MaxRuns = 1
  MaxEdits = 0
  MaxFaults = 1
INVARIANT
  BansSurvive
