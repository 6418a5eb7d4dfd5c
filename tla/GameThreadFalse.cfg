SPECIFICATION Spec
CONSTANTS
  Threads = {t1, t2}
  Slots = {s1}
  MaxCalls = 2
  MaxNest = 2
  None = None
INVARIANT
  FalseMeansNotRun
