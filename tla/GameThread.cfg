SPECIFICATION FairSpec
CONSTANTS
  Threads = {t1, t2}
  Slots = {s1, s2}
  MaxCalls = 2
  MaxNest = 2
  None = None
INVARIANTS
  AnswerIsTrue
PROPERTIES
  QueueFifo
  ImplementsSyncCall
  CallsReturn
