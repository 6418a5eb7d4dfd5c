SPECIFICATION DeathsFairSpec
CONSTANTS
  Players = {p1}
  EventGap = 1
  Forget = 2
  DeathGap = 2
  MaxTime = 4
INVARIANTS
  DeathOnce
PROPERTIES
  DeathsNoticed
  LossEnds
