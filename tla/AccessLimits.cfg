SPECIFICATION Spec
CONSTANTS
  CommandsPerMinute = 40
  CommandBurst = 2
  MaxFailedAuth = 3
  FailWindowSeconds = 2
  BanSeconds = 3
  Addrs = {a1}
  MaxTime = 7
  MaxFails = 6
INVARIANTS
  RateBound
  BlockLasts
  WindowBound
