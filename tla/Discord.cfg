SPECIFICATION FairSpec
CONSTANTS
  Channels = {chat}
  MaxQueue = 3
  BatchLines = 2
  Pause = 2
  MaxPosts = 6
INVARIANTS
  NothingLost
  OneBatchAfterStop
PROPERTIES
  OncePerSecond
  LinesArrive
  StopEnds
