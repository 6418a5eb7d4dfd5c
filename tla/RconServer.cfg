SPECIFICATION FairSpec
CONSTANTS
  CommandsPerMinute = 60
  CommandBurst = 1
  MaxFailedAuth = 2
  FailWindowSeconds = 2
  BanSeconds = 2
  Addrs <- MCAddrs
  Whitelists <- MCWhitelists
  Width = 3
  NoSlash = NoSlash
  Garbage = Garbage
  Malformed = Malformed
  MaxConnections = 2
  Handlers = {h1, h2}
  MaxTime = 4
  None = None
INVARIANTS
  SlotsAccounted
  BlockOvershoot
  LateCommands
  FilterIsPrefix
PROPERTIES
  NothingAfterStop
  HandlersEnd
