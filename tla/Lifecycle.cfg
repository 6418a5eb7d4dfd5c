SPECIFICATION FairSpec
CONSTANTS
  Clients = {r1, r2}
  MaxKicks = 2
  None = None
  Places <- MCPlaces
  Home <- MCHome
INVARIANTS
  ListenerInScope
PROPERTIES
  QuietAfterShutdown
  ReadsFixedTables
  ShutdownReturns
  RequestsEnd
  EngineFound
