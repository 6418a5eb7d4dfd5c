SPECIFICATION ChatSpec
CONSTANT
  Handlers = {h1, h2}
SYMMETRY Symmetry
INVARIANTS
  NeverCallsNull
  NoSelfWait
  BroadcastDelivers
  LocatedOnce
  ChatStays
