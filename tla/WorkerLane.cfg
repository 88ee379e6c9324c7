SPECIFICATION FairSpec
CONSTANTS
  MaxRequests = 2
  MaxBridgeCalls = 2
  MaxForeign = 2
  MaxExpired = 1
INVARIANTS
  QueueHasPump
  SettledOnce
  NoOrphans
  QuietAtTheEnd
PROPERTIES
  SyncReturnsEventually
  ShutdownEnds
