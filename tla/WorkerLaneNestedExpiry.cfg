SPECIFICATION FairSpec
CONSTANTS
  MaxRequests = 3
  MaxBridgeCalls = 1
  MaxForeign = 1
  MaxExpired = 1
PROPERTIES
  SyncReturnsEventually
CHECK_DEADLOCK FALSE
