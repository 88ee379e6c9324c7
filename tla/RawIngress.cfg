SPECIFICATION FairSpec
CONSTANTS
  p1 = p1
  p2 = p2
  Playbacks = {p1, p2}
  NoPlayback = NoPlayback
  MaxOperations = 3
  MaxGenerations = 2
  MaxMutations = 1
  MaxFrames = 5
CHECK_DEADLOCK FALSE
INVARIANTS
  QueueHasDrainer
  EndedConnectionIsLeft
  RetainsMatch
PROPERTIES
  ImplementsInputOrder
  OperationsEnd
  PlaybacksSettle
