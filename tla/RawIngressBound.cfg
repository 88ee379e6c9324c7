SPECIFICATION Spec
CONSTANTS
  p1 = p1
  p2 = p2
  Playbacks = {p1, p2}
  NoPlayback = NoPlayback
  MaxOperations = 2
  MaxGenerations = 2
  MaxMutations = 2
  MaxFrames = 0
CHECK_DEADLOCK FALSE
INVARIANTS
  CompletionArrives
