SPECIFICATION FairSocketSpec
CONSTANTS
  MaxLines = 2
  MaxChunks = 3
  MaxDepth = 2
CHECK_DEADLOCK FALSE
INVARIANTS
  InOrder
  PlainIsDue
PROPERTIES
  ReceivedIsHandedOver
  HandshakeSettles
