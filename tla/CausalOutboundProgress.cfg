SPECIFICATION FairSpec
CONSTANTS
  A = A  B = B  C = C  a = a  b = b  c = c  r = r  s = s
  None = None
  Op = {A, B}
  Bare = {}
  Tx = {a, b, r}
  Command = {a, b}
  Priority = {}
  MaxEpoch = 1
  MaxCommands = 2
  Overlap = TRUE
  PacketDebug = TRUE
  Observed = TRUE
CHECK_DEADLOCK FALSE
PROPERTIES
  ClosingEnds
  CommandsSettle
