SPECIFICATION Spec
CONSTANTS
  A = A  B = B  C = C  a = a  b = b  c = c  r = r  s = s
  None = None
  Op = {A, B, C}
  Bare = {C}
  Tx = {a, b, r}
  Command = {a, b}
  Priority = {b}
  MaxEpoch = 2
  MaxCommands = 2
  Overlap = TRUE
  PacketDebug = FALSE
  Observed = FALSE
CHECK_DEADLOCK FALSE
INVARIANTS
  CausalOrder
  OwnOrder
  OwnConnection
  ClosesAfterFlush
  NoReadyGroupWaits
SYMMETRY Perms
