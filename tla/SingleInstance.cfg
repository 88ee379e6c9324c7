SPECIFICATION FairSpec
CONSTANTS
  a = a  b = b  c = c
  Proc = {a, b, c}
  None = None
  MaxReloads = 1
CHECK_DEADLOCK FALSE
INVARIANTS
  OneInstance
  OpenedOnceInOrder
PROPERTIES
  TakenIsOpened
