SPECIFICATION FairSpec
CONSTANT MaxTickets = 4
INVARIANTS
  OneDriver
PROPERTIES
  ResolvedIsDelivered
  ImplementsOrder
CHECK_DEADLOCK FALSE
