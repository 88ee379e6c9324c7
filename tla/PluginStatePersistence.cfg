SPECIFICATION FairSpec
CONSTANTS
  Files = {f1, f2}
  Interval = 1
  MaxRevisions = 3
  MaxTime = 2
  MaxFailures = 1
  MaxFlushes = 1
INVARIANTS
  EarlyWritesArePaid
PROPERTIES
  ImplementsStore
  FlushSettles
  AcceptedIsWritten
  ForcedIsWritten
  FlushEnds
