SPECIFICATION FairSpec
CONSTANTS
  owner = owner
  other = other
  Threads <- MCThreads
  Owner = owner
  NoThread = none
  MaxBatches = 4
PROPERTIES
  ShutdownSettlesAll
  ImplementsJournal
CHECK_DEADLOCK FALSE
