SPECIFICATION FairSpec
CONSTANTS
  MinWindowSize = 3
  MaxQueuedFilters = 2
  ReadSizes = {2}
  Archives <- MCArchives
INVARIANTS OutputExact EOFComplete WindowIsHistory
PROPERTY CallReturns
CHECK_DEADLOCK FALSE
