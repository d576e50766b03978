\* A run whose deadline passes; TimeoutEndsRun is expected to be violated.
CONSTANTS
  NTables = 1
  Pages <- OnePage
  MaxParallel = 2
  Readers = {}
  DiskMayFail = FALSE
SPECIFICATION FairSpec
CHECK_DEADLOCK FALSE
PROPERTIES TimeoutEndsRun
