\* Three tables, two goroutines, a reader and a disk that may fail.
CONSTANTS
  NTables = 3
  Pages <- MixedPages
  MaxParallel = 2
  Readers = {r1}
  DiskMayFail = TRUE
SPECIFICATION FairSpec
INVARIANTS TypeOK OneHandPerTable CompleteHasAllPages
PROPERTIES RunEnds ImplementsSnapshotRun
