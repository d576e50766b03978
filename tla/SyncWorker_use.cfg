\* One call after another, of all six kinds, while the base changes and reads of sync_info fail.
CONSTANTS
  Slots = {s1}
  NoWorker = NoWorker
  Calls = {c1}
  Kinds = {"readable", "mutate", "sampled", "ready", "sync", "trigger"}
  MaxChanges = 1
  ReadsMayFail = TRUE
SPECIFICATION FairSpec
INVARIANTS TypeOK FollowUpNotLost
PROPERTIES SnapshotKept EventuallyFresh EvictedWhenIdle
