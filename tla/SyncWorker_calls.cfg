\* Two concurrent calls, two worker objects: who creates, touches, waits for and outlives a worker; reads of sync_info may fail.
CONSTANTS
  Slots = {s1, s2}
  NoWorker = NoWorker
  Calls = {c1, c2}
  Kinds = {"mutate", "sync"}
  MaxChanges = 0
  ReadsMayFail = TRUE
SPECIFICATION Spec
SYMMETRY Symmetry
INVARIANTS OneWorker ReadableHasFile
