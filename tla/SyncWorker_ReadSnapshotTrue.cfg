\* Queries and a restart; ReadSnapshotTrue is expected to be violated.
CONSTANTS
  Slots = {s1}
  NoWorker = NoWorker
  Calls = {c1}
  Kinds = {"readable"}
  MaxChanges = 0
  ReadsMayFail = FALSE
SPECIFICATION Spec
INVARIANTS ReadSnapshotTrue
