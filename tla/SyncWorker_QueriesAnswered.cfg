\* A query that waits for a worker that has gone; QueriesAnswered is expected to be violated.
CONSTANTS
  Slots = {s1}
  NoWorker = NoWorker
  Calls = {c1}
  Kinds = {"readable"}
  MaxChanges = 0
  ReadsMayFail = FALSE
SPECIFICATION FairSpec
PROPERTIES QueriesAnswered
