\* One operation of two batches: two requests, the expiry loop and crashes race for it.
CONSTANTS
  Ops <- OneOp
  Batches <- TwoBatches
  Requests = {r1, r2}
  o1 = o1
  r1 = r1
  r2 = r2
  ApprovalTTL = 1
  ExecTimeout = 1
  ClaimLag = 1
  StaleWindow = 2
  LastPrepare = 1
SPECIFICATION FairSpec
INVARIANTS TypeOK SendsInOrder RecordedResultIsTrue InFlightNeverReaped
PROPERTIES ImplementsLifecycle EveryOperationResolves
