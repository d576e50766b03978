\* A decision after a crash; NoApprovalNoChanges is expected to be violated.
CONSTANTS
  Ops <- OneOp
  Batches <- TwoBatches
  Requests = {r1, r2}
  o1 = o1
  r1 = r1
  r2 = r2
  ApprovalTTL = 1
  ExecTimeout = 1
  ClaimLag = 1
  StaleWindow = 2
  LastPrepare = 0
SPECIFICATION Spec
INVARIANTS NoApprovalNoChanges
