------------------------------ MODULE Approval ------------------------------
(***************************************************************************)
(* The approval service: rows of pending_operations in Postgres, the HTTP  *)
(* handlers that view, approve and reject them (internal/approval), the    *)
(* execution of an approved operation against Airtable, and the loop that  *)
(* expires rows and recovers interrupted executions.                       *)
(*                                                                         *)
(* Every handler is a sequence of database statements; between two of them *)
(* anything else may run, the clock may advance, the client may go away,   *)
(* Postgres may fail and the process may die.  A request is therefore one  *)
(* element of Requests with a program counter, and every action is one     *)
(* statement or one external call of the code.                             *)
(*                                                                         *)
(* Record and schema mutations share this model: execute (service.go)      *)
(* sends batches of at most ten records, executeSchema (schema.go) sends   *)
(* one schema operation per call; both go through a fixed list of calls    *)
(* and stop at the first that fails.  Times are in abstract units.         *)
(***************************************************************************)
EXTENDS Integers, Sequences

CONSTANTS
  Ops,          \* identifiers of pending operations
  Requests,     \* slots for concurrently served HTTP requests
  Batches,      \* Batches[o]: number of Airtable write calls operation o needs
  ApprovalTTL,  \* APPROVAL_TTL_MINUTES
  ExecTimeout,  \* executeCriticalTimeout
  StaleWindow,  \* staleExecutingWindow
  ClaimLag,     \* longest time from the expiry check of an approval to the
                \* start of its execution: a few statements, no external call
  LastPrepare   \* bound: no operation is prepared after this time

ASSUME OpsAssumption == Ops # {} /\ Batches \in [Ops -> Nat \ {0}]

ASSUME TimingAssumption ==
  /\ ApprovalTTL \in Nat /\ ExecTimeout \in Nat /\ StaleWindow \in Nat
  /\ ClaimLag \in Nat /\ LastPrepare \in Nat
  /\ ClaimLag + ExecTimeout <= StaleWindow

VARIABLES
  (* pending_operations, in Postgres *)
  status,     \* status[o], "none" before the row exists
  expiresAt,  \* expires_at
  result,     \* completed batches in result_ciphertext, NoResult when null
  (* the server process *)
  now,        \* the server's clock
  pc,         \* pc[r]: the next statement of request r
  kind,       \* what r serves: "view", "approve" or "reject"
  target,     \* the operation r is about
  since,      \* time of r's expiry check, later of the start of its execution
  batch,      \* number of the batch r's execution sends next
  loopPc,     \* the next statement of RunExpiryLoop
  (* Airtable, and what happened there *)
  sent,       \* history: batches of o sent to Airtable, in order
  inflight,   \* <<o, b>>: sent, the caller gave up, Airtable has not decided
  applied     \* applied[o]: batches that changed the base

rowVars == <<status, expiresAt, result>>
reqVars == <<pc, kind, target, since, batch>>
airVars == <<sent, inflight, applied>>
vars == <<rowVars, reqVars, airVars, now, loopPc>>

NoResult == -1
Unresolved == {"pending_approval", "executing"}
Resolved == {"completed", "partially_completed", "failed", "rejected", "expired"}
Statuses == {"none"} \cup Unresolved \cup Resolved
Kinds == {"view", "approve", "reject"}

(* A request that owns the execution of its operation. *)
Executing == {"begin", "exec", "record"}
PCs == {"idle", "read", "check", "expire", "claim", "reject"} \cup Executing

(* The operation named by a request slot that serves nobody. *)
AnyOp == CHOOSE o \in Ops : TRUE

(* Bound on the clock: the last row expires and can still be recovered. *)
MaxTime == LastPrepare + ApprovalTTL + StaleWindow + 1

TypeOK ==
  /\ status \in [Ops -> Statuses]
  /\ expiresAt \in [Ops -> Nat]
  /\ result \in [Ops -> Nat \cup {NoResult}]
  /\ now \in Nat
  /\ pc \in [Requests -> PCs]
  /\ kind \in [Requests -> Kinds]
  /\ target \in [Requests -> Ops]
  /\ since \in [Requests -> Nat]
  /\ batch \in [Requests -> Nat \ {0}]
  /\ loopPc \in {"expire", "recover"}
  /\ sent \in [Ops -> Seq(Nat)]
  /\ inflight \subseteq Ops \X Nat
  /\ applied \in [Ops -> SUBSET Nat]

Init ==
  /\ status = [o \in Ops |-> "none"]
  /\ expiresAt = [o \in Ops |-> 0]
  /\ result = [o \in Ops |-> NoResult]
  /\ now = 0
  /\ pc = [r \in Requests |-> "idle"]
  /\ kind = [r \in Requests |-> "view"]
  /\ target = [r \in Requests |-> AnyOp]
  /\ since = [r \in Requests |-> 0]
  /\ batch = [r \in Requests |-> 1]
  /\ loopPc = "expire"
  /\ sent = [o \in Ops |-> <<>>]
  /\ inflight = {}
  /\ applied = [o \in Ops |-> {}]

-----------------------------------------------------------------------------
(* Control flow of a handler *)

Goto(r, label) == pc' = [pc EXCEPT ![r] = label]

(* A freed slot whose batches count from zero. *)
ReturnCountingFromZero(r) ==
  /\ pc' = [pc EXCEPT ![r] = "idle"]
  /\ kind' = [kind EXCEPT ![r] = "view"]
  /\ target' = [target EXCEPT ![r] = AnyOp]
  /\ since' = [since EXCEPT ![r] = 0]
  /\ batch' = [batch EXCEPT ![r] = 0]

(* The handler answers (with a view or an error) and its slot is free. *)
Return(r) ==
  /\ pc' = [pc EXCEPT ![r] = "idle"]
  /\ kind' = [kind EXCEPT ![r] = "view"]
  /\ target' = [target EXCEPT ![r] = AnyOp]
  /\ since' = [since EXCEPT ![r] = 0]
  /\ batch' = [batch EXCEPT ![r] = 1]

(* Approve and Reject end in GetOperation, whatever they did before.       *)
ReturnView(r) ==
  /\ pc' = [pc EXCEPT ![r] = "read"]
  /\ kind' = [kind EXCEPT ![r] = "view"]
  /\ since' = [since EXCEPT ![r] = 0]
  /\ batch' = [batch EXCEPT ![r] = 1]
  /\ UNCHANGED target

(* UpdatePendingOperationStatus: the row is overwritten whatever it held.  *)
UpdateStatus(o, s, completed) ==
  /\ status' = [status EXCEPT ![o] = s]
  /\ result' = [result EXCEPT ![o] = completed]
  /\ UNCHANGED expiresAt

-----------------------------------------------------------------------------
(* The operation is created; GET /api/operations/{id}, POST approve, POST  *)
(* reject.                                                                 *)

(* PrepareMutation / PrepareSchemaMutation store the row. *)
Prepare(o) ==
  /\ status[o] = "none"
  /\ now <= LastPrepare
  /\ status' = [status EXCEPT ![o] = "pending_approval"]
  /\ expiresAt' = [expiresAt EXCEPT ![o] = now + ApprovalTTL]
  /\ UNCHANGED <<result, reqVars, airVars, now, loopPc>>

Receive(r, k, o) ==
  /\ pc[r] = "idle"
  /\ status[o] # "none"
  /\ pc' = [pc EXCEPT ![r] = "read"]
  /\ kind' = [kind EXCEPT ![r] = k]
  /\ target' = [target EXCEPT ![r] = o]
  /\ UNCHANGED <<rowVars, airVars, since, batch, now, loopPc>>

(* GetPendingOperation.  A row that is not pending is only shown. *)
Read(r) ==
  /\ pc[r] = "read"
  /\ \/ /\ status[target[r]] = "pending_approval"
        /\ Goto(r, "check")
        /\ UNCHANGED <<kind, target, since, batch>>
     \/ /\ status[target[r]] # "pending_approval"
        /\ kind[r] = "view"
        /\ Return(r)
     \/ /\ status[target[r]] # "pending_approval"
        /\ kind[r] # "view"
        /\ ReturnView(r)
  /\ UNCHANGED <<rowVars, airVars, now, loopPc>>

(* s.now().After(operation.ExpiresAt), on the row as it was read. *)
Check(r) ==
  /\ pc[r] = "check"
  /\ \/ /\ now > expiresAt[target[r]]
        /\ Goto(r, "expire")
        /\ UNCHANGED <<kind, target, since, batch>>
     \/ /\ now <= expiresAt[target[r]]
        /\ kind[r] = "view"
        /\ Return(r)
     \/ /\ now <= expiresAt[target[r]]
        /\ kind[r] = "approve"
        /\ Goto(r, "claim")
        /\ since' = [since EXCEPT ![r] = now]
        /\ UNCHANGED <<kind, target, batch>>
     \/ /\ now <= expiresAt[target[r]]
        /\ kind[r] = "reject"
        /\ Goto(r, "reject")
        /\ UNCHANGED <<kind, target, since, batch>>
  /\ UNCHANGED <<rowVars, airVars, now, loopPc>>

(* expireOperation.  GetOperation answers with what it reads next, the     *)
(* other two go on to GetOperation; the reply may be lost.                 *)
Expire(r) ==
  /\ pc[r] = "expire"
  /\ UpdateStatus(target[r], "expired", NoResult)
  /\ \/ Return(r)
     \/ kind[r] # "view" /\ ReturnView(r)
  /\ UNCHANGED <<airVars, now, loopPc>>

(* The write of Reject; the reply may be lost. *)
RejectOperation(r) ==
  /\ pc[r] = "reject"
  /\ UpdateStatus(target[r], "rejected", NoResult)
  /\ Return(r) \/ ReturnView(r)
  /\ UNCHANGED <<airVars, now, loopPc>>

(* A plain UPDATE in place of the compare-and-swap. *)
ClaimUnguarded(r) ==
  /\ pc[r] = "claim"
  /\ status' = [status EXCEPT ![target[r]] = "executing"]
  /\ Goto(r, "begin")
  /\ UNCHANGED <<kind, target, since, batch>>
  /\ UNCHANGED <<expiresAt, result, airVars, now, loopPc>>

(* TransitionPendingOperationStatus: one approval moves the row to         *)
(* executing, the others show it.  When the reply is lost the row is       *)
(* executing and nobody executes it.                                       *)
Claim(r) ==
  /\ pc[r] = "claim"
  /\ \/ /\ status[target[r]] = "pending_approval"
        /\ status' = [status EXCEPT ![target[r]] = "executing"]
        /\ \/ Goto(r, "begin") /\ UNCHANGED <<kind, target, since, batch>>
           \/ Return(r)
     \/ /\ status[target[r]] # "pending_approval"
        /\ ReturnView(r)
        /\ UNCHANGED status
  /\ UNCHANGED <<expiresAt, result, airVars, now, loopPc>>

(* A statement fails without effect (the database is away, the client      *)
(* disconnected, the payload cannot be decrypted, execCtx ran out before   *)
(* the status was written): the handler answers with an error.             *)
Fail(r) ==
  /\ pc[r] \in {"read", "expire", "claim", "reject", "begin", "record"}
  /\ Return(r)
  /\ UNCHANGED <<rowVars, airVars, now, loopPc>>

-----------------------------------------------------------------------------
(* Execution by the request that won the claim: execute, executeSchema *)

Deadline(r) == since[r] + ExecTimeout

(* execCtx: detached from the client, bounded by executeCriticalTimeout. *)
BeginExecution(r) ==
  /\ pc[r] = "begin"
  /\ Goto(r, "exec")
  /\ since' = [since EXCEPT ![r] = now]
  /\ UNCHANGED <<kind, target, batch, rowVars, airVars, now, loopPc>>

(* The loop goes on to the next batch when one fails. *)
SendBatchAndGoOn(r) ==
  LET o == target[r]
      b == batch[r]
  IN
  /\ pc[r] = "exec"
  /\ now < Deadline(r)
  /\ sent' = [sent EXCEPT ![o] = Append(@, b)]
  /\ \/ applied' = [applied EXCEPT ![o] = @ \cup {b}]
     \/ UNCHANGED applied
  /\ batch' = [batch EXCEPT ![r] = b + 1]
  /\ Goto(r, IF b = Batches[o] THEN "record" ELSE "exec")
  /\ UNCHANGED <<rowVars, kind, target, since, inflight, now, loopPc>>

(* One call of the record or meta API.  Airtable performs it and the reply *)
(* arrives; or refuses it; or the caller gives up on it and Airtable will  *)
(* still decide.  A throttled attempt (429) performs nothing and is        *)
(* repeated inside the call.                                               *)
SendBatch(r) ==
  LET o == target[r]
      b == batch[r]
  IN
  /\ pc[r] = "exec"
  /\ now < Deadline(r)
  /\ sent' = [sent EXCEPT ![o] = Append(@, b)]
  /\ \/ /\ applied' = [applied EXCEPT ![o] = @ \cup {b}]
        /\ batch' = [batch EXCEPT ![r] = b + 1]
        /\ Goto(r, IF b = Batches[o] THEN "record" ELSE "exec")
        /\ UNCHANGED inflight
     \/ /\ Goto(r, "record")
        /\ inflight' \in {inflight, inflight \cup {<<o, b>>}}
        /\ UNCHANGED <<applied, batch>>
  /\ UNCHANGED <<rowVars, kind, target, since, now, loopPc>>

(* No access token, or the call fails before it reaches Airtable, as every *)
(* call does once execCtx is done.                                         *)
CallFails(r) ==
  /\ pc[r] = "exec"
  /\ Goto(r, "record")
  /\ UNCHANGED <<rowVars, airVars, kind, target, since, batch, now, loopPc>>

(* The status execute returns: batch[r] is beyond the last batch exactly   *)
(* when none failed.                                                       *)
Outcome(r) ==
  IF batch[r] > Batches[target[r]] THEN "completed"
  ELSE IF batch[r] = 1 THEN "failed"
  ELSE "partially_completed"

(* The terminal write, under execCtx, then TriggerSync and GetOperation;   *)
(* the reply may be lost.                                                  *)
Record(r) ==
  /\ pc[r] = "record"
  /\ now < Deadline(r)
  /\ UpdateStatus(target[r], Outcome(r), batch[r] - 1)
  /\ Return(r) \/ ReturnView(r)
  /\ UNCHANGED <<airVars, now, loopPc>>

-----------------------------------------------------------------------------
(* RunExpiryLoop: on each tick one statement, then the other unless the    *)
(* first one fails.                                                        *)

(* ExpirePendingOperations. *)
SweepExpired ==
  /\ loopPc = "expire"
  /\ status' = [o \in Ops |->
                  IF status[o] = "pending_approval" /\ expiresAt[o] < now
                  THEN "expired" ELSE status[o]]
  /\ loopPc' = "recover"
  /\ UNCHANGED <<expiresAt, result, reqVars, airVars, now>>

(* Recovery as soon as the row has expired. *)
SweepStaleAtExpiry ==
  /\ loopPc = "recover"
  /\ status' = [o \in Ops |->
                  IF status[o] = "executing" /\ expiresAt[o] < now
                  THEN "failed" ELSE status[o]]
  /\ loopPc' = "expire"
  /\ UNCHANGED <<expiresAt, result, reqVars, airVars, now>>

(* Recovery with the comparison the wrong way round. *)
SweepStaleSwapped ==
  /\ loopPc = "recover"
  /\ status' = [o \in Ops |->
                  IF status[o] = "executing" /\ now + StaleWindow < expiresAt[o]
                  THEN "failed" ELSE status[o]]
  /\ loopPc' = "expire"
  /\ UNCHANGED <<expiresAt, result, reqVars, airVars, now>>

(* Recovery that offers the operation for approval again. *)
SweepStaleReopens ==
  /\ loopPc = "recover"
  /\ status' = [o \in Ops |->
                  IF status[o] = "executing" /\ expiresAt[o] < now - StaleWindow
                  THEN "pending_approval" ELSE status[o]]
  /\ loopPc' = "expire"
  /\ UNCHANGED <<expiresAt, result, reqVars, airVars, now>>

(* RecoverStaleExecutingOperations with cutoff now - staleExecutingWindow. *)
SweepStale ==
  /\ loopPc = "recover"
  /\ status' = [o \in Ops |->
                  IF status[o] = "executing" /\ expiresAt[o] < now - StaleWindow
                  THEN "failed" ELSE status[o]]
  /\ loopPc' = "expire"
  /\ UNCHANGED <<expiresAt, result, reqVars, airVars, now>>

(* The statement fails: back to waiting for the next tick. *)
SweepFails ==
  /\ loopPc = "recover"
  /\ loopPc' = "expire"
  /\ UNCHANGED <<rowVars, reqVars, airVars, now>>

-----------------------------------------------------------------------------
(* The environment *)

(* Airtable performs or drops a request whose caller gave up. *)
Decide(o, b) ==
  /\ <<o, b>> \in inflight
  /\ inflight' = inflight \ {<<o, b>>}
  /\ applied' \in {applied, [applied EXCEPT ![o] = @ \cup {b}]}
  /\ UNCHANGED <<rowVars, reqVars, sent, now, loopPc>>

(* Time passes.  Between an approval's expiry check and the start of its   *)
(* execution at most ClaimLag passes.                                      *)
Tick ==
  /\ now < MaxTime
  /\ \A r \in Requests : pc[r] \in {"claim", "begin"} => now < since[r] + ClaimLag
  /\ now' = now + 1
  /\ UNCHANGED <<rowVars, reqVars, airVars, loopPc>>

(* The process dies and is started again: requests and loop are lost. *)
Crash ==
  /\ pc' = [r \in Requests |-> "idle"]
  /\ kind' = [r \in Requests |-> "view"]
  /\ target' = [r \in Requests |-> AnyOp]
  /\ since' = [r \in Requests |-> 0]
  /\ batch' = [r \in Requests |-> 1]
  /\ loopPc' = "expire"
  /\ UNCHANGED <<rowVars, airVars, now>>

Step(r) ==
  \/ Read(r) \/ Check(r) \/ Expire(r) \/ RejectOperation(r) \/ Claim(r)
  \/ BeginExecution(r) \/ SendBatch(r) \/ CallFails(r) \/ Record(r)
  \/ Fail(r)

Next ==
  \/ \E o \in Ops : Prepare(o)
  \/ \E r \in Requests, k \in Kinds, o \in Ops : Receive(r, k, o)
  \/ \E r \in Requests : Step(r)
  \/ SweepExpired \/ SweepStale \/ SweepFails
  \/ \E o \in Ops : \E b \in 1..Batches[o] : Decide(o, b)
  \/ Tick
  \/ Crash

Spec == Init /\ [][Next]_vars

(* A request that has been started goes on, the clock advances, and the    *)
(* two statements of the loop cannot fail for ever.                        *)
Fairness ==
  /\ \A r \in Requests : WF_vars(Step(r))
  /\ WF_vars(Tick)
  /\ SF_vars(SweepExpired)
  /\ SF_vars(SweepStale)

FairSpec == Spec /\ Fairness

-----------------------------------------------------------------------------
(* Properties *)

(* At-most-once execution: whatever approvals, rejections, expirations,    *)
(* recoveries, crashes and lost replies do, the batches of an operation    *)
(* are sent one after the other, none twice and none skipped (the compare- *)
(* and-swap of Approve and the loop of execute).                           *)
SendsInOrder ==
  \A o \in Ops :
    /\ Len(sent[o]) <= Batches[o]
    /\ \A i \in 1..Len(sent[o]) : sent[o][i] = i

(* The outcome shown to the user is true: when a result is recorded the    *)
(* batches it counts did change the base, nothing after the first failed   *)
(* batch was sent, "completed" means all of them and "partially_completed" *)
(* some (execute and UpdatePendingOperationStatus against what Airtable    *)
(* did).                                                                   *)
RecordedResultIsTrue ==
  \A o \in Ops : result[o] # NoResult =>
    /\ 1..result[o] \subseteq applied[o]
    /\ Len(sent[o]) <= result[o] + 1
    /\ status[o] = "completed" => result[o] = Batches[o]
    /\ status[o] = "partially_completed" => result[o] \in 1..(Batches[o] - 1)

(* Request r owns an execution that may still write to Airtable. *)
InFlight(r) ==
  \/ pc[r] = "begin"
  \/ pc[r] \in {"exec", "record"} /\ now < Deadline(r)

(* "It must stay comfortably larger than executeCriticalTimeout so an      *)
(* in-flight execution is never reaped" (staleExecutingWindow): recovery   *)
(* never marks as failed an operation whose execution is still alive.      *)
InFlightNeverReaped ==
  \A r \in Requests : InFlight(r) => status[target[r]] # "failed"

(* No operation stays pending or executing for ever: expiry and recovery   *)
(* resolve what crashes, lost replies and timeouts leave behind, and what  *)
(* is resolved is not reopened.                                            *)
EveryOperationResolves ==
  \A o \in Ops : <>[](status[o] \notin Unresolved)

(* Where operation o is in its life: it runs while a request executes it,  *)
(* whatever the status column says meanwhile.                              *)
PhaseOf(o) ==
  IF status[o] = "none" THEN "absent"
  ELSE IF status[o] = "pending_approval" THEN "open"
  ELSE IF \E r \in Requests : pc[r] \in Executing /\ target[r] = o THEN "running"
  ELSE "over"

Lifecycle == INSTANCE OperationLifecycle
               WITH phase <- [o \in Ops |-> PhaseOf(o)], writes <- sent

(* The approval service implements the lifecycle: one claim per operation, *)
(* writes only during the execution it starts, no operation starts again.  *)
ImplementsLifecycle == Lifecycle!LifecycleSpec

-----------------------------------------------------------------------------
(* The inductive invariant behind the three properties above *)

Owns(r, o) == pc[r] \in Executing /\ target[r] = o

(* A request is about a stored row; at most one request executes an        *)
(* operation, and only after the operation has left pending_approval.      *)
OwnershipInv ==
  /\ \A r \in Requests : pc[r] # "idle" => status[target[r]] # "none"
  /\ \A r \in Requests : pc[r] \in Executing => status[target[r]] # "pending_approval"
  /\ \A r, s \in Requests :
       pc[r] \in Executing /\ pc[s] \in Executing /\ target[r] = target[s] => r = s

(* What has been sent follows from where the execution is. *)
ProgressInv ==
  /\ \A o \in Ops : status[o] \in {"none", "pending_approval"} => sent[o] = <<>>
  /\ \A r \in Requests : pc[r] \notin {"exec", "record"} => batch[r] = 1
  /\ \A r \in Requests : pc[r] = "begin" => sent[target[r]] = <<>>
  /\ \A r \in Requests : pc[r] = "exec" =>
       Len(sent[target[r]]) = batch[r] - 1 /\ batch[r] <= Batches[target[r]]
  /\ \A r \in Requests : pc[r] = "record" =>
       Len(sent[target[r]]) <= batch[r] /\ batch[r] <= Batches[target[r]] + 1
  /\ \A r \in Requests : pc[r] \in Executing =>
       1..(batch[r] - 1) \subseteq applied[target[r]]

(* A result is recorded when the execution is over. *)
ResultInv ==
  \A o \in Ops : result[o] # NoResult =>
    /\ status[o] \notin {"none", "pending_approval"}
    /\ \A r \in Requests : ~Owns(r, o)

(* An approval passes from its expiry check to its deadline in time. *)
TimingInv ==
  /\ \A r \in Requests : pc[r] \in {"claim", "begin"} =>
       since[r] <= expiresAt[target[r]] /\ now <= since[r] + ClaimLag
  /\ \A r \in Requests : pc[r] \in {"exec", "record"} =>
       since[r] <= expiresAt[target[r]] + ClaimLag

(* The properties above with what makes them inductive. *)
ApprovalInv ==
  /\ OwnershipInv /\ ProgressInv /\ ResultInv /\ TimingInv
  /\ SendsInOrder /\ RecordedResultIsTrue /\ InFlightNeverReaped

-----------------------------------------------------------------------------
(* What the documents and comments say and the code does not keep to *)

(* SPEC.md on an operation that is rejected, or expires with no action:    *)
(* "No changes made".                                                      *)
NoApprovalNoChanges ==
  \A o \in Ops : status[o] \in {"rejected", "expired"} => applied[o] = {}
=============================================================================
