--------------------------- MODULE ApprovalProofs ---------------------------
(***************************************************************************)
(* Theorems about Approval, for any operations, requests, batch numbers    *)
(* and any timing that satisfies TimingAssumption.                         *)
(***************************************************************************)
EXTENDS Approval, TLAPS

LEMMA AnyOpIsOp == AnyOp \in Ops
BY OpsAssumption DEF AnyOp

-----------------------------------------------------------------------------
(* Type correctness, by groups of variables *)

RowType ==
  /\ status \in [Ops -> Statuses]
  /\ expiresAt \in [Ops -> Nat]
  /\ result \in [Ops -> Nat \cup {NoResult}]

ReqType ==
  /\ pc \in [Requests -> PCs]
  /\ kind \in [Requests -> Kinds]
  /\ target \in [Requests -> Ops]
  /\ since \in [Requests -> Nat]
  /\ batch \in [Requests -> Nat \ {0}]

AirType ==
  /\ sent \in [Ops -> Seq(Nat)]
  /\ inflight \subseteq Ops \X Nat
  /\ applied \in [Ops -> SUBSET Nat]

LEMMA TypeParts ==
  TypeOK <=> RowType /\ ReqType /\ AirType /\ now \in Nat /\ loopPc \in {"expire", "recover"}
BY DEF TypeOK, RowType, ReqType, AirType

LEMMA TypePartsNext ==
  RowType' /\ ReqType' /\ AirType' /\ now' \in Nat /\ loopPc' \in {"expire", "recover"}
    => TypeOK'
BY DEF TypeOK, RowType, ReqType, AirType

LEMMA GotoType ==
  ASSUME ReqType, NEW r \in Requests, NEW label \in PCs, Goto(r, label)
  PROVE  pc' \in [Requests -> PCs]
BY DEF ReqType, Goto

LEMMA ReturnType ==
  ASSUME ReqType, NEW r \in Requests, Return(r)
  PROVE  ReqType'
BY AnyOpIsOp DEF ReqType, Return, PCs, Kinds

LEMMA ReturnViewType ==
  ASSUME ReqType, NEW r \in Requests, ReturnView(r)
  PROVE  ReqType'
BY DEF ReqType, ReturnView, PCs, Kinds

LEMMA UpdateStatusType ==
  ASSUME RowType, NEW o \in Ops, NEW s \in Statuses, NEW n \in Nat \cup {NoResult},
         UpdateStatus(o, s, n)
  PROVE  RowType'
BY DEF RowType, UpdateStatus

LEMMA InitType == Init => TypeOK
BY AnyOpIsOp DEF Init, TypeOK, PCs, Kinds, Statuses

LEMMA SendBatchType ==
  ASSUME ReqType, AirType, NEW r \in Requests, SendBatch(r)
  PROVE  ReqType' /\ AirType'
<1> DEFINE o == target[r]
           b == batch[r]
<1>1. o \in Ops /\ b \in Nat \ {0} /\ b + 1 \in Nat \ {0} /\ b \in Nat
  BY DEF ReqType
<1>2. sent' \in [Ops -> Seq(Nat)]
  BY <1>1 DEF SendBatch, AirType
<1>3. CASE /\ applied' = [applied EXCEPT ![o] = @ \cup {b}]
           /\ batch' = [batch EXCEPT ![r] = b + 1]
           /\ Goto(r, IF b = Batches[o] THEN "record" ELSE "exec")
           /\ UNCHANGED inflight
  <2>1. applied' \in [Ops -> SUBSET Nat] /\ inflight' \subseteq Ops \X Nat
    BY <1>1, <1>3 DEF AirType
  <2>2. batch' \in [Requests -> Nat \ {0}]
    BY <1>1, <1>3 DEF ReqType
  <2>3. pc' \in [Requests -> PCs]
    BY <1>3, GotoType DEF PCs, Executing
  <2>4. UNCHANGED <<kind, target, since>>
    BY DEF SendBatch
  <2>. QED
    BY <1>2, <2>1, <2>2, <2>3, <2>4 DEF ReqType, AirType
<1>4. CASE /\ Goto(r, "record")
           /\ inflight' \in {inflight, inflight \cup {<<o, b>>}}
           /\ UNCHANGED <<applied, batch>>
  <2>1. <<o, b>> \in Ops \X Nat
    BY <1>1
  <2>2. inflight' \subseteq Ops \X Nat
    BY <1>4, <2>1 DEF AirType
  <2>3. pc' \in [Requests -> PCs]
    BY <1>4, GotoType DEF PCs, Executing
  <2>4. UNCHANGED <<kind, target, since, applied, batch>>
    BY <1>4 DEF SendBatch
  <2>. QED
    BY <1>2, <2>2, <2>3, <2>4 DEF ReqType, AirType
<1>. QED
  BY <1>3, <1>4 DEF SendBatch

LEMMA StepType ==
  ASSUME TypeOK, NEW r \in Requests, Step(r)
  PROVE  TypeOK'
<1> USE TypeParts, TypePartsNext
<1>1. CASE Read(r)
  <2>1. ReqType'
    BY <1>1, ReturnType, ReturnViewType, GotoType DEF Read, ReqType, PCs
  <2>. QED
    BY <1>1, <2>1 DEF Read, RowType, AirType, rowVars, airVars
<1>2. CASE Check(r)
  <2>1. ReqType'
    BY <1>2, ReturnType, GotoType DEF Check, ReqType, PCs
  <2>. QED
    BY <1>2, <2>1 DEF Check, RowType, AirType, rowVars, airVars
<1>3. CASE Expire(r)
  <2>1. RowType'
    BY <1>3, UpdateStatusType DEF Expire, ReqType, Statuses, Resolved
  <2>2. ReqType'
    BY <1>3, ReturnType, ReturnViewType DEF Expire
  <2>. QED
    BY <1>3, <2>1, <2>2 DEF Expire, AirType, airVars
<1>4. CASE RejectOperation(r)
  <2>1. RowType'
    BY <1>4, UpdateStatusType DEF RejectOperation, ReqType, Statuses, Resolved
  <2>2. ReqType'
    BY <1>4, ReturnType, ReturnViewType DEF RejectOperation
  <2>. QED
    BY <1>4, <2>1, <2>2 DEF RejectOperation, AirType, airVars
<1>5. CASE Claim(r)
  <2>1. RowType'
    BY <1>5 DEF Claim, RowType, ReqType, Statuses, Unresolved
  <2>2. ReqType'
    BY <1>5, ReturnType, ReturnViewType, GotoType DEF Claim, ReqType, PCs, Executing
  <2>. QED
    BY <1>5, <2>1, <2>2 DEF Claim, AirType, airVars
<1>6. CASE BeginExecution(r)
  <2>1. ReqType'
    BY <1>6, GotoType DEF BeginExecution, ReqType, PCs, Executing
  <2>. QED
    BY <1>6, <2>1 DEF BeginExecution, RowType, AirType, rowVars, airVars
<1>7. CASE SendBatch(r)
  BY <1>7, SendBatchType DEF SendBatch, RowType, rowVars
<1>8. CASE CallFails(r)
  <2>1. ReqType'
    BY <1>8, GotoType DEF CallFails, ReqType, PCs, Executing
  <2>. QED
    BY <1>8, <2>1 DEF CallFails, RowType, AirType, rowVars, airVars
<1>9. CASE Record(r)
  <2>1. Outcome(r) \in Statuses /\ batch[r] - 1 \in Nat
    BY DEF Outcome, Statuses, Resolved, ReqType
  <2>2. RowType'
    BY <1>9, <2>1, UpdateStatusType DEF Record, ReqType
  <2>3. ReqType'
    BY <1>9, ReturnType, ReturnViewType DEF Record
  <2>. QED
    BY <1>9, <2>2, <2>3 DEF Record, AirType, airVars
<1>10. CASE Fail(r)
  <2>1. ReqType'
    BY <1>10, ReturnType DEF Fail
  <2>. QED
    BY <1>10, <2>1 DEF Fail, RowType, AirType, rowVars, airVars
<1>. QED
  BY <1>1, <1>2, <1>3, <1>4, <1>5, <1>6, <1>7, <1>8, <1>9, <1>10 DEF Step

LEMMA NextType == TypeOK /\ [Next]_vars => TypeOK'
<1> SUFFICES ASSUME TypeOK, [Next]_vars PROVE TypeOK'
  OBVIOUS
<1> USE TypeParts, TypePartsNext
<1>1. ASSUME NEW o \in Ops, Prepare(o) PROVE TypeOK'
  <2>1. RowType'
    BY <1>1, TimingAssumption DEF Prepare, RowType, Statuses, Unresolved
  <2>. QED
    BY <1>1, <2>1 DEF Prepare, ReqType, AirType, reqVars, airVars
<1>2. ASSUME NEW r \in Requests, NEW k \in Kinds, NEW o \in Ops, Receive(r, k, o)
      PROVE TypeOK'
  <2>1. ReqType'
    BY <1>2 DEF Receive, ReqType, PCs
  <2>. QED
    BY <1>2, <2>1 DEF Receive, RowType, AirType, rowVars, airVars
<1>3. ASSUME NEW r \in Requests, Step(r) PROVE TypeOK'
  BY <1>3, StepType
<1>4. CASE SweepExpired \/ SweepStale \/ SweepFails
  <2>1. RowType'
    BY <1>4 DEF SweepExpired, SweepStale, SweepFails, RowType, rowVars, Statuses, Resolved
  <2>. QED
    BY <1>4, <2>1 DEF SweepExpired, SweepStale, SweepFails, ReqType, AirType, reqVars, airVars
<1>5. ASSUME NEW o \in Ops, NEW b \in 1..Batches[o], Decide(o, b) PROVE TypeOK'
  <2>1. b \in Nat
    BY OpsAssumption
  <2>2. AirType'
    <3>1. applied' = applied \/ applied' = [applied EXCEPT ![o] = @ \cup {b}]
      BY <1>5 DEF Decide
    <3>2. applied' \in [Ops -> SUBSET Nat]
      BY <2>1, <3>1 DEF AirType
    <3>. QED
      BY <1>5, <3>2 DEF Decide, AirType
  <2>. QED
    BY <1>5, <2>2 DEF Decide, RowType, ReqType, rowVars, reqVars
<1>6. CASE Tick
  BY <1>6 DEF Tick, RowType, ReqType, AirType, rowVars, reqVars, airVars
<1>7. CASE Crash
  <2>1. ReqType'
    BY <1>7, AnyOpIsOp DEF Crash, ReqType, PCs, Kinds
  <2>. QED
    BY <1>7, <2>1 DEF Crash, RowType, AirType, rowVars, airVars
<1>8. CASE UNCHANGED vars
  BY <1>8 DEF vars, RowType, ReqType, AirType, rowVars, reqVars, airVars
<1>. QED
  BY <1>1, <1>2, <1>3, <1>4, <1>5, <1>6, <1>7, <1>8 DEF Next

(* Type correctness of the approval service. *)
THEOREM TypeCorrect == Spec => []TypeOK
BY InitType, NextType, PTL DEF Spec

-----------------------------------------------------------------------------
(* One execution per operation *)

(* Requests that return, or go back to reading, own nothing. *)
LEMMA OwnershipOfOthers ==
  ASSUME TypeOK, OwnershipInv, NEW r \in Requests,
         pc[r] # "idle",
         Return(r) \/ ReturnView(r),
         \A o \in Ops : status'[o] # "none" \/ status[o] = "none",
         \A o \in Ops : status'[o] # "pending_approval" \/ status[o] = "pending_approval"
  PROVE  OwnershipInv'
<1>1. \A q \in Requests : q # r => pc'[q] = pc[q] /\ target'[q] = target[q]
  BY DEF TypeOK, Return, ReturnView
<1>2. pc'[r] = "idle" \/ (pc'[r] = "read" /\ target'[r] = target[r])
  BY DEF TypeOK, Return, ReturnView
<1>3. \A q \in Requests : target[q] \in Ops
  BY DEF TypeOK
<1>. QED
  BY <1>1, <1>2, <1>3 DEF OwnershipInv, Executing

(* So are requests that only move on without winning a claim. *)
LEMMA OwnershipOfMoving ==
  ASSUME TypeOK, OwnershipInv, NEW r \in Requests, NEW label \in PCs,
         pc[r] # "idle", Goto(r, label),
         label \in Executing => pc[r] \in Executing,
         UNCHANGED <<target, status>>
  PROVE  OwnershipInv'
<1>1. \A q \in Requests : pc'[q] = IF q = r THEN label ELSE pc[q]
  BY DEF TypeOK, Goto
<1>. QED
  BY <1>1 DEF OwnershipInv

LEMMA StepOwnership ==
  ASSUME TypeOK, OwnershipInv, NEW r \in Requests, Step(r)
  PROVE  OwnershipInv'
<1> USE DEF rowVars, airVars
<1>1. CASE Read(r)
  BY <1>1, OwnershipOfOthers, OwnershipOfMoving DEF Read, PCs, Executing
<1>2. CASE Check(r)
  BY <1>2, OwnershipOfOthers, OwnershipOfMoving DEF Check, PCs, Executing
<1>3. CASE Expire(r)
  <2>1. \A o \in Ops : status'[o] = status[o] \/ status'[o] = "expired"
    BY <1>3 DEF Expire, UpdateStatus, TypeOK
  <2>. QED
    BY <1>3, <2>1, OwnershipOfOthers DEF Expire
<1>4. CASE RejectOperation(r)
  <2>1. \A o \in Ops : status'[o] = status[o] \/ status'[o] = "rejected"
    BY <1>4 DEF RejectOperation, UpdateStatus, TypeOK
  <2>. QED
    BY <1>4, <2>1, OwnershipOfOthers DEF RejectOperation
<1>5. CASE Claim(r)
  <2>1. CASE status' = [status EXCEPT ![target[r]] = "executing"]
             /\ status[target[r]] = "pending_approval"
             /\ Goto(r, "begin") /\ UNCHANGED target
    <3>1. \A q \in Requests : pc'[q] = IF q = r THEN "begin" ELSE pc[q]
      BY <2>1 DEF Goto, TypeOK
    <3>2. \A o \in Ops : status'[o] = IF o = target[r] THEN "executing" ELSE status[o]
      BY <2>1 DEF TypeOK
    <3>3. \A q \in Requests : pc[q] \in Executing => target[q] # target[r]
      BY <2>1 DEF OwnershipInv
    <3>4. \A q \in Requests : target'[q] = target[q] /\ target[q] \in Ops
      BY <2>1 DEF TypeOK
    <3>. QED
      BY <3>1, <3>2, <3>3, <3>4 DEF OwnershipInv, Executing
  <2>2. CASE status' = [status EXCEPT ![target[r]] = "executing"]
             /\ status[target[r]] = "pending_approval" /\ Return(r)
    <3>1. \A o \in Ops : status'[o] = status[o] \/ status'[o] = "executing"
      BY <2>2 DEF TypeOK
    <3>. QED
      BY <1>5, <2>2, <3>1, OwnershipOfOthers DEF Claim
  <2>3. CASE ReturnView(r) /\ UNCHANGED status
    BY <1>5, <2>3, OwnershipOfOthers DEF Claim
  <2>. QED
    BY <1>5, <2>1, <2>2, <2>3 DEF Claim
<1>6. CASE BeginExecution(r)
  BY <1>6, OwnershipOfMoving DEF BeginExecution, PCs, Executing
<1>7. CASE SendBatch(r)
  <2>1. Goto(r, "record") \/ Goto(r, "exec")
    BY <1>7 DEF SendBatch
  <2>. QED
    BY <1>7, <2>1, OwnershipOfMoving DEF SendBatch, PCs, Executing
<1>8. CASE CallFails(r)
  BY <1>8, OwnershipOfMoving DEF CallFails, PCs, Executing
<1>9. CASE Record(r)
  <2>1. \A o \in Ops : status'[o] = status[o] \/ status'[o] \in Resolved
    BY <1>9 DEF Record, UpdateStatus, Outcome, Resolved, TypeOK
  <2>. QED
    BY <1>9, <2>1, OwnershipOfOthers DEF Record, Resolved
<1>10. CASE Fail(r)
  BY <1>10, OwnershipOfOthers DEF Fail
<1>. QED
  BY <1>1, <1>2, <1>3, <1>4, <1>5, <1>6, <1>7, <1>8, <1>9, <1>10 DEF Step

LEMMA NextOwnership == TypeOK /\ OwnershipInv /\ [Next]_vars => OwnershipInv'
<1> SUFFICES ASSUME TypeOK, OwnershipInv, [Next]_vars PROVE OwnershipInv'
  OBVIOUS
<1>1. ASSUME NEW o \in Ops, Prepare(o) PROVE OwnershipInv'
  <2>1. \A p \in Ops : status'[p] = IF p = o THEN "pending_approval" ELSE status[p]
    BY <1>1 DEF Prepare, TypeOK
  <2>2. \A r \in Requests : pc[r] # "idle" => target[r] # o
    BY <1>1 DEF Prepare, OwnershipInv
  <2>. QED
    BY <1>1, <2>1, <2>2 DEF Prepare, reqVars, OwnershipInv, TypeOK, Executing
<1>2. ASSUME NEW r \in Requests, NEW k \in Kinds, NEW o \in Ops, Receive(r, k, o)
      PROVE OwnershipInv'
  BY <1>2 DEF Receive, rowVars, OwnershipInv, TypeOK, Executing
<1>3. ASSUME NEW r \in Requests, Step(r) PROVE OwnershipInv'
  BY <1>3, StepOwnership
<1>4. CASE SweepExpired \/ SweepStale
  <2>1. \A o \in Ops : status'[o] = status[o] \/ status'[o] \in {"expired", "failed"}
    BY <1>4 DEF SweepExpired, SweepStale
  <2>. QED
    BY <1>4, <2>1 DEF SweepExpired, SweepStale, reqVars, OwnershipInv, TypeOK
<1>5. CASE Crash
  BY <1>5 DEF Crash, OwnershipInv, Executing
<1>6. CASE UNCHANGED <<status, pc, target>>
  BY <1>6 DEF OwnershipInv
<1>7. SweepFails \/ Tick \/ UNCHANGED vars \/ (\E o \in Ops : \E b \in 1..Batches[o] : Decide(o, b))
        => UNCHANGED <<status, pc, target>>
  BY DEF SweepFails, Tick, Decide, vars, rowVars, reqVars
<1>. QED
  BY <1>1, <1>2, <1>3, <1>4, <1>5, <1>6, <1>7 DEF Next

-----------------------------------------------------------------------------
(* What is sent follows the execution *)

LEMMA ProgressOfOthers ==
  ASSUME TypeOK, ProgressInv, NEW r \in Requests,
         Return(r) \/ ReturnView(r),
         UNCHANGED <<sent, applied>>,
         \A o \in Ops : status'[o] \in {"none", "pending_approval"} => status'[o] = status[o]
  PROVE  ProgressInv'
<1>1. \A q \in Requests : q # r =>
        pc'[q] = pc[q] /\ target'[q] = target[q] /\ batch'[q] = batch[q]
  BY DEF TypeOK, Return, ReturnView
<1>2. pc'[r] \notin Executing /\ batch'[r] = 1
  BY DEF TypeOK, Return, ReturnView, Executing
<1>. QED
  BY <1>1, <1>2 DEF ProgressInv, Executing

LEMMA ProgressOfMoving ==
  ASSUME TypeOK, ProgressInv, NEW r \in Requests, NEW label \in PCs \ Executing,
         pc[r] \notin Executing, Goto(r, label),
         UNCHANGED <<target, batch, status, sent, applied>>
  PROVE  ProgressInv'
<1>1. \A q \in Requests : pc'[q] = IF q = r THEN label ELSE pc[q]
  BY DEF TypeOK, Goto
<1>. QED
  BY <1>1 DEF ProgressInv, Executing

LEMMA SendBatchProgress ==
  ASSUME TypeOK, OwnershipInv, ProgressInv, SendsInOrder, NEW r \in Requests, SendBatch(r)
  PROVE  ProgressInv' /\ SendsInOrder'
<1> DEFINE o == target[r]
           b == batch[r]
<1>1. /\ o \in Ops /\ b \in Nat \ {0} /\ pc[r] = "exec" /\ sent[o] \in Seq(Nat)
      /\ Len(sent[o]) = b - 1 /\ b <= Batches[o] /\ Batches[o] \in Nat
  BY OpsAssumption DEF SendBatch, TypeOK, ProgressInv
<1>2. sent' = [sent EXCEPT ![o] = Append(sent[o], b)] /\ UNCHANGED <<status, target>>
  BY DEF SendBatch, rowVars
<1>3. /\ sent'[o] = Append(sent[o], b) /\ Len(sent'[o]) = b
      /\ \A i \in 1..(b - 1) : sent'[o][i] = sent[o][i]
      /\ sent'[o][b] = b
      /\ \A p \in Ops : p # o => sent'[p] = sent[p]
  BY <1>1, <1>2 DEF TypeOK
<1>4. \A i \in 1..b : i \in 1..(b - 1) \/ i = b
  BY <1>1
<1>5. SendsInOrder'
  BY <1>1, <1>3, <1>4 DEF SendsInOrder
<1>6. \A q \in Requests : q # r /\ pc[q] \in Executing => target[q] # o
  BY <1>1 DEF OwnershipInv, Executing
<1>7. \A p \in Ops : applied[p] \subseteq applied'[p]
  BY <1>1 DEF SendBatch, TypeOK
<1>8. \/ batch' = batch /\ pc' = [pc EXCEPT ![r] = "record"]
      \/ /\ batch' = [batch EXCEPT ![r] = b + 1]
         /\ b \in applied'[o]
         /\ pc' = [pc EXCEPT ![r] = IF b = Batches[o] THEN "record" ELSE "exec"]
  BY <1>1 DEF SendBatch, Goto, TypeOK
<1>9. \A q \in Requests : q # r => pc'[q] = pc[q] /\ batch'[q] = batch[q]
  BY <1>8 DEF TypeOK
<1>10. status[o] \notin {"none", "pending_approval"}
  BY <1>1 DEF OwnershipInv, Executing
<1>11. \/ batch'[r] = b /\ pc'[r] = "record"
       \/ /\ batch'[r] = b + 1
          /\ b \in applied'[o]
          /\ pc'[r] = IF b = Batches[o] THEN "record" ELSE "exec"
  BY <1>8 DEF TypeOK
<1>12. 1..(batch'[r] - 1) \subseteq applied'[o]
  BY <1>1, <1>4, <1>7, <1>11 DEF ProgressInv, Executing
<1>13. \A p \in Ops : status'[p] \in {"none", "pending_approval"} => sent'[p] = <<>>
  BY <1>1, <1>2, <1>3, <1>10 DEF ProgressInv
<1>14. \A q \in Requests : q # r /\ pc[q] \in Executing =>
         sent'[target[q]] = sent[target[q]] /\ applied[target[q]] \subseteq applied'[target[q]]
  BY <1>3, <1>6, <1>7 DEF TypeOK
<1>15. ASSUME NEW q \in Requests, q # r
       PROVE  /\ pc'[q] \notin {"exec", "record"} => batch'[q] = 1
              /\ pc'[q] = "begin" => sent'[target'[q]] = <<>>
              /\ pc'[q] = "exec" => Len(sent'[target'[q]]) = batch'[q] - 1
                                     /\ batch'[q] <= Batches[target'[q]]
              /\ pc'[q] = "record" => Len(sent'[target'[q]]) <= batch'[q]
                                       /\ batch'[q] <= Batches[target'[q]] + 1
              /\ pc'[q] \in Executing => 1..(batch'[q] - 1) \subseteq applied'[target'[q]]
  BY <1>2, <1>9, <1>14, <1>15 DEF ProgressInv, Executing
<1>16. /\ pc'[r] \in {"exec", "record"}
       /\ pc'[r] = "exec" => Len(sent'[o]) = batch'[r] - 1 /\ batch'[r] <= Batches[o]
       /\ pc'[r] = "record" => Len(sent'[o]) <= batch'[r] /\ batch'[r] <= Batches[o] + 1
  BY <1>1, <1>3, <1>11
<1>17. target' = target
  BY <1>2
<1>18. ProgressInv'
  BY <1>12, <1>13, <1>15, <1>16, <1>17 DEF ProgressInv
<1>. QED
  BY <1>5, <1>18

LEMMA StepProgress ==
  ASSUME TypeOK, OwnershipInv, ProgressInv, SendsInOrder, NEW r \in Requests, Step(r)
  PROVE  ProgressInv' /\ SendsInOrder'
<1>1. CASE SendBatch(r)
  BY <1>1, SendBatchProgress
<1>2. CASE UNCHANGED sent /\ ~SendBatch(r)
  <2>1. SendsInOrder'
    BY <1>2 DEF SendsInOrder
  <2> USE DEF rowVars, airVars
  <2>2. CASE Read(r)
    BY <2>1, <2>2, ProgressOfOthers, ProgressOfMoving DEF Read, PCs, Executing
  <2>3. CASE Check(r)
    BY <2>1, <2>3, ProgressOfOthers, ProgressOfMoving DEF Check, PCs, Executing
  <2>4. CASE Expire(r)
    <3>1. \A o \in Ops : status'[o] = status[o] \/ status'[o] = "expired"
      BY <2>4 DEF Expire, UpdateStatus, TypeOK
    <3>. QED
      BY <2>1, <2>4, <3>1, ProgressOfOthers DEF Expire
  <2>5. CASE RejectOperation(r)
    <3>1. \A o \in Ops : status'[o] = status[o] \/ status'[o] = "rejected"
      BY <2>5 DEF RejectOperation, UpdateStatus, TypeOK
    <3>. QED
      BY <2>1, <2>5, <3>1, ProgressOfOthers DEF RejectOperation
  <2>6. CASE Claim(r)
    <3>1. \A o \in Ops : status'[o] = status[o] \/ status'[o] = "executing"
      BY <2>6 DEF Claim, TypeOK
    <3>2. CASE Return(r) \/ ReturnView(r)
      BY <2>1, <2>6, <3>1, <3>2, ProgressOfOthers DEF Claim
    <3>3. CASE status[target[r]] = "pending_approval" /\ Goto(r, "begin") /\ UNCHANGED <<target, batch>>
      <4>1. \A q \in Requests : pc'[q] = IF q = r THEN "begin" ELSE pc[q]
        BY <3>3 DEF Goto, TypeOK
      <4>2. sent[target[r]] = <<>> /\ batch[r] = 1
        BY <2>6, <3>3 DEF Claim, ProgressInv, TypeOK
      <4>. QED
        BY <2>1, <2>6, <3>1, <3>3, <4>1, <4>2 DEF Claim, ProgressInv, Executing
    <3>. QED
      BY <2>6, <3>2, <3>3 DEF Claim
  <2>7. CASE BeginExecution(r)
    <3>1. \A q \in Requests : pc'[q] = IF q = r THEN "exec" ELSE pc[q]
      BY <2>7 DEF BeginExecution, Goto, TypeOK
    <3>2. sent[target[r]] = <<>> /\ batch[r] = 1 /\ Batches[target[r]] \in Nat \ {0}
      BY <2>7, OpsAssumption DEF BeginExecution, ProgressInv, TypeOK
    <3>. QED
      BY <2>1, <2>7, <3>1, <3>2 DEF BeginExecution, ProgressInv, Executing
  <2>8. CASE CallFails(r)
    <3>1. \A q \in Requests : pc'[q] = IF q = r THEN "record" ELSE pc[q]
      BY <2>8 DEF CallFails, Goto, TypeOK
    <3>2. /\ Len(sent[target[r]]) = batch[r] - 1 /\ batch[r] <= Batches[target[r]]
          /\ batch[r] \in Nat /\ Batches[target[r]] \in Nat
      BY <2>8, OpsAssumption DEF CallFails, ProgressInv, TypeOK
    <3>. QED
      BY <2>1, <2>8, <3>1, <3>2 DEF CallFails, ProgressInv, Executing
  <2>9. CASE Record(r)
    <3>1. \A o \in Ops : status'[o] = status[o] \/ status'[o] \in Resolved
      BY <2>9 DEF Record, UpdateStatus, Outcome, Resolved, TypeOK
    <3>. QED
      BY <2>1, <2>9, <3>1, ProgressOfOthers DEF Record, Resolved
  <2>10. CASE Fail(r)
    BY <2>1, <2>10, ProgressOfOthers DEF Fail
  <2>. QED
    BY <1>2, <2>1, <2>2, <2>3, <2>4, <2>5, <2>6, <2>7, <2>8, <2>9, <2>10 DEF Step
<1>3. UNCHANGED sent \/ SendBatch(r)
  BY DEF Step, Read, Check, Expire, RejectOperation, Claim, BeginExecution, CallFails,
         Record, Fail, airVars
<1>. QED
  BY <1>1, <1>2, <1>3

LEMMA NextProgress ==
  TypeOK /\ OwnershipInv /\ ProgressInv /\ SendsInOrder /\ [Next]_vars
    => ProgressInv' /\ SendsInOrder'
<1> SUFFICES ASSUME TypeOK, OwnershipInv, ProgressInv, SendsInOrder, [Next]_vars
             PROVE  ProgressInv' /\ SendsInOrder'
  OBVIOUS
<1>1. ASSUME NEW r \in Requests, Step(r) PROVE ProgressInv' /\ SendsInOrder'
  BY <1>1, StepProgress
<1>2. CASE UNCHANGED sent
  <2>0. SendsInOrder'
    BY <1>2 DEF SendsInOrder
  <2>1. ASSUME NEW o \in Ops, Prepare(o) PROVE ProgressInv'
    <3>1. \A p \in Ops : status'[p] = IF p = o THEN "pending_approval" ELSE status[p]
      BY <2>1 DEF Prepare, TypeOK
    <3>. QED
      BY <2>1, <3>1 DEF Prepare, reqVars, airVars, ProgressInv
  <2>2. ASSUME NEW r \in Requests, NEW k \in Kinds, NEW o \in Ops, Receive(r, k, o)
        PROVE ProgressInv'
    BY <2>2 DEF Receive, rowVars, airVars, ProgressInv, TypeOK, Executing
  <2>3. CASE SweepExpired \/ SweepStale
    <3>1. \A o \in Ops : status'[o] = status[o] \/ status'[o] \in {"expired", "failed"}
      BY <2>3 DEF SweepExpired, SweepStale
    <3>. QED
      BY <2>0, <2>3, <3>1 DEF SweepExpired, SweepStale, reqVars, airVars, ProgressInv, Executing
  <2>4. ASSUME NEW o \in Ops, NEW b \in 1..Batches[o], Decide(o, b) PROVE ProgressInv'
    <3>1. applied' = applied \/ applied' = [applied EXCEPT ![o] = @ \cup {b}]
      BY <2>4 DEF Decide
    <3>2. \A p \in Ops : applied[p] \subseteq applied'[p]
      <4>1. CASE applied' = applied
        BY <4>1
      <4>2. CASE applied' = [applied EXCEPT ![o] = @ \cup {b}]
        <5>1. \A p \in Ops : applied'[p] = IF p = o THEN applied[o] \cup {b} ELSE applied[p]
          BY <4>2 DEF TypeOK
        <5>. QED
          BY <5>1
      <4>. QED
        BY <3>1, <4>1, <4>2
    <3>3. \A q \in Requests : target[q] \in Ops
      BY DEF TypeOK
    <3>. QED
      BY <1>2, <2>4, <3>2, <3>3 DEF Decide, rowVars, reqVars, ProgressInv, Executing
  <2>5. CASE Crash
    <3>1. \A r \in Requests : pc'[r] = "idle" /\ batch'[r] = 1
      BY <2>5 DEF Crash
    <3>. QED
      BY <2>0, <2>5, <3>1 DEF Crash, rowVars, airVars, ProgressInv, Executing
  <2>6. CASE UNCHANGED <<status, pc, target, batch, sent, applied>>
    BY <2>0, <2>6 DEF ProgressInv
  <2>7. SweepFails \/ Tick \/ UNCHANGED vars => UNCHANGED <<status, pc, target, batch, sent, applied>>
    BY DEF SweepFails, Tick, vars, rowVars, reqVars, airVars
  <2>. QED
    BY <1>1, <2>0, <2>1, <2>2, <2>3, <2>4, <2>5, <2>6, <2>7 DEF Next
<1>3. UNCHANGED sent \/ \E r \in Requests : Step(r)
  BY DEF Next, Prepare, Receive, SweepExpired, SweepStale, SweepFails, Decide, Tick, Crash,
         vars, airVars
<1>. QED
  BY <1>1, <1>2, <1>3

-----------------------------------------------------------------------------
(* What is recorded is true *)

(* A step that records nothing new keeps what is recorded true when the    *)
(* base only gains changes and nothing is sent or claimed for an operation *)
(* with a recorded result.                                                 *)
LEMMA ResultFrame ==
  ASSUME ResultInv, RecordedResultIsTrue,
         \A o \in Ops :
           \/ result'[o] = NoResult
           \/ /\ result'[o] = result[o]
              /\ status'[o] = status[o] \/ status'[o] \in {"expired", "failed"}
              /\ sent'[o] = sent[o]
              /\ applied[o] \subseteq applied'[o]
              /\ \A q \in Requests : Owns(q, o)' => Owns(q, o)
  PROVE  ResultInv' /\ RecordedResultIsTrue'
<1>1. ASSUME NEW o \in Ops, result'[o] # NoResult
      PROVE  /\ status'[o] \notin {"none", "pending_approval"}
             /\ \A q \in Requests : ~Owns(q, o)'
  BY <1>1 DEF ResultInv
<1>2. ASSUME NEW o \in Ops, result'[o] # NoResult
      PROVE  /\ 1..result'[o] \subseteq applied'[o]
             /\ Len(sent'[o]) <= result'[o] + 1
             /\ status'[o] = "completed" => result'[o] = Batches[o]
             /\ status'[o] = "partially_completed" => result'[o] \in 1..(Batches[o] - 1)
  BY <1>2 DEF RecordedResultIsTrue
<1>. QED
  BY <1>1, <1>2 DEF ResultInv, RecordedResultIsTrue, NoResult

(* Nobody owns an operation after a step that moves one request, unless    *)
(* somebody owned it before.                                               *)
LEMMA NobodyNewOwns ==
  ASSUME TypeOK, NEW r \in Requests, Return(r) \/ ReturnView(r)
  PROVE  \A o \in Ops, q \in Requests : Owns(q, o)' => Owns(q, o) /\ q # r
<1>1. \A q \in Requests : q # r => pc'[q] = pc[q] /\ target'[q] = target[q]
  BY DEF TypeOK, Return, ReturnView
<1>2. pc'[r] \notin Executing
  BY DEF TypeOK, Return, ReturnView, Executing
<1>. QED
  BY <1>1, <1>2 DEF Owns

LEMMA NobodyNewOwnsByMoving ==
  ASSUME TypeOK, NEW r \in Requests, NEW label, Goto(r, label), UNCHANGED target,
         label \in Executing => pc[r] \in Executing
  PROVE  \A o \in Ops, q \in Requests : Owns(q, o)' => Owns(q, o)
<1>1. \A q \in Requests : pc'[q] = IF q = r THEN label ELSE pc[q]
  BY DEF TypeOK, Goto
<1>. QED
  BY <1>1 DEF Owns

LEMMA RecordResult ==
  ASSUME TypeOK, OwnershipInv, ProgressInv, ResultInv, RecordedResultIsTrue,
         NEW r \in Requests, Record(r)
  PROVE  ResultInv' /\ RecordedResultIsTrue'
<1> DEFINE o == target[r]
           b == batch[r]
<1>1. /\ o \in Ops /\ b \in Nat \ {0} /\ Batches[o] \in Nat \ {0}
      /\ pc[r] = "record" /\ pc[r] \in Executing
      /\ Len(sent[o]) <= b /\ b <= Batches[o] + 1 /\ 1..(b - 1) \subseteq applied[o]
  BY OpsAssumption DEF Record, TypeOK, ProgressInv, Executing
<1>2. \A p \in Ops : /\ status'[p] = IF p = o THEN Outcome(r) ELSE status[p]
                     /\ result'[p] = IF p = o THEN b - 1 ELSE result[p]
                     /\ sent'[p] = sent[p] /\ applied'[p] = applied[p]
  BY DEF Record, UpdateStatus, airVars, TypeOK
<1>3. Outcome(r) \notin {"none", "pending_approval"}
  BY DEF Outcome
<1>4. \A p \in Ops, q \in Requests : Owns(q, p)' => Owns(q, p) /\ q # r
  BY NobodyNewOwns DEF Record
<1>5. \A p \in Ops, q \in Requests : p = o => ~Owns(q, p)'
  BY <1>1, <1>4 DEF Owns, OwnershipInv
<1>6. ASSUME NEW p \in Ops, result'[p] # NoResult
      PROVE  /\ status'[p] \notin {"none", "pending_approval"}
             /\ \A q \in Requests : ~Owns(q, p)'
  <2>1. CASE p = o
    BY <1>2, <1>3, <1>5, <2>1
  <2>2. CASE p # o
    BY <1>2, <1>4, <1>6, <2>2 DEF ResultInv
  <2>. QED
    BY <2>1, <2>2
<1>7. Len(sent'[o]) <= (b - 1) + 1 /\ 1..(b - 1) \subseteq applied'[o]
  BY <1>1, <1>2
<1>8. /\ Outcome(r) = "completed" => b - 1 = Batches[o]
      /\ Outcome(r) = "partially_completed" => b - 1 \in 1..(Batches[o] - 1)
  BY <1>1 DEF Outcome
<1>9. ASSUME NEW p \in Ops, result'[p] # NoResult
      PROVE  /\ 1..result'[p] \subseteq applied'[p]
             /\ Len(sent'[p]) <= result'[p] + 1
             /\ status'[p] = "completed" => result'[p] = Batches[p]
             /\ status'[p] = "partially_completed" => result'[p] \in 1..(Batches[p] - 1)
  <2>1. CASE p = o
    BY <1>2, <1>7, <1>8, <2>1
  <2>2. CASE p # o
    BY <1>2, <1>9, <2>2 DEF RecordedResultIsTrue
  <2>. QED
    BY <2>1, <2>2
<1>. QED
  BY <1>6, <1>9 DEF ResultInv, RecordedResultIsTrue, NoResult

LEMMA StepResult ==
  ASSUME TypeOK, OwnershipInv, ProgressInv, ResultInv, RecordedResultIsTrue,
         NEW r \in Requests, Step(r)
  PROVE  ResultInv' /\ RecordedResultIsTrue'
<1> DEFINE Rest == UNCHANGED <<status, result, sent, applied>>
<1>1. CASE Rest /\ (Return(r) \/ ReturnView(r))
  BY <1>1, NobodyNewOwns, ResultFrame
<1>2. CASE Rest /\ UNCHANGED target /\ \E label \in PCs :
             Goto(r, label) /\ (label \in Executing => pc[r] \in Executing)
  BY <1>2, NobodyNewOwnsByMoving, ResultFrame
<1>3. CASE Read(r) \/ Check(r) \/ BeginExecution(r) \/ CallFails(r) \/ Fail(r)
  BY <1>1, <1>2, <1>3 DEF Read, Check, BeginExecution, CallFails, Fail, rowVars, airVars,
                          PCs, Executing
<1>4. CASE Expire(r) \/ RejectOperation(r)
  <2>1. \A o \in Ops : \/ result'[o] = NoResult
                       \/ result'[o] = result[o] /\ status'[o] = status[o]
    BY <1>4 DEF Expire, RejectOperation, UpdateStatus, TypeOK
  <2>2. UNCHANGED <<sent, applied>> /\ (Return(r) \/ ReturnView(r))
    BY <1>4 DEF Expire, RejectOperation, airVars
  <2>. QED
    BY <2>1, <2>2, NobodyNewOwns, ResultFrame
<1>5. CASE Claim(r)
  <2>1. CASE status[target[r]] = "pending_approval"
    <3>1. target[r] \in Ops /\ result[target[r]] = NoResult
      BY <2>1 DEF ResultInv, TypeOK
    <3>2. UNCHANGED <<result, sent, applied>>
      BY <1>5 DEF Claim, airVars
    <3>3. \A o \in Ops : o # target[r] => status'[o] = status[o]
      BY <1>5 DEF Claim, TypeOK
    <3>4. (Goto(r, "begin") /\ UNCHANGED target) \/ Return(r)
      BY <1>5, <2>1 DEF Claim
    <3>5. \A o \in Ops, q \in Requests : o # target[r] => (Owns(q, o)' => Owns(q, o))
      <4>1. CASE Return(r)
        BY <4>1, NobodyNewOwns
      <4>2. CASE Goto(r, "begin") /\ UNCHANGED target
        <5>1. \A q \in Requests : pc'[q] = IF q = r THEN "begin" ELSE pc[q]
          BY <4>2 DEF Goto, TypeOK
        <5>. QED
          BY <4>2, <5>1 DEF Owns
      <4>. QED
        BY <3>4, <4>1, <4>2
    <3>. QED
      BY <3>1, <3>2, <3>3, <3>5, ResultFrame
  <2>2. CASE status[target[r]] # "pending_approval"
    BY <1>1, <1>5, <2>2 DEF Claim, airVars
  <2>. QED
    BY <2>1, <2>2
<1>6. CASE SendBatch(r)
  <2>1. target[r] \in Ops /\ Owns(r, target[r])
    BY <1>6 DEF SendBatch, TypeOK, Owns, Executing
  <2>2. result[target[r]] = NoResult /\ UNCHANGED <<status, result, target>>
    BY <1>6, <2>1 DEF SendBatch, ResultInv, rowVars
  <2>3. \A o \in Ops : o # target[r] => sent'[o] = sent[o]
    BY <1>6 DEF SendBatch, TypeOK
  <2>4. \A o \in Ops : o # target[r] => applied'[o] = applied[o]
    BY <1>6 DEF SendBatch, TypeOK
  <2>5. \A o \in Ops, q \in Requests : Owns(q, o)' => Owns(q, o)
    BY <1>6, <2>2, NobodyNewOwnsByMoving DEF SendBatch, Executing
  <2>. QED
    BY <2>2, <2>3, <2>4, <2>5, ResultFrame
<1>7. CASE Record(r)
  BY <1>7, RecordResult
<1>. QED
  BY <1>3, <1>4, <1>5, <1>6, <1>7 DEF Step

LEMMA NextResult ==
  TypeOK /\ OwnershipInv /\ ProgressInv /\ ResultInv /\ RecordedResultIsTrue /\ [Next]_vars
    => ResultInv' /\ RecordedResultIsTrue'
<1> SUFFICES ASSUME TypeOK, OwnershipInv, ProgressInv, ResultInv, RecordedResultIsTrue,
                    [Next]_vars
             PROVE  ResultInv' /\ RecordedResultIsTrue'
  OBVIOUS
<1>1. ASSUME NEW o \in Ops, Prepare(o) PROVE ResultInv' /\ RecordedResultIsTrue'
  <2>1. \A p \in Ops : p # o => status'[p] = status[p]
    BY <1>1 DEF Prepare, TypeOK
  <2>2. result[o] = NoResult /\ UNCHANGED <<result, sent, applied, pc, target>>
    BY <1>1 DEF Prepare, ResultInv, reqVars, airVars
  <2>. QED
    BY <2>1, <2>2, ResultFrame DEF Owns
<1>2. ASSUME NEW r \in Requests, NEW k \in Kinds, NEW o \in Ops, Receive(r, k, o)
      PROVE ResultInv' /\ RecordedResultIsTrue'
  <2>1. UNCHANGED <<status, result, sent, applied>>
    BY <1>2 DEF Receive, rowVars, airVars
  <2>2. \A q \in Requests : pc'[q] = IF q = r THEN "read" ELSE pc[q]
    BY <1>2 DEF Receive, TypeOK
  <2>3. \A q \in Requests : q # r => target'[q] = target[q]
    BY <1>2 DEF Receive, TypeOK
  <2>4. \A p \in Ops, q \in Requests : Owns(q, p)' => Owns(q, p)
    BY <2>2, <2>3 DEF Owns, Executing
  <2>. QED
    BY <2>1, <2>4, ResultFrame
<1>3. ASSUME NEW r \in Requests, Step(r) PROVE ResultInv' /\ RecordedResultIsTrue'
  BY <1>3, StepResult
<1>4. CASE SweepExpired \/ SweepStale
  <2>1. \A o \in Ops : status'[o] = status[o] \/ status'[o] \in {"expired", "failed"}
    BY <1>4 DEF SweepExpired, SweepStale
  <2>2. UNCHANGED <<result, sent, applied, pc, target>>
    BY <1>4 DEF SweepExpired, SweepStale, reqVars, airVars
  <2>. QED
    BY <2>1, <2>2, ResultFrame DEF Owns
<1>5. ASSUME NEW o \in Ops, NEW b \in 1..Batches[o], Decide(o, b)
      PROVE ResultInv' /\ RecordedResultIsTrue'
  <2>1. applied' = applied \/ applied' = [applied EXCEPT ![o] = @ \cup {b}]
    BY <1>5 DEF Decide
  <2>2. \A p \in Ops : applied'[p] = applied[p] \/ applied'[p] = applied[p] \cup {b}
    BY <2>1 DEF TypeOK
  <2>3. UNCHANGED <<status, result, sent, pc, target>>
    BY <1>5 DEF Decide, rowVars, reqVars
  <2>. QED
    BY <2>2, <2>3, ResultFrame DEF Owns
<1>6. CASE Crash
  <2>1. UNCHANGED <<status, result, sent, applied>>
    BY <1>6 DEF Crash, rowVars, airVars
  <2>2. \A o \in Ops, q \in Requests : ~Owns(q, o)'
    BY <1>6 DEF Crash, Owns, Executing
  <2>. QED
    BY <2>1, <2>2, ResultFrame
<1>7. CASE UNCHANGED <<status, result, sent, applied, pc, target>>
  BY <1>7, ResultFrame DEF Owns
<1>8. SweepFails \/ Tick \/ UNCHANGED vars
        => UNCHANGED <<status, result, sent, applied, pc, target>>
  BY DEF SweepFails, Tick, vars, rowVars, reqVars, airVars
<1>. QED
  BY <1>1, <1>2, <1>3, <1>4, <1>5, <1>6, <1>7, <1>8 DEF Next

-----------------------------------------------------------------------------
(* Recovery leaves live executions alone *)

(* A request that returns or goes back to reading has no time limit left,  *)
(* the others keep theirs.                                                 *)
LEMMA TimingOfOthers ==
  ASSUME TypeOK, TimingInv, InFlightNeverReaped, NEW r \in Requests,
         Return(r) \/ ReturnView(r), UNCHANGED <<now, expiresAt>>,
         \A q \in Requests : q # r /\ pc[q] \in Executing =>
           (status'[target[q]] = "failed" => status[target[q]] = "failed")
  PROVE  TimingInv' /\ InFlightNeverReaped'
<1>1. \A q \in Requests : q # r =>
        pc'[q] = pc[q] /\ target'[q] = target[q] /\ since'[q] = since[q]
  BY DEF TypeOK, Return, ReturnView
<1>2. pc'[r] \in {"idle", "read"}
  BY DEF TypeOK, Return, ReturnView
<1>. QED
  BY <1>1, <1>2 DEF TimingInv, InFlightNeverReaped, InFlight, Deadline, Executing

(* Other steps of a request, with their new label and start time. *)
LEMMA TimingOfMoving ==
  ASSUME TypeOK, TimingInv, InFlightNeverReaped, NEW r \in Requests, NEW label,
         Goto(r, label), UNCHANGED <<now, expiresAt, status, target>>,
         \A q \in Requests : q # r => since'[q] = since[q],
         label \in {"claim", "begin"} =>
           since'[r] <= expiresAt[target[r]] /\ now <= since'[r] + ClaimLag,
         label \in {"exec", "record"} =>
           since'[r] <= expiresAt[target[r]] + ClaimLag,
         label \in Executing => InFlight(r) \/ (since' = since /\ pc[r] \in {"exec", "record"}),
         label # "begin" \/ pc[r] = "begin"
  PROVE  TimingInv' /\ InFlightNeverReaped'
<1>1. \A q \in Requests : pc'[q] = IF q = r THEN label ELSE pc[q]
  BY DEF TypeOK, Goto
<1>2. TimingInv'
  BY <1>1 DEF TimingInv
<1>3. ASSUME NEW q \in Requests, InFlight(q)' PROVE InFlight(q)
  BY <1>1, <1>3 DEF InFlight, Deadline, Executing
<1>. QED
  BY <1>2, <1>3 DEF InFlightNeverReaped

LEMMA StepTiming ==
  ASSUME TypeOK, OwnershipInv, TimingInv, InFlightNeverReaped, NEW r \in Requests, Step(r)
  PROVE  TimingInv' /\ InFlightNeverReaped'
<1> USE DEF rowVars
<1>0. now \in Nat /\ since[r] \in Nat /\ expiresAt[target[r]] \in Nat /\ ClaimLag \in Nat
  BY TimingAssumption DEF TypeOK
<1>1. CASE Read(r)
  BY <1>1, TimingOfOthers, TimingOfMoving DEF Read, Executing
<1>2. CASE Check(r)
  <2>1. CASE /\ Goto(r, "claim") /\ UNCHANGED target /\ now <= expiresAt[target[r]]
             /\ since' = [since EXCEPT ![r] = now]
    <3>1. since'[r] = now /\ \A q \in Requests : q # r => since'[q] = since[q]
      BY <2>1 DEF TypeOK
    <3>. QED
      BY <1>0, <1>2, <2>1, <3>1, TimingOfMoving DEF Check, Executing
  <2>2. CASE (Goto(r, "expire") \/ Goto(r, "reject")) /\ UNCHANGED <<target, since>>
    BY <1>2, <2>2, TimingOfMoving DEF Check, Executing
  <2>3. CASE Return(r)
    BY <1>2, <2>3, TimingOfOthers DEF Check
  <2>. QED
    BY <1>2, <2>1, <2>2, <2>3 DEF Check
<1>3. CASE Expire(r) \/ RejectOperation(r)
  <2>1. \A o \in Ops : status'[o] = "failed" => status[o] = "failed"
    BY <1>3 DEF Expire, RejectOperation, UpdateStatus, TypeOK
  <2>2. \A q \in Requests : target[q] \in Ops
    BY DEF TypeOK
  <2>. QED
    BY <1>3, <2>1, <2>2, TimingOfOthers DEF Expire, RejectOperation, UpdateStatus
<1>4. CASE Claim(r)
  <2>1. \A o \in Ops : status'[o] = status[o] \/ status'[o] = "executing"
    BY <1>4 DEF Claim, TypeOK
  <2>2. \A q \in Requests : target[q] \in Ops
    BY DEF TypeOK
  <2>3. UNCHANGED <<now, expiresAt>> /\ pc[r] = "claim"
    BY <1>4 DEF Claim
  <2>4. CASE Return(r) \/ ReturnView(r)
    BY <2>1, <2>2, <2>3, <2>4, TimingOfOthers
  <2>5. CASE /\ Goto(r, "begin") /\ UNCHANGED <<target, since>>
             /\ status' = [status EXCEPT ![target[r]] = "executing"]
    <3>1. \A q \in Requests : pc'[q] = IF q = r THEN "begin" ELSE pc[q]
      BY <2>5 DEF Goto, TypeOK
    <3>2. TimingInv'
      BY <2>3, <2>5, <3>1 DEF TimingInv
    <3>3. status'[target[r]] = "executing"
      BY <2>2, <2>5 DEF TypeOK
    <3>4. ASSUME NEW q \in Requests, q # r, InFlight(q)' PROVE InFlight(q)
      BY <2>3, <2>5, <3>1, <3>4 DEF InFlight, Deadline
    <3>. QED
      BY <2>1, <2>2, <2>5, <3>2, <3>3, <3>4 DEF InFlightNeverReaped
  <2>. QED
    BY <1>4, <2>4, <2>5 DEF Claim
<1>5. CASE BeginExecution(r)
  <2>1. since'[r] = now /\ \A q \in Requests : q # r => since'[q] = since[q]
    BY <1>5 DEF BeginExecution, TypeOK
  <2>2. now <= expiresAt[target[r]] + ClaimLag
    BY <1>0, <1>5 DEF BeginExecution, TimingInv
  <2>. QED
    BY <1>5, <2>1, <2>2, TimingOfMoving DEF BeginExecution, InFlight
<1>6. CASE SendBatch(r) \/ CallFails(r)
  <2>1. Goto(r, "record") \/ Goto(r, "exec")
    BY <1>6 DEF SendBatch, CallFails
  <2>2. UNCHANGED <<now, expiresAt, status, target, since>> /\ pc[r] = "exec"
    BY <1>6 DEF SendBatch, CallFails
  <2>. QED
    BY <2>1, <2>2, TimingOfMoving DEF TimingInv
<1>7. CASE Record(r)
  <2>1. \A o \in Ops : o # target[r] => status'[o] = status[o]
    BY <1>7 DEF Record, UpdateStatus, TypeOK
  <2>2. \A q \in Requests : q # r /\ pc[q] \in Executing => target[q] # target[r]
    BY <1>7 DEF Record, OwnershipInv, Executing
  <2>3. \A q \in Requests : target[q] \in Ops
    BY DEF TypeOK
  <2>. QED
    BY <1>7, <2>1, <2>2, <2>3, TimingOfOthers DEF Record, UpdateStatus
<1>8. CASE Fail(r)
  BY <1>8, TimingOfOthers DEF Fail
<1>. QED
  BY <1>1, <1>2, <1>3, <1>4, <1>5, <1>6, <1>7, <1>8 DEF Step

LEMMA NextTiming ==
  TypeOK /\ OwnershipInv /\ TimingInv /\ InFlightNeverReaped /\ [Next]_vars
    => TimingInv' /\ InFlightNeverReaped'
<1> SUFFICES ASSUME TypeOK, OwnershipInv, TimingInv, InFlightNeverReaped, [Next]_vars
             PROVE  TimingInv' /\ InFlightNeverReaped'
  OBVIOUS
<1>1. ASSUME NEW o \in Ops, Prepare(o) PROVE TimingInv' /\ InFlightNeverReaped'
  <2>1. \A p \in Ops : p # o => status'[p] = status[p] /\ expiresAt'[p] = expiresAt[p]
    BY <1>1 DEF Prepare, TypeOK
  <2>2. \A q \in Requests : pc[q] # "idle" => target[q] # o /\ target[q] \in Ops
    BY <1>1 DEF Prepare, OwnershipInv, TypeOK
  <2>3. UNCHANGED <<pc, target, since, now>>
    BY <1>1 DEF Prepare, reqVars
  <2>. QED
    BY <2>1, <2>2, <2>3 DEF TimingInv, InFlightNeverReaped, InFlight, Deadline
<1>2. ASSUME NEW r \in Requests, NEW k \in Kinds, NEW o \in Ops, Receive(r, k, o)
      PROVE TimingInv' /\ InFlightNeverReaped'
  <2>1. \A q \in Requests : pc'[q] = IF q = r THEN "read" ELSE pc[q]
    BY <1>2 DEF Receive, TypeOK
  <2>2. \A q \in Requests : q # r => target'[q] = target[q]
    BY <1>2 DEF Receive, TypeOK
  <2>3. UNCHANGED <<status, expiresAt, since, now>>
    BY <1>2 DEF Receive, rowVars
  <2>. QED
    BY <2>1, <2>2, <2>3 DEF TimingInv, InFlightNeverReaped, InFlight, Deadline
<1>3. ASSUME NEW r \in Requests, Step(r) PROVE TimingInv' /\ InFlightNeverReaped'
  BY <1>3, StepTiming
<1>4. CASE SweepExpired
  <2>1. \A o \in Ops : status'[o] = status[o] \/ status'[o] = "expired"
    BY <1>4 DEF SweepExpired
  <2>2. UNCHANGED <<expiresAt, pc, target, since, now>> /\ \A q \in Requests : target[q] \in Ops
    BY <1>4 DEF SweepExpired, reqVars, TypeOK
  <2>. QED
    BY <2>1, <2>2 DEF TimingInv, InFlightNeverReaped, InFlight, Deadline
<1>5. CASE SweepStale
  <2>1. UNCHANGED <<expiresAt, pc, target, since, now>>
    BY <1>5 DEF SweepStale, reqVars
  <2>2. TimingInv'
    BY <2>1 DEF TimingInv
  <2>3. ASSUME NEW q \in Requests, InFlight(q) PROVE ~(expiresAt[target[q]] < now - StaleWindow)
    <3>1. /\ now \in Nat /\ since[q] \in Nat /\ expiresAt[target[q]] \in Nat
          /\ ClaimLag \in Nat /\ StaleWindow \in Nat /\ ExecTimeout \in Nat
          /\ ClaimLag + ExecTimeout <= StaleWindow
      BY TimingAssumption DEF TypeOK
    <3>2. CASE pc[q] = "begin"
      BY <3>1, <3>2 DEF TimingInv
    <3>3. CASE pc[q] \in {"exec", "record"} /\ now < since[q] + ExecTimeout
      BY <3>1, <3>3 DEF TimingInv
    <3>. QED
      BY <2>3, <3>2, <3>3 DEF InFlight, Deadline
  <2>4. ASSUME NEW q \in Requests, InFlight(q) PROVE status'[target[q]] # "failed"
    <3>1. target[q] \in Ops /\ status[target[q]] # "failed"
      BY <2>4 DEF InFlightNeverReaped, TypeOK
    <3>. QED
      BY <1>5, <2>3, <2>4, <3>1 DEF SweepStale
  <2>5. \A q \in Requests : InFlight(q)' => InFlight(q)
    BY <2>1 DEF InFlight, Deadline
  <2>. QED
    BY <2>1, <2>2, <2>4, <2>5 DEF InFlightNeverReaped
<1>6. CASE Tick
  <2>1. UNCHANGED <<status, expiresAt, pc, target, since>> /\ now' = now + 1 /\ now \in Nat
    BY <1>6 DEF Tick, rowVars, reqVars, TypeOK
  <2>2. \A q \in Requests : since[q] \in Nat /\ ClaimLag \in Nat
    BY TimingAssumption DEF TypeOK
  <2>3. TimingInv'
    BY <1>6, <2>1, <2>2 DEF Tick, TimingInv
  <2>4. ASSUME NEW q \in Requests, InFlight(q)' PROVE InFlight(q)
    <3>1. since[q] + ExecTimeout \in Nat
      BY TimingAssumption DEF TypeOK
    <3>. QED
      BY <2>1, <2>4, <3>1 DEF InFlight, Deadline
  <2>. QED
    BY <2>1, <2>3, <2>4 DEF InFlightNeverReaped
<1>7. CASE Crash
  <2>1. \A q \in Requests : pc'[q] = "idle"
    BY <1>7 DEF Crash
  <2>. QED
    BY <2>1 DEF TimingInv, InFlightNeverReaped, InFlight
<1>8. CASE UNCHANGED <<status, expiresAt, now, pc, target, since>>
  BY <1>8 DEF TimingInv, InFlightNeverReaped, InFlight, Deadline
<1>9. SweepFails \/ UNCHANGED vars \/ (\E o \in Ops : \E b \in 1..Batches[o] : Decide(o, b))
        => UNCHANGED <<status, expiresAt, now, pc, target, since>>
  BY DEF SweepFails, Decide, vars, rowVars, reqVars
<1>. QED
  BY <1>1, <1>2, <1>3, <1>4, <1>5, <1>6, <1>7, <1>8, <1>9 DEF Next

-----------------------------------------------------------------------------
(* The inductive invariant and what follows from it *)

LEMMA InitInv == Init => ApprovalInv
<1> SUFFICES ASSUME Init PROVE ApprovalInv
  OBVIOUS
<1>1. /\ \A r \in Requests : pc[r] = "idle" /\ batch[r] = 1
      /\ \A o \in Ops : status[o] = "none" /\ result[o] = NoResult /\ sent[o] = <<>>
  BY DEF Init
<1>2. \A o \in Ops : Batches[o] \in Nat
  BY OpsAssumption
<1>. QED
  BY <1>1, <1>2 DEF ApprovalInv, OwnershipInv, ProgressInv, ResultInv, TimingInv,
                    SendsInOrder, RecordedResultIsTrue, InFlightNeverReaped, InFlight, Executing

(* ApprovalInv holds in every reachable state. *)
THEOREM InvCorrect == Spec => []ApprovalInv
<1>1. TypeOK /\ ApprovalInv /\ [Next]_vars => ApprovalInv'
  BY NextOwnership, NextProgress, NextResult, NextTiming DEF ApprovalInv
<1>. QED
  BY InitInv, TypeCorrect, <1>1, PTL DEF Spec

(* At-most-once execution, for any number of approvals, rejections,        *)
(* crashes and lost replies: no batch is sent twice or out of order.       *)
THEOREM AtMostOnce == Spec => []SendsInOrder
<1>1. ApprovalInv => SendsInOrder
  BY DEF ApprovalInv
<1>. QED
  BY InvCorrect, <1>1, PTL

(* A recorded outcome is what happened in Airtable. *)
THEOREM TrueResults == Spec => []RecordedResultIsTrue
<1>1. ApprovalInv => RecordedResultIsTrue
  BY DEF ApprovalInv
<1>. QED
  BY InvCorrect, <1>1, PTL

(* staleExecutingWindow is large enough: recovery never fails an execution *)
(* that is alive, for any timing that satisfies TimingAssumption.          *)
THEOREM NeverReaped == Spec => []InFlightNeverReaped
<1>1. ApprovalInv => InFlightNeverReaped
  BY DEF ApprovalInv
<1>. QED
  BY InvCorrect, <1>1, PTL

-----------------------------------------------------------------------------
(* The service implements the lifecycle of an operation *)

Active(o) == \E r \in Requests : Owns(r, o)

LEMMA Phase ==
  ASSUME NEW o \in Ops
  PROVE  PhaseOf(o) = IF status[o] = "none" THEN "absent"
                      ELSE IF status[o] = "pending_approval" THEN "open"
                      ELSE IF Active(o) THEN "running" ELSE "over"
BY DEF PhaseOf, Active, Owns

LEMMA PhaseNext ==
  ASSUME NEW o \in Ops
  PROVE  PhaseOf(o)' = IF status'[o] = "none" THEN "absent"
                       ELSE IF status'[o] = "pending_approval" THEN "open"
                       ELSE IF Active(o)' THEN "running" ELSE "over"
BY DEF PhaseOf, Active, Owns

(* A pending operation is executed by nobody. *)
LEMMA PendingIsNotActive ==
  ASSUME OwnershipInv, NEW o \in Ops, status[o] = "pending_approval"
  PROVE  ~Active(o)
BY DEF OwnershipInv, Active, Owns

(* How the phases of all operations may change in one step. *)
LEMMA PhasesKept ==
  ASSUME UNCHANGED sent, \A o \in Ops : PhaseOf(o)' = PhaseOf(o)
  PROVE  UNCHANGED Lifecycle!lifecycleVars
BY DEF Lifecycle!lifecycleVars

LEMMA PhasesClose ==
  ASSUME UNCHANGED sent,
         \A o \in Ops : PhaseOf(o)' = PhaseOf(o) \/ (PhaseOf(o) = "open" /\ PhaseOf(o)' = "over")
  PROVE  Lifecycle!LifecycleNext
<1> DEFINE S == {o \in Ops : PhaseOf(o) = "open" /\ PhaseOf(o)' = "over"}
<1>1. [o \in Ops |-> PhaseOf(o)]' = [o \in Ops |-> IF o \in S THEN "over" ELSE PhaseOf(o)]
  OBVIOUS
<1>2. Lifecycle!Close(S)
  BY <1>1 DEF Lifecycle!Close
<1>. QED
  BY <1>2 DEF Lifecycle!LifecycleNext

LEMMA PhasesFinish ==
  ASSUME UNCHANGED sent,
         \A o \in Ops :
           PhaseOf(o)' = PhaseOf(o) \/ (PhaseOf(o) = "running" /\ PhaseOf(o)' = "over")
  PROVE  Lifecycle!LifecycleNext
<1> DEFINE S == {o \in Ops : PhaseOf(o) = "running" /\ PhaseOf(o)' = "over"}
<1>1. [o \in Ops |-> PhaseOf(o)]' = [o \in Ops |-> IF o \in S THEN "over" ELSE PhaseOf(o)]
  OBVIOUS
<1>2. Lifecycle!Finish(S)
  BY <1>1 DEF Lifecycle!Finish
<1>. QED
  BY <1>2 DEF Lifecycle!LifecycleNext

(* A request that is executing nothing and goes on to execute nothing      *)
(* leaves the executions as they are; one that returns can only end its    *)
(* own.                                                                    *)
LEMMA ActiveKept ==
  ASSUME TypeOK, NEW r \in Requests, Return(r) \/ ReturnView(r), pc[r] \notin Executing
  PROVE  \A o \in Ops : Active(o)' <=> Active(o)
BY DEF TypeOK, Return, ReturnView, Active, Owns, Executing

LEMMA ActiveEnds ==
  ASSUME TypeOK, NEW r \in Requests, Return(r) \/ ReturnView(r)
  PROVE  \A o \in Ops : /\ Active(o)' => Active(o)
                        /\ o # target[r] => (Active(o)' <=> Active(o))
BY DEF TypeOK, Return, ReturnView, Active, Owns, Executing

LEMMA ActiveMoving ==
  ASSUME TypeOK, NEW r \in Requests, NEW label \in PCs, Goto(r, label), UNCHANGED target,
         label \in Executing <=> pc[r] \in Executing
  PROVE  \A o \in Ops : Active(o)' <=> Active(o)
BY DEF TypeOK, Goto, Active, Owns

(* A step that moves on and writes no status is invisible. *)
LEMMA MovingImplements ==
  ASSUME TypeOK, NEW r \in Requests, NEW label \in PCs, Goto(r, label),
         label \in Executing <=> pc[r] \in Executing,
         UNCHANGED <<target, status, sent>>
  PROVE  UNCHANGED Lifecycle!lifecycleVars
BY ActiveMoving, Phase, PhaseNext, PhasesKept

LEMMA SendBatchImplements ==
  ASSUME TypeOK, ApprovalInv, NEW r \in Requests, SendBatch(r)
  PROVE  Lifecycle!LifecycleNext
<1> DEFINE o == target[r]
           b == batch[r]
<1>1. /\ o \in Ops /\ b \in Nat \ {0} /\ pc[r] = "exec" /\ sent[o] \in Seq(Nat)
      /\ Len(sent[o]) = b - 1 /\ b <= Batches[o] /\ Batches[o] \in Nat
  BY OpsAssumption DEF SendBatch, TypeOK, ApprovalInv, ProgressInv
<1>2. UNCHANGED <<status, target>> /\ sent' = [sent EXCEPT ![o] = Append(sent[o], b)]
  BY DEF SendBatch, rowVars
<1>3. Goto(r, "record") \/ Goto(r, "exec")
  BY DEF SendBatch
<1>4. \A p \in Ops : Active(p)' <=> Active(p)
  BY <1>1, <1>2, <1>3, ActiveMoving DEF PCs, Executing
<1>5. \A p \in Ops : PhaseOf(p)' = PhaseOf(p)
  BY <1>2, <1>4, Phase, PhaseNext
<1>6. PhaseOf(o) = "running"
  <2>1. Active(o) /\ status[o] \notin {"none", "pending_approval"}
    BY <1>1 DEF Active, Owns, Executing, ApprovalInv, OwnershipInv
  <2>. QED
    BY <1>1, <2>1, Phase
<1>7. Len(sent[o]) + 1 = b /\ Len(sent[o]) < Batches[o]
  BY <1>1
<1>8. Lifecycle!Send(o)
  BY <1>1, <1>2, <1>5, <1>6, <1>7 DEF Lifecycle!Send
<1>. QED
  BY <1>1, <1>8 DEF Lifecycle!LifecycleNext

LEMMA ClaimImplements ==
  ASSUME TypeOK, ApprovalInv, NEW r \in Requests, Claim(r)
  PROVE  [Lifecycle!LifecycleNext]_(Lifecycle!lifecycleVars)
<1>0. \E t \in Ops : t = target[r]
  BY DEF TypeOK
<1> PICK o1 \in Ops : o1 = target[r]
  BY <1>0
<1>1. pc[r] = "claim" /\ UNCHANGED sent /\ OwnershipInv
  BY DEF Claim, TypeOK, airVars, ApprovalInv
<1>2. CASE status[o1] # "pending_approval"
  <2>1. \A o \in Ops : PhaseOf(o)' = PhaseOf(o)
    BY <1>1, <1>2, ActiveKept, Phase, PhaseNext DEF Claim, Executing
  <2>. QED
    BY <1>1, <2>1, PhasesKept
<1>3. CASE status[o1] = "pending_approval"
  <2>1. \A o \in Ops : status'[o] = IF o = o1 THEN "executing" ELSE status[o]
    BY <1>3 DEF Claim, TypeOK
  <2>2. PhaseOf(o1) = "open" /\ ~Active(o1)
    BY <1>1, <1>3, Phase, PendingIsNotActive
  <2>3. CASE Return(r)
    <3>1. \A o \in Ops : Active(o)' <=> Active(o)
      BY <1>1, <2>3, ActiveKept DEF Executing
    <3>2. \A o \in Ops : o # o1 => PhaseOf(o)' = PhaseOf(o)
      BY <2>1, <3>1, Phase, PhaseNext
    <3>3. PhaseOf(o1)' = "over"
      BY <1>1, <2>1, <2>2, <3>1, PhaseNext
    <3>. QED
      BY <1>1, <2>2, <3>2, <3>3, PhasesClose
  <2>4. CASE Goto(r, "begin") /\ UNCHANGED target
    <3>1. \A q \in Requests : pc'[q] = IF q = r THEN "begin" ELSE pc[q]
      BY <2>4 DEF Goto, TypeOK
    <3>2. \A o \in Ops : Active(o)' <=> (Active(o) \/ o = o1)
      BY <1>1, <2>4, <3>1 DEF Active, Owns, Executing
    <3>3. \A o \in Ops : o # o1 => PhaseOf(o)' = PhaseOf(o)
      BY <2>1, <3>2, Phase, PhaseNext
    <3>4. PhaseOf(o1)' = "running"
      BY <1>1, <2>1, <3>2, PhaseNext
    <3>5. Lifecycle!ClaimFor(o1)
      BY <1>1, <2>2, <3>3, <3>4 DEF Lifecycle!ClaimFor
    <3>. QED
      BY <1>1, <3>5 DEF Lifecycle!LifecycleNext
  <2>. QED
    BY <1>3, <2>3, <2>4 DEF Claim
<1>. QED
  BY <1>2, <1>3

LEMMA StepImplements ==
  ASSUME TypeOK, ApprovalInv, NEW r \in Requests, Step(r)
  PROVE  [Lifecycle!LifecycleNext]_(Lifecycle!lifecycleVars)
<1>0. OwnershipInv /\ \E t \in Ops : t = target[r]
  BY DEF TypeOK, ApprovalInv
<1> PICK o1 \in Ops : o1 = target[r]
  BY <1>0
<1> USE DEF rowVars, airVars
<1>1. CASE Read(r) \/ Check(r)
  <2>1. UNCHANGED <<status, sent>> /\ pc[r] \notin Executing
    BY <1>1 DEF Read, Check, Executing
  <2>2. CASE Return(r) \/ ReturnView(r)
    BY <2>1, <2>2, ActiveKept, Phase, PhaseNext, PhasesKept
  <2>3. CASE UNCHANGED target /\ \E label \in {"check", "expire", "claim", "reject"} : Goto(r, label)
    BY <2>1, <2>3, MovingImplements DEF PCs, Executing
  <2>. QED
    BY <1>1, <2>2, <2>3 DEF Read, Check
<1>2. CASE Expire(r) \/ RejectOperation(r)
  <2>1. \A o \in Ops : o # o1 => status'[o] = status[o]
    BY <1>2 DEF Expire, RejectOperation, UpdateStatus, TypeOK
  <2>2. status'[o1] \in {"expired", "rejected"} /\ status[o1] # "none"
    BY <1>0, <1>2 DEF Expire, RejectOperation, UpdateStatus, TypeOK, OwnershipInv
  <2>3. \A o \in Ops : Active(o)' <=> Active(o)
    BY <1>2, ActiveKept DEF Expire, RejectOperation, Executing
  <2>4. \A o \in Ops : o # o1 => PhaseOf(o)' = PhaseOf(o)
    BY <2>1, <2>3, Phase, PhaseNext
  <2>5. \/ PhaseOf(o1)' = PhaseOf(o1)
        \/ PhaseOf(o1) = "open" /\ PhaseOf(o1)' = "over"
    BY <1>0, <2>2, <2>3, Phase, PhaseNext, PendingIsNotActive
  <2>. QED
    BY <1>2, <2>4, <2>5, PhasesClose DEF Expire, RejectOperation
<1>3. CASE Claim(r)
  BY <1>3, ClaimImplements
<1>4. CASE BeginExecution(r)
  BY <1>4, MovingImplements DEF BeginExecution, PCs, Executing
<1>5. CASE SendBatch(r)
  BY <1>5, SendBatchImplements
<1>6. CASE CallFails(r)
  BY <1>6, MovingImplements DEF CallFails, PCs, Executing
<1>7. CASE Record(r)
  <2>1. \A o \in Ops : status'[o] = IF o = o1 THEN Outcome(r) ELSE status[o]
    BY <1>7 DEF Record, UpdateStatus, TypeOK
  <2>2. status[o1] \notin {"none", "pending_approval"} /\ Active(o1)
    BY <1>0, <1>7 DEF Record, OwnershipInv, Executing, Active, Owns
  <2>3. Outcome(r) \notin {"none", "pending_approval"}
    BY DEF Outcome
  <2>4. \A o \in Ops : o # o1 => (Active(o)' <=> Active(o))
    BY <1>7, ActiveEnds DEF Record
  <2>5. \A o \in Ops : o # o1 => PhaseOf(o)' = PhaseOf(o)
    BY <2>1, <2>4, Phase, PhaseNext
  <2>6. PhaseOf(o1) = "running" /\ PhaseOf(o1)' \in {"running", "over"}
    BY <1>0, <2>1, <2>2, <2>3, Phase, PhaseNext
  <2>. QED
    BY <1>7, <2>5, <2>6, PhasesFinish DEF Record
<1>8. CASE Fail(r)
  <2>1. UNCHANGED <<status, sent>> /\ Return(r)
    BY <1>8 DEF Fail
  <2>2. \A o \in Ops : Active(o)' => Active(o)
    BY <2>1, ActiveEnds
  <2>3. \A o \in Ops : PhaseOf(o)' = PhaseOf(o) \/ (PhaseOf(o) = "running" /\ PhaseOf(o)' = "over")
    BY <2>1, <2>2, Phase, PhaseNext
  <2>. QED
    BY <2>1, <2>3, PhasesFinish
<1>. QED
  BY <1>1, <1>2, <1>3, <1>4, <1>5, <1>6, <1>7, <1>8 DEF Step

LEMMA NextImplements ==
  TypeOK /\ ApprovalInv /\ [Next]_vars => [Lifecycle!LifecycleNext]_(Lifecycle!lifecycleVars)
<1> SUFFICES ASSUME TypeOK, ApprovalInv, [Next]_vars
             PROVE  [Lifecycle!LifecycleNext]_(Lifecycle!lifecycleVars)
  OBVIOUS
<1> USE DEF rowVars, reqVars, airVars
<1>0. OwnershipInv
  BY DEF ApprovalInv
<1>1. ASSUME NEW o \in Ops, Prepare(o)
      PROVE  Lifecycle!LifecycleNext
  <2>1. /\ \A p \in Ops : status'[p] = IF p = o THEN "pending_approval" ELSE status[p]
        /\ status[o] = "none" /\ UNCHANGED sent
    BY <1>1 DEF Prepare, TypeOK
  <2>2. \A p \in Ops : Active(p)' <=> Active(p)
    BY <1>1 DEF Prepare, Active, Owns
  <2>3. /\ \A p \in Ops : p # o => PhaseOf(p)' = PhaseOf(p)
        /\ PhaseOf(o) = "absent" /\ PhaseOf(o)' = "open"
    BY <2>1, <2>2, Phase, PhaseNext
  <2>4. Lifecycle!Open(o)
    BY <2>1, <2>3 DEF Lifecycle!Open
  <2>. QED
    BY <2>4 DEF Lifecycle!LifecycleNext
<1>2. ASSUME NEW r \in Requests, NEW k \in Kinds, NEW o \in Ops, Receive(r, k, o)
      PROVE  UNCHANGED Lifecycle!lifecycleVars
  <2>1. UNCHANGED <<status, sent>>
    BY <1>2 DEF Receive
  <2>2. \A q \in Requests : pc'[q] = (IF q = r THEN "read" ELSE pc[q])
                            /\ (q # r => target'[q] = target[q])
    BY <1>2 DEF Receive, TypeOK
  <2>3. \A p \in Ops : Active(p)' <=> Active(p)
    BY <1>2, <2>2 DEF Receive, Active, Owns, Executing
  <2>. QED
    BY <2>1, <2>3, Phase, PhaseNext, PhasesKept
<1>3. ASSUME NEW r \in Requests, Step(r)
      PROVE  [Lifecycle!LifecycleNext]_(Lifecycle!lifecycleVars)
  BY <1>3, StepImplements
<1>4. CASE SweepExpired \/ SweepStale
  <2>1. /\ \A o \in Ops : \/ status'[o] = status[o]
                          \/ status[o] = "pending_approval" /\ status'[o] = "expired"
                          \/ status[o] = "executing" /\ status'[o] = "failed"
        /\ UNCHANGED sent
    BY <1>4 DEF SweepExpired, SweepStale
  <2>2. \A o \in Ops : Active(o)' <=> Active(o)
    BY <1>4 DEF SweepExpired, SweepStale, Active, Owns
  <2>3. \A o \in Ops : PhaseOf(o)' = PhaseOf(o) \/ (PhaseOf(o) = "open" /\ PhaseOf(o)' = "over")
    BY <1>0, <2>1, <2>2, Phase, PhaseNext, PendingIsNotActive
  <2>. QED
    BY <2>1, <2>3, PhasesClose
<1>5. CASE Crash
  <2>1. UNCHANGED <<status, sent>> /\ \A o \in Ops : ~Active(o)'
    BY <1>5 DEF Crash, Active, Owns, Executing
  <2>2. \A o \in Ops : PhaseOf(o)' = PhaseOf(o) \/ (PhaseOf(o) = "running" /\ PhaseOf(o)' = "over")
    BY <2>1, Phase, PhaseNext
  <2>. QED
    BY <2>1, <2>2, PhasesFinish
<1>6. CASE UNCHANGED <<status, pc, target, sent>>
  <2>1. \A o \in Ops : Active(o)' <=> Active(o)
    BY <1>6 DEF Active, Owns
  <2>. QED
    BY <1>6, <2>1, Phase, PhaseNext, PhasesKept
<1>7. SweepFails \/ Tick \/ UNCHANGED vars \/ (\E o \in Ops : \E b \in 1..Batches[o] : Decide(o, b))
        => UNCHANGED <<status, pc, target, sent>>
  BY DEF SweepFails, Tick, Decide, vars
<1>. QED
  BY <1>1, <1>2, <1>3, <1>4, <1>5, <1>6, <1>7 DEF Next

(* The approval service implements OperationLifecycle: one claim for each  *)
(* operation, writes only during the execution that it starts, and no      *)
(* operation that is over starts again.                                    *)
THEOREM ServiceImplementsLifecycle == Spec => ImplementsLifecycle
<1>1. Init => Lifecycle!LifecycleInit
  BY DEF Init, PhaseOf, Lifecycle!LifecycleInit
<1>. QED
  BY <1>1, NextImplements, TypeCorrect, InvCorrect, PTL
  DEF Spec, ImplementsLifecycle, Lifecycle!LifecycleSpec

-----------------------------------------------------------------------------
(* The batches that an operation is cut into *)

Cut == INSTANCE Batches

(* No batch is empty or longer than Airtable takes, and none has a record  *)
(* that the operation has not.                                             *)
THEOREM BatchSize ==
  ASSUME NEW n \in Nat, NEW s \in Cut!Starts(n)
  PROVE  /\ s < Cut!End(n, s) /\ Cut!End(n, s) <= s + Cut!Size
         /\ Cut!Batch(n, s) \subseteq 1..n
BY DEF Cut!Starts, Cut!End, Cut!Batch, Cut!Size

(* Two batches that share a record are the same. *)
LEMMA BatchesApart ==
  ASSUME NEW n \in Nat, NEW s \in Cut!Starts(n), NEW t \in Cut!Starts(n),
         NEW i \in Cut!Batch(n, s) \cap Cut!Batch(n, t)
  PROVE  s = t
<1>1. s < i /\ i <= s + 10 /\ t < i /\ i <= t + 10 /\ i \in Int
  BY DEF Cut!Starts, Cut!End, Cut!Batch, Cut!Size
<1>2. s \in Nat /\ t \in Nat /\ s % 10 = 0 /\ t % 10 = 0
  BY DEF Cut!Starts, Cut!Size
<1>. QED
  BY <1>1, <1>2

(* Every record of an operation is in exactly one batch, whatever their    *)
(* number: at 10, 11 and 20 too (the loop of execute).                     *)
THEOREM EveryRecordInOneBatch ==
  ASSUME NEW n \in Nat, NEW i \in 1..n
  PROVE  \E s \in Cut!Starts(n) :
           /\ i \in Cut!Batch(n, s)
           /\ \A t \in Cut!Starts(n) : i \in Cut!Batch(n, t) => t = s
<1> DEFINE s == 10 * ((i - 1) \div 10)
<1>1. i - 1 \in Nat /\ i - 1 < n
  OBVIOUS
<1>2. s \in Nat /\ s <= i - 1 /\ i - 1 < s + 10 /\ s % 10 = 0
  BY <1>1
<1>3. s \in Cut!Starts(n) /\ i \in Cut!Batch(n, s)
  BY <1>1, <1>2 DEF Cut!Starts, Cut!End, Cut!Batch, Cut!Size
<1>. QED
  BY <1>3, BatchesApart
=============================================================================
