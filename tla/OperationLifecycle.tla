------------------------- MODULE OperationLifecycle -------------------------
(***************************************************************************)
(* What the approval service promises about one pending operation,         *)
(* whatever goes wrong: an operation is opened once, claimed for execution *)
(* at most once, its Airtable writes are sent one after the other, each at *)
(* most once, only between the claim and the end of that one execution,    *)
(* and an operation that is over never starts again.                       *)
(*                                                                         *)
(* Approval.tla implements this specification; the mapping is there.       *)
(***************************************************************************)
EXTENDS Naturals, Sequences

CONSTANTS
  Ops,     \* identifiers of pending operations
  Batches  \* Batches[o]: number of Airtable write calls operation o needs

VARIABLES
  phase,   \* phase[o]: where operation o is in its life
  writes   \* writes[o]: numbers of the batches sent to Airtable, in order

lifecycleVars == <<phase, writes>>

Phases == {"absent", "open", "running", "over"}

LifecycleInit ==
  /\ phase = [o \in Ops |-> "absent"]
  /\ writes = [o \in Ops |-> <<>>]

(* PrepareMutation stores the operation and hands out its approval URL. *)
Open(o) ==
  /\ phase[o] = "absent"
  /\ phase' = [phase EXCEPT ![o] = "open"]
  /\ UNCHANGED writes

(* The operations of S end without ever having been executed. *)
Close(S) ==
  /\ \A o \in S : phase[o] = "open"
  /\ phase' = [o \in Ops |-> IF o \in S THEN "over" ELSE phase[o]]
  /\ UNCHANGED writes

(* One approval wins the operation. *)
ClaimFor(o) ==
  /\ phase[o] = "open"
  /\ phase' = [phase EXCEPT ![o] = "running"]
  /\ UNCHANGED writes

(* The execution sends the batch after the last one it sent. *)
Send(o) ==
  /\ phase[o] = "running"
  /\ Len(writes[o]) < Batches[o]
  /\ writes' = [writes EXCEPT ![o] = Append(@, Len(@) + 1)]
  /\ UNCHANGED phase

(* The executions of S end: finished, failed, timed out or crashed. *)
Finish(S) ==
  /\ \A o \in S : phase[o] = "running"
  /\ phase' = [o \in Ops |-> IF o \in S THEN "over" ELSE phase[o]]
  /\ UNCHANGED writes

LifecycleNext ==
  \/ \E o \in Ops : Open(o) \/ ClaimFor(o) \/ Send(o)
  \/ \E S \in SUBSET Ops : Close(S) \/ Finish(S)

LifecycleSpec == LifecycleInit /\ [][LifecycleNext]_lifecycleVars
=============================================================================
