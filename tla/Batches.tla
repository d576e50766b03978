------------------------------ MODULE Batches ------------------------------
(***************************************************************************)
(* How execute (internal/approval/service.go) cuts the n records of an     *)
(* operation into the batches that Approval.tla counts: the loop starts a  *)
(* batch at every multiple of ten below n.                                 *)
(***************************************************************************)
EXTENDS Integers

(* Records of one write call of Airtable. *)
Size == 10

(* batchStart *)
Starts(n) == {s \in Nat : s < n /\ s % Size = 0}

(* batchEnd *)
End(n, s) == IF s + Size > n THEN n ELSE s + Size

(* The records of operation.Records[batchStart:batchEnd], from 1.          *)
Batch(n, s) == (s + 1) .. End(n, s)
=============================================================================
