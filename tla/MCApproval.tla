----------------------------- MODULE MCApproval -----------------------------
(***************************************************************************)
(* Instances of Approval for TLC.                                          *)
(***************************************************************************)
EXTENDS Approval, TLC

CONSTANTS o1, r1, r2

(* One operation of two batches. *)
OneOp == {o1}
TwoBatches == o1 :> 2
=============================================================================
