----------------------------- MODULE MCSyncRun -----------------------------
(***************************************************************************)
(* Instances of SyncRun for TLC.                                           *)
(***************************************************************************)
EXTENDS SyncRun, TLC

(* Three tables of one, two and one pages, two of them listed at a time.   *)
MixedPages == 1 :> 1 @@ 2 :> 2 @@ 3 :> 1

OnePage == 1 :> 1
=============================================================================
