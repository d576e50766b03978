---------------------------- MODULE MCSyncWorker ----------------------------
(***************************************************************************)
(* Instances of SyncWorker for TLC.                                        *)
(***************************************************************************)
EXTENDS SyncWorker, TLC

Symmetry == Permutations(Slots) \cup Permutations(Calls)
=============================================================================
