----------------------------- MODULE SnapshotRun -----------------------------
(***************************************************************************)
(* What one sync run promises about the active DuckDB file of its base,    *)
(* whatever its goroutines do: a complete snapshot is replaced by a newer  *)
(* complete one in a single step or stays as it is; without one the file   *)
(* is emptied and filled in the open, and is complete only when the run    *)
(* has succeeded.  Where the disk may fail, the run may work in the open   *)
(* although there was a snapshot, and the swap may lose it.                *)
(*                                                                         *)
(* SyncRun.tla implements this specification; SyncWorker.tla's run steps   *)
(* InitializeSnapshot, Commit and FailRun rely on it.                      *)
(***************************************************************************)

CONSTANT DiskMayFail

VARIABLES
  file, \* "old" is the complete snapshot of an earlier run, "new" of this one
  run   \* "idle" or the mode of the run that is under way

runVars == <<file, run>>

RunInit ==
  /\ file \in {"absent", "partial", "old"}
  /\ run = "idle"

(* The run of a base that has a complete snapshot works on a private file. *)
Begin ==
  /\ run = "idle" /\ file # "new"
  /\ \/ run' = IF file = "old" THEN "staged" ELSE "direct"
     \/ DiskMayFail /\ run' = "direct"
  /\ UNCHANGED file

Empty ==
  /\ run = "direct" /\ file # "partial"
  /\ file' = "partial"
  /\ UNCHANGED run

Succeed ==
  /\ run # "idle"
  /\ run = "direct" => file = "partial"
  /\ file' = "new"
  /\ run' = "idle"

(* An attempt may leave an empty file where there was none. *)
Abandon ==
  /\ run # "idle"
  /\ run' = "idle"
  /\ \/ UNCHANGED file
     \/ file = "absent" /\ file' = "partial"

(* The swap has removed the snapshot and not yet replaced it. *)
Lose ==
  /\ DiskMayFail
  /\ run = "staged" /\ file = "old"
  /\ file' = "absent"
  /\ UNCHANGED run

(* The snapshot becomes the earlier one. *)
Age ==
  /\ run = "idle" /\ file = "new"
  /\ file' = "old"
  /\ UNCHANGED run

RunNext == Begin \/ Empty \/ Succeed \/ Abandon \/ Lose \/ Age

RunSpec == RunInit /\ [][RunNext]_runVars
=============================================================================
