----------------------------- MODULE SyncWorker -----------------------------
(***************************************************************************)
(* The sync manager (internal/sync/manager.go) for one base: the worker    *)
(* goroutine that keeps the base's DuckDB file fresh while tool calls use  *)
(* it and removes the file when they stop, the tool calls that create,     *)
(* touch, ask and wait for that worker, and the start of the server, which *)
(* sweeps the files and restores the workers.  Bases do not interact.      *)
(*                                                                         *)
(* One action per critical section (w.mu or m.mu), file operation or       *)
(* database statement.  A timestamp is reduced to what nextAction asks of  *)
(* it: has it passed?  The environment lets it pass.                       *)
(*                                                                         *)
(* One sync run is five steps here; SyncRun.tla has its goroutines.  The   *)
(* model assumes that a run ends and that the rename of the staging file   *)
(* succeeds or leaves the active file alone.  That the read of a file's    *)
(* sync_info fails is modelled (ReadsMayFail).                             *)
(***************************************************************************)
EXTENDS Naturals

CONSTANTS
  Slots,      \* names for workerState objects; garbage is used again
  NoWorker,   \* the base has no entry in Manager.workers
  Calls,      \* slots for concurrent tool calls
  Kinds,      \* the kinds of tool calls that are made, see Levels
  MaxChanges, \* bound: number of approved mutations that change the base
  ReadsMayFail \* whether ReadSyncInfo may fail on a file that is there

ASSUME SlotsAssumption == NoWorker \notin Slots
ASSUME ChangesAssumption == MaxChanges \in Nat
ASSUME ReadsAssumption == ReadsMayFail \in BOOLEAN

(* EnsureBaseReadable, EnsureBaseSchemaSampled and EnsureBaseReady wait    *)
(* for a level of the snapshot; RequestSync and TriggerSync only ask.  A   *)
(* "mutate" waits like a query, but then reads the schema through          *)
(* ListSchema, which syncs the base itself when there is no file.          *)
Waiting == {"readable", "mutate", "sampled", "ready"}
ASSUME KindsAssumption == Kinds \subseteq Waiting \cup {"sync", "trigger"}

VARIABLES
  registered, \* Manager.workers[base]
  w,          \* w[s]: the workerState s and the program counter of its run()
  call,       \* call[c]: program counter, kind and worker of tool call c
  file,       \* the active file {base}.db
  fileChange, \* the last mutation its content is sure to include
  trouble,    \* history: what puts the snapshot at risk, see Troubles
  row,        \* the base's sync_state: none, without or with last_synced_at
  boot,       \* where the start of the server is
  change      \* number of mutations made in Airtable so far

vars == <<registered, w, call, file, fileChange, trouble, row, boot, change>>
diskVars == <<file, fileChange, trouble>>

Files == {"absent", "partial", "sampled", "complete"}

(* The sync that is writing did not see that the file was complete, or a   *)
(* mutation's SyncBase and a run of the worker have been writing together. *)
Troubles == {"unread", "overlap"}

(* "cleanup" and "remove": run() found the TTL over and leaves.            *)
WorkerPCs == {"none", "loop", "sleep", "backoff", "start", "fetch", "progress",
              "pages", "rest", "put", "finish", "cleanup", "remove", "dead"}

Leaving == {"cleanup", "remove"}
Writing == {"fetch", "progress", "pages", "rest"}
Running == Writing \cup {"start", "put", "finish"}

WorkerStates ==
  [ pc : WorkerPCs,
    active : BOOLEAN,     \* activeUntil is in the future
    due : BOOLEAN,        \* lastStartedAt is zero or an interval ago
    backingOff : BOOLEAN, \* lastFailedAt + failureBackoff is in the future
    readable : BOOLEAN,
    sampled : BOOLEAN,    \* tablesTotal = 0 or tablesStarted >= tablesTotal
    complete : BOOLEAN,   \* readSnapshotComplete
    refresh : BOOLEAN,    \* needsInitialRefresh
    inProgress : BOOLEAN,
    requested : BOOLEAN,  \* syncRequested
    rerun : BOOLEAN,      \* rerunRequested
    failed : BOOLEAN,     \* lastError is set
    wake : BOOLEAN,       \* wakeCh holds a token
    staging : BOOLEAN,    \* the current run writes the staging file
    runOk : BOOLEAN,      \* what the current run returned
    from : 0..MaxChanges,   \* history: change when the last run started
    asked : 0..MaxChanges ] \* history: change when a follow-up was last asked

CallStates ==
  [ pc : {"idle", "touch", "check", "request", "wait", "open", "lock", "fill"},
    kind : Kinds \cup {"none"},
    worker : Slots \cup {NoWorker},
    hadFile : BOOLEAN,    \* hadSnapshot in EnsureBaseReady
    staging : BOOLEAN,    \* the call's own sync writes the staging file
    from : 0..MaxChanges ] \* history: change when that sync started

TypeOK ==
  /\ registered \in Slots \cup {NoWorker}
  /\ w \in [Slots -> WorkerStates]
  /\ call \in [Calls -> CallStates]
  /\ file \in Files
  /\ fileChange \in 0..MaxChanges
  /\ trouble \subseteq Troubles
  /\ row \in {"none", "touched", "synced"}
  /\ boot \in {"sweep", "restore", "restoring", "up"}
  /\ change \in 0..MaxChanges

(* A workerState with no goroutine. *)
NoState ==
  [ pc |-> "none", active |-> FALSE, due |-> TRUE, backingOff |-> FALSE,
    readable |-> FALSE, sampled |-> TRUE, complete |-> FALSE, refresh |-> FALSE,
    inProgress |-> FALSE, requested |-> FALSE, rerun |-> FALSE, failed |-> FALSE,
    wake |-> FALSE, staging |-> FALSE, runOk |-> FALSE, from |-> 0, asked |-> 0 ]

NoCall ==
  [ pc |-> "idle", kind |-> "none", worker |-> NoWorker, hadFile |-> FALSE,
    staging |-> FALSE, from |-> 0 ]

Init ==
  /\ registered = NoWorker
  /\ w = [s \in Slots |-> NoState]
  /\ call = [c \in Calls |-> NoCall]
  /\ file = "absent" /\ fileChange = 0 /\ trouble = {}
  /\ row = "none"
  /\ boot = "up"
  /\ change = 0

-----------------------------------------------------------------------------
(* Who writes the file *)

(* A call's own SyncBase, and a run of the worker. *)
Filling == \E c \in Calls : call[c].pc = "fill"
RunWrites == \E s \in Slots : w[s].pc \in Writing

(* shouldUseStaging, then initializeSnapshot: a complete snapshot is kept  *)
(* and the sync goes to a staging file, unless it cannot be seen to be     *)
(* complete; else the active file is emptied.  more is what else is wrong. *)
ChooseFile(staging, more) ==
  \/ /\ file = "complete" /\ staging
     /\ trouble' = trouble \cup more
     /\ UNCHANGED <<file, fileChange>>
  \/ /\ file # "complete" \/ ReadsMayFail
     /\ ~staging
     /\ file' = "partial" /\ fileChange' = 0
     /\ trouble' = trouble \cup more \cup {t \in {"unread"} : file = "complete"}

(* The trouble is over when nobody writes any more. *)
WritingEnds(others) == trouble' = IF others THEN trouble ELSE {}

-----------------------------------------------------------------------------
(* workerState objects *)

(* A call writes to a workerState whose goroutine has gone: nobody reads   *)
(* what it writes.                                                         *)
Update(s, state) == [w EXCEPT ![s] = IF w[s].pc = "dead" THEN w[s] ELSE state]

(* Call c lets go of its workerState, which is garbage when its goroutine  *)
(* has gone and no other call holds it; state is what c leaves in it.      *)
Held(s, c) == \E d \in Calls \ {c} : call[d].worker = s

Return(c, state) ==
  LET s == call[c].worker IN
  /\ call' = [call EXCEPT ![c] = NoCall]
  /\ w' = IF w[s].pc = "dead" /\ ~Held(s, c) THEN [w EXCEPT ![s] = NoState]
                                             ELSE Update(s, state)

(* A new workerState that trusts the database. *)
NewWorkerFromRow ==
  [NoState EXCEPT
     !.pc = "loop",
     !.readable = row # "none",
     !.sampled = file \in {"absent", "complete"},
     !.complete = row = "synced",
     !.refresh = file = "complete"]

(* A new workerState after seedFromSnapshot; its goroutine is started and  *)
(* its activeUntil is still zero.                                          *)
NewWorker ==
  [NoState EXCEPT
     !.pc = "loop",
     !.readable = file # "absent",
     !.sampled = file \in {"absent", "complete"},
     !.complete = file = "complete",
     !.refresh = file = "complete"]

(* seedFromSnapshot keeps its other flags when sync_info cannot be read.   *)
NewWorkers ==
  {NewWorker} \cup {state \in {[NewWorker EXCEPT !.sampled = TRUE, !.complete = FALSE,
                                                 !.refresh = FALSE]} :
                      ReadsMayFail /\ file # "absent"}

(* activateBase up to getOrCreateWorker.  A call of kind "trigger" follows *)
(* a mutation that has just changed the base.  A call whose token or base  *)
(* cannot be resolved changes nothing and is left out.                     *)
Activate(c, k, s) ==
  /\ boot = "up"
  /\ call[c].pc = "idle"
  /\ \/ k # "trigger" /\ UNCHANGED change
     \/ k = "trigger" /\ change < MaxChanges /\ change' = change + 1
  /\ \/ registered = s /\ UNCHANGED <<registered, w>>
     \/ /\ registered = NoWorker /\ w[s].pc = "none"
        /\ registered' = s
        /\ \E state \in NewWorkers : w' = [w EXCEPT ![s] = state]
  /\ call' = [call EXCEPT ![c] = [NoCall EXCEPT !.pc = "touch", !.kind = k, !.worker = s]]
  /\ UNCHANGED <<diskVars, row, boot>>

(* touch and notify, then TouchSyncState, whose error is ignored. *)
Touch(c) ==
  LET s == call[c].worker IN
  /\ call[c].pc = "touch"
  /\ w' = Update(s, [w[s] EXCEPT !.active = TRUE, !.wake = TRUE])
  /\ row' \in {row, IF row = "none" THEN "touched" ELSE row}
  /\ call' = [call EXCEPT ![c].pc = IF call[c].kind \in Waiting THEN "check" ELSE "request"]
  /\ UNCHANGED <<registered, diskVars, boot, change>>

-----------------------------------------------------------------------------
(* Asking for a sync and waiting for it *)

(* isReadable, isSchemaSampled, isCompleteReadable without initial refresh *)
Reached(s, k) ==
  CASE k \in {"readable", "mutate"} -> w[s].readable
    [] k = "sampled"  -> w[s].readable /\ (w[s].complete \/ w[s].sampled)
    [] k = "ready"    -> w[s].readable /\ w[s].complete /\ ~w[s].refresh

(* Ensure... returns at once when its level is reached. *)
Check(c) ==
  LET s == call[c].worker
      k == call[c].kind
  IN
  /\ call[c].pc = "check"
  /\ \/ /\ Reached(s, k)
        /\ call' = [call EXCEPT ![c].pc = "open"]
     \/ /\ ~Reached(s, k)
        /\ call' = [call EXCEPT ![c].pc = "request",
                                ![c].hadFile = k = "ready" /\ file # "absent"]
  /\ UNCHANGED <<registered, w, diskVars, row, boot, change>>

(* requestImmediateSync and notify; sync only asks and returns. *)
Request(c) ==
  LET s == call[c].worker
      state == [w[s] EXCEPT !.requested = w[s].requested \/ ~w[s].inProgress, !.wake = TRUE]
  IN
  /\ call[c].pc = "request" /\ call[c].kind # "trigger"
  /\ \/ call[c].kind = "sync" /\ Return(c, state)
     \/ /\ call[c].kind # "sync"
        /\ w' = Update(s, state)
        /\ call' = [call EXCEPT ![c].pc = "wait"]
  /\ UNCHANGED <<registered, diskVars, row, boot, change>>

(* requestFollowUpSync and notify. *)
RequestFollowUp(c) ==
  LET s == call[c].worker IN
  /\ call[c].pc = "request" /\ call[c].kind = "trigger"
  /\ Return(c, [w[s] EXCEPT !.rerun = w[s].rerun \/ w[s].inProgress,
                            !.requested = w[s].requested \/ ~w[s].inProgress,
                            !.wake = TRUE, !.asked = change])
  /\ UNCHANGED <<registered, diskVars, row, boot, change>>

(* One round of waitUntilReadable, waitUntilSchemaSampled,                 *)
(* waitUntilComplete that ends the wait well.  EnsureBaseReady settles for *)
(* the snapshot that was there.                                            *)
WaitEnds(c) ==
  LET s == call[c].worker
      k == call[c].kind
  IN
  /\ call[c].pc = "wait"
  /\ \/ Reached(s, k)
     \/ w[s].failed /\ ~w[s].inProgress /\ k = "ready" /\ call[c].hadFile
  /\ call' = [call EXCEPT ![c].pc = "open"]
  /\ UNCHANGED <<registered, w, diskVars, row, boot, change>>

(* The wait ends with the worker's last error. *)
WaitFails(c) ==
  LET s == call[c].worker
      k == call[c].kind
  IN
  /\ call[c].pc = "wait"
  /\ ~Reached(s, k) /\ w[s].failed /\ ~w[s].inProgress
  /\ ~(k = "ready" /\ call[c].hadFile)
  /\ Return(c, w[call[c].worker])
  /\ UNCHANGED <<registered, diskVars, row, boot, change>>

(* The client gives up on a waiting call. *)
Cancel(c) ==
  /\ call[c].pc = "wait"
  /\ Return(c, w[call[c].worker])
  /\ UNCHANGED <<registered, diskVars, row, boot, change>>

(* The tool reads the file (QueryResolvedBase, ListResolvedSchema); a      *)
(* mutate finds none and goes on to SyncBase (ensureSynced).               *)
OpenFile(c) ==
  /\ call[c].pc = "open"
  /\ \/ /\ call[c].kind = "mutate" => file # "absent"
        /\ Return(c, w[call[c].worker])
     \/ /\ call[c].kind = "mutate" /\ file = "absent"
        /\ call' = [call EXCEPT ![c].pc = "lock"]
        /\ UNCHANGED w
  /\ UNCHANGED <<registered, diskVars, row, boot, change>>

(* SyncBase: lockSync, which no worker takes, then runSync in the call.    *)
SyncBaseStarts(c) ==
  /\ call[c].pc = "lock"
  /\ \A d \in Calls : call[d].pc # "fill"
  /\ \E staging \in BOOLEAN :
       /\ ChooseFile(staging, {t \in {"overlap"} : RunWrites})
       /\ call' = [call EXCEPT ![c].pc = "fill", ![c].staging = staging, ![c].from = change]
  /\ UNCHANGED <<registered, w, row, boot, change>>

(* Its last page and the end of runSync; the pages need the tables.        *)
SyncBaseEnds(c) ==
  /\ call[c].pc = "fill"
  /\ call[c].staging \/ file # "absent"
  /\ file' = "complete" /\ fileChange' = call[c].from
  /\ WritingEnds(RunWrites)
  /\ Return(c, w[call[c].worker])
  /\ UNCHANGED <<registered, row, boot, change>>

SyncBaseFails(c) ==
  /\ call[c].pc \in {"lock", "fill"}
  /\ file' \in {file, IF file = "absent" THEN "partial" ELSE file}
  /\ WritingEnds(RunWrites \/ \E d \in Calls \ {c} : call[d].pc = "fill")
  /\ Return(c, w[call[c].worker])
  /\ UNCHANGED <<registered, fileChange, row, boot, change>>

-----------------------------------------------------------------------------
(* run(): deciding what to do next *)

(* nextAction without the schedule. *)
WantsRunOnce(s) == file = "absent" \/ w[s].refresh

(* Why nextAction starts a run when nobody asked and nothing holds it back. *)
WantsRun(s) == file = "absent" \/ w[s].refresh \/ w[s].due

(* nextAction. *)
NextAction(s) ==
  /\ w[s].pc = "loop"
  /\ \/ /\ ~w[s].active
        /\ w' = [w EXCEPT ![s].pc = "cleanup"]
     \/ /\ w[s].active
        /\ w[s].requested \/ (~w[s].backingOff /\ WantsRun(s))
        /\ w' = [w EXCEPT ![s].pc = "start", ![s].inProgress = TRUE,
                          ![s].requested = FALSE, ![s].failed = FALSE]
     \/ /\ w[s].active /\ ~w[s].requested /\ w[s].backingOff
        /\ w' = [w EXCEPT ![s].pc = "backoff"]
     \/ /\ w[s].active /\ ~w[s].requested /\ ~w[s].backingOff /\ ~WantsRun(s)
        /\ w' = [w EXCEPT ![s].pc = "sleep"]
  /\ UNCHANGED <<registered, call, diskVars, row, boot, change>>

(* The select on the timer, which was set to the earliest of the times     *)
(* that matter, and wakeCh.                                                *)
Wake(s) ==
  /\ \/ /\ w[s].pc \in {"sleep", "backoff"} /\ w[s].wake
        /\ w' = [w EXCEPT ![s].pc = "loop", ![s].wake = FALSE]
     \/ /\ \/ w[s].pc \in {"sleep", "backoff"} /\ ~w[s].active
           \/ w[s].pc = "sleep" /\ w[s].due
           \/ w[s].pc = "backoff" /\ ~w[s].backingOff
        /\ w' = [w EXCEPT ![s].pc = "loop"]
  /\ UNCHANGED <<registered, call, diskVars, row, boot, change>>

(* The entry goes before the file. *)
RemoveEntryFirst(s) ==
  /\ w[s].pc = "cleanup"
  /\ registered' = NoWorker
  /\ w' = [w EXCEPT ![s].pc = "remove"]
  /\ UNCHANGED <<call, diskVars, row, boot, change>>

(* The file is forgotten. *)
KeepFile(s) ==
  /\ w[s].pc = "cleanup"
  /\ w' = [w EXCEPT ![s].pc = "remove"]
  /\ UNCHANGED <<registered, call, diskVars, row, boot, change>>

(* cleanupExpired removes the file ...                                     *)
RemoveFile(s) ==
  /\ w[s].pc = "cleanup"
  /\ file' = "absent" /\ fileChange' = 0
  /\ w' = [w EXCEPT ![s].pc = "remove"]
  /\ UNCHANGED <<registered, call, trouble, row, boot, change>>

(* ... and then the worker; restoreWorker holds m.mu meanwhile.  A call    *)
(* that still holds the object sees its flags, nothing else is read again. *)
RemoveWorker(s) ==
  /\ w[s].pc = "remove"
  /\ boot # "restoring"
  /\ registered' = NoWorker
  /\ w' = [w EXCEPT ![s] =
             IF \E c \in Calls : call[c].worker = s
             THEN [w[s] EXCEPT !.pc = "dead", !.active = FALSE, !.due = TRUE,
                               !.backingOff = FALSE, !.wake = FALSE, !.requested = FALSE]
             ELSE NoState]
  /\ UNCHANGED <<call, diskVars, row, boot, change>>

-----------------------------------------------------------------------------
(* run(): one sync run *)

(* The counters are cleared and the run starts; the backoff is not looked  *)
(* at again before the end of the run sets it.                             *)
StartRun(s) ==
  /\ w[s].pc = "start"
  /\ w' = [w EXCEPT ![s].pc = "fetch", ![s].due = FALSE, ![s].failed = FALSE,
                    ![s].sampled = TRUE, ![s].backingOff = FALSE,
                    ![s].from = change]
  /\ trouble' = trouble \cup {t \in {"overlap"} : Filling}
  /\ UNCHANGED <<registered, call, file, fileChange, row, boot, change>>

(* Every run writes the active file. *)
InitializeActive(s) ==
  /\ w[s].pc = "fetch"
  /\ w' = [w EXCEPT ![s].pc = "progress", ![s].staging = FALSE]
  /\ file' = "partial" /\ fileChange' = 0
  /\ UNCHANGED <<registered, call, trouble, row, boot, change>>

(* runSync up to the first progress call: the schema is fetched and the    *)
(* target file chosen and initialized.                                     *)
InitializeSnapshot(s) ==
  /\ w[s].pc = "fetch"
  /\ \E staging \in BOOLEAN :
       /\ ChooseFile(staging, {})
       /\ w' = [w EXCEPT ![s].pc = "progress", ![s].staging = staging]
  /\ UNCHANGED <<registered, call, row, boot, change>>

(* handleProgress, first call. *)
FirstProgress(s) ==
  /\ w[s].pc = "progress"
  /\ w' = [w EXCEPT ![s] =
             [w[s] EXCEPT !.pc = "pages", !.readable = TRUE, !.sampled = FALSE,
                          !.due = FALSE, !.complete = w[s].staging,
                          !.refresh = w[s].refresh /\ w[s].staging]]
  /\ UNCHANGED <<registered, call, diskVars, row, boot, change>>

(* The first page of the last table that had none is in the target file    *)
(* and handleProgress counts it.                                           *)
FirstPages(s) ==
  /\ w[s].pc = "pages"
  /\ w' = [w EXCEPT ![s].pc = "rest", ![s].sampled = TRUE]
  /\ file' = IF w[s].staging THEN file ELSE "sampled"
  /\ UNCHANGED <<registered, call, fileChange, trouble, row, boot, change>>

(* The snapshot is taken for one that includes the mutation after its start. *)
CommitOneAhead(s) ==
  /\ w[s].pc = "rest"
  /\ file' = "complete" /\ fileChange' = w[s].from + 1
  /\ WritingEnds(Filling)
  /\ w' = [w EXCEPT ![s].pc = "put", ![s].readable = TRUE, ![s].complete = TRUE,
                    ![s].refresh = FALSE]
  /\ UNCHANGED <<registered, call, row, boot, change>>

(* The last page, then FinalizeSnapshot or the swap, and handleProgress.   *)
Commit(s) ==
  /\ w[s].pc = "rest"
  /\ file' = "complete" /\ fileChange' = w[s].from
  /\ WritingEnds(Filling)
  /\ w' = [w EXCEPT ![s].pc = "put", ![s].readable = TRUE, ![s].complete = TRUE,
                    ![s].refresh = FALSE]
  /\ UNCHANGED <<registered, call, row, boot, change>>

(* PutSyncState, whose error is ignored. *)
PutState(s) ==
  /\ w[s].pc = "put"
  /\ w' = [w EXCEPT ![s].pc = "finish", ![s].runOk = TRUE]
  /\ row' \in {row, "synced"}
  /\ UNCHANGED <<registered, call, diskVars, boot, change>>

(* No token, an error of Airtable or DuckDB, the run timeout: a partial    *)
(* active file stays, a staging file is discarded.  A failed               *)
(* initialization may leave a new, empty file.                             *)
FailRun(s) ==
  /\ w[s].pc \in {"fetch", "pages", "rest"}
  /\ w' = [w EXCEPT ![s].pc = "finish", ![s].runOk = FALSE]
  /\ \/ UNCHANGED file
     \/ w[s].pc = "fetch" /\ file = "absent" /\ file' = "partial"
  /\ WritingEnds(Filling)
  /\ UNCHANGED <<registered, call, fileChange, row, boot, change>>

(* The end of a run that forgets the follow-up. *)
FinishRunForgetting(s) ==
  LET ok == w[s].runOk IN
  /\ w[s].pc = "finish"
  /\ w' = [w EXCEPT ![s] =
             [w[s] EXCEPT !.pc = "loop", !.inProgress = FALSE, !.rerun = FALSE,
                          !.failed = ~ok, !.backingOff = ~ok,
                          !.readable = w[s].readable \/ ok,
                          !.complete = w[s].complete \/ ok,
                          !.sampled = w[s].sampled \/ ok,
                          !.refresh = w[s].refresh /\ ~ok /\ ~w[s].complete,
                          !.staging = FALSE, !.runOk = FALSE]]
  /\ UNCHANGED <<registered, call, diskVars, row, boot, change>>

(* The end of a run in run(). *)
FinishRun(s) ==
  LET ok == w[s].runOk IN
  /\ w[s].pc = "finish"
  /\ w' = [w EXCEPT ![s] =
             [w[s] EXCEPT !.pc = "loop", !.inProgress = FALSE,
                          !.requested = w[s].requested \/ w[s].rerun, !.rerun = FALSE,
                          !.failed = ~ok, !.backingOff = ~ok,
                          !.readable = w[s].readable \/ ok,
                          !.complete = w[s].complete \/ ok,
                          !.sampled = w[s].sampled \/ ok,
                          !.refresh = w[s].refresh /\ ~ok /\ ~w[s].complete,
                          !.staging = FALSE, !.runOk = FALSE]]
  /\ UNCHANGED <<registered, call, diskVars, row, boot, change>>

-----------------------------------------------------------------------------
(* The start of the server: SweepStaleDuckDBFiles, RestoreActiveWorkers;   *)
(* an error of either is logged and the server goes on.  Whether the row's *)
(* active_until has passed is open each time it is read.                   *)

SweepFiles ==
  /\ boot = "sweep"
  /\ boot' = "restore"
  /\ \/ file' = "absent" /\ fileChange' = 0
     \/ UNCHANGED <<file, fileChange>>
  /\ UNCHANGED <<registered, w, call, trouble, row, change>>

(* restoreWorker: the goroutine runs before restoreFromState.              *)
RestoreWorker(s) ==
  /\ boot = "restore"
  /\ row # "none" /\ w[s].pc = "none"
  /\ registered' = s
  /\ \E state \in NewWorkers : w' = [w EXCEPT ![s] = state]
  /\ boot' = "restoring"
  /\ UNCHANGED <<call, diskVars, row, change>>

(* restoreFromState and notify. *)
RestoreState ==
  LET s == registered IN
  /\ boot = "restoring"
  /\ \E due \in BOOLEAN :
       w' = [w EXCEPT ![s] =
               [w[s] EXCEPT
                  !.active = TRUE, !.wake = TRUE,
                  !.readable = file # "absent" \/ (row # "synced" /\ w[s].readable),
                  !.complete = IF row = "synced" THEN file # "absent" ELSE w[s].complete,
                  !.sampled = w[s].sampled \/ row = "synced",
                  !.due = IF row = "synced" THEN due ELSE w[s].due]]
  /\ boot' = "up"
  /\ UNCHANGED <<registered, call, diskVars, row, change>>

NothingToRestore ==
  /\ boot = "restore"
  /\ boot' = "up"
  /\ UNCHANGED <<registered, w, call, diskVars, row, change>>

-----------------------------------------------------------------------------
(* The environment *)

(* Times pass.  The TTL is minutes long: it does not run out while a call  *)
(* that has just touched the worker runs without waiting.                  *)
TTLElapses(s) ==
  /\ w[s].active
  /\ \A c \in Calls : call[c].worker = s => call[c].pc \in {"touch", "wait", "lock", "fill"}
  /\ w' = [w EXCEPT ![s].active = FALSE]
  /\ UNCHANGED <<registered, call, diskVars, row, boot, change>>

IntervalElapses(s) ==
  /\ w[s].pc \notin {"none", "dead"} /\ ~w[s].due
  /\ w' = [w EXCEPT ![s].due = TRUE]
  /\ UNCHANGED <<registered, call, diskVars, row, boot, change>>

BackoffElapses(s) ==
  /\ w[s].backingOff
  /\ w' = [w EXCEPT ![s].backingOff = FALSE]
  /\ UNCHANGED <<registered, call, diskVars, row, boot, change>>

(* The process dies and starts again, perhaps on an empty disk. *)
Crash ==
  /\ registered' = NoWorker
  /\ w' = [s \in Slots |-> NoState]
  /\ call' = [c \in Calls |-> NoCall]
  /\ boot' = "sweep" /\ trouble' = {}
  /\ \/ UNCHANGED <<file, fileChange>>
     \/ file' = "absent" /\ fileChange' = 0
  /\ UNCHANGED <<row, change>>

CallStep(c) ==
  \/ Touch(c) \/ Check(c) \/ Request(c) \/ RequestFollowUp(c)
  \/ WaitEnds(c) \/ WaitFails(c) \/ OpenFile(c)
  \/ SyncBaseStarts(c) \/ SyncBaseEnds(c) \/ SyncBaseFails(c)

RunStep(s) ==
  \/ StartRun(s) \/ InitializeSnapshot(s) \/ FirstProgress(s) \/ FirstPages(s)
  \/ Commit(s) \/ PutState(s) \/ FailRun(s) \/ FinishRun(s)

WorkerStep(s) ==
  \/ NextAction(s) \/ Wake(s) \/ RunStep(s) \/ RemoveFile(s) \/ RemoveWorker(s)

BootStep == SweepFiles \/ (\E s \in Slots : RestoreWorker(s)) \/ RestoreState \/ NothingToRestore

Next ==
  \/ \E c \in Calls, k \in Kinds, s \in Slots : Activate(c, k, s)
  \/ \E c \in Calls : CallStep(c) \/ Cancel(c)
  \/ \E s \in Slots :
       WorkerStep(s) \/ TTLElapses(s) \/ IntervalElapses(s) \/ BackoffElapses(s)
  \/ BootStep \/ Crash

Spec == Init /\ [][Next]_vars

(* The goroutines and the calls go on, and time passes.  Airtable and the  *)
(* disk do not fail every run: a step of a run that could succeed again    *)
(* and again does so eventually.                                           *)
Fairness ==
  /\ \A s \in Slots :
       /\ WF_vars(WorkerStep(s))
       /\ SF_vars(InitializeSnapshot(s)) /\ SF_vars(FirstPages(s)) /\ SF_vars(Commit(s))
       /\ WF_vars(TTLElapses(s)) /\ WF_vars(IntervalElapses(s)) /\ WF_vars(BackoffElapses(s))
  /\ \A c \in Calls : WF_vars(CallStep(c))
  /\ WF_vars(BootStep)

FairSpec == Spec /\ Fairness

-----------------------------------------------------------------------------
(* Properties *)

(* One worker per base: a goroutine runs exactly for the registered        *)
(* worker, so a dying worker never removes the file or the entry of its    *)
(* successor and two runs of a base never overlap (getOrCreateWorker,      *)
(* cleanupExpired, removeWorker).                                          *)
OneWorker ==
  \A s \in Slots : w[s].pc \notin {"none", "dead"} <=> registered = s

(* A worker that calls itself readable has a file to read, until it has    *)
(* removed it itself.                                                      *)
ReadableHasFile ==
  \A s \in Slots :
    registered = s /\ w[s].readable /\ w[s].pc # "remove" => file # "absent"

(* A sync asked for after a mutation is not forgotten, whatever the worker *)
(* is doing when it is asked: a run that starts later is under way or will *)
(* be, or the worker leaves and the file with it (requestFollowUpSync and  *)
(* the end of run).                                                        *)
FollowUpNotLost ==
  \A s \in Slots :
    registered = s /\ w[s].asked > w[s].from =>
      w[s].requested \/ w[s].rerun \/ w[s].pc \in {"start"} \cup Leaving

(* While a complete snapshot is refreshed it stays: it is replaced by      *)
(* another complete one that is not older, or removed (shouldUseStaging,   *)
(* runSync).  The code keeps to it except while a sync writes that could   *)
(* not read the file's sync_info and so emptied it, and while a mutation's *)
(* SyncBase and a run of the worker write at the same time (lockSync is    *)
(* not taken by the worker).                                               *)
SnapshotKept ==
  [][file = "complete" /\ trouble = {} /\ trouble' = {} =>
       \/ file' = "absent"
       \/ file' = "complete" /\ fileChange' >= fileChange]_vars

(* A base that stays in use ends up with a snapshot that includes every    *)
(* mutation, once no run empties the file any more because it could not    *)
(* read its sync_info (the continuous sync loop).                          *)
EventuallyFresh ==
  \A s \in Slots :
    <>[](registered = s /\ w[s].active /\ "unread" \notin trouble)
      => <>[](file = "complete" /\ fileChange = change)

(* A base nobody uses any more loses its worker; and its file, if every    *)
(* SyncBase that a mutation has run for itself was followed by the expiry  *)
(* of a worker.  The code leaves the file of a SyncBase without one where  *)
(* it is until the next start of the server (ensureSynced).                *)
EvictedWhenIdle ==
  [](boot = "up") /\ <>[](\A c \in Calls : call[c].pc = "idle") =>
    /\ <>[](registered = NoWorker)
    /\ ((\E c \in Calls : call[c].pc \in {"lock", "fill"})
          ~> \E s \in Slots : w[s].pc = "cleanup")
         => <>[](file = "absent")

-----------------------------------------------------------------------------
(* What the documents and comments say and the code does not keep to *)

(* SPEC.md: read_snapshot tells the agent "when they are looking at a       *)
(* partial initial snapshot".  Here: a snapshot that the status calls      *)
(* complete is complete, until the worker has removed it                   *)
(* (restoreFromState, handleProgress, snapshotStatus).                     *)
ReadSnapshotTrue ==
  boot = "up" =>
    \A s \in Slots :
      registered = s /\ w[s].complete /\ w[s].pc # "remove" => file = "complete"

(* SPEC.md on a query on a base with no local snapshot: it starts a        *)
(* background sync and executes against the visible subset.  Here: it does *)
(* not wait for ever.                                                      *)
QueriesAnswered ==
  \A c \in Calls :
    call[c].pc = "wait" /\ call[c].kind = "readable" ~> call[c].pc # "wait"
=============================================================================
