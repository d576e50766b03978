------------------------------- MODULE SyncRun -------------------------------
(***************************************************************************)
(* One sync run of a base (Service.runSync, internal/sync/service.go): the *)
(* goroutines that list the pages of its tables, the coordinator that      *)
(* writes them, the two channels between them, the run's deadline, and the *)
(* tool calls that read the active file under the read lock meanwhile.     *)
(* The worker of the base (SyncWorker.tla) starts one run after the other. *)
(*                                                                         *)
(* Tables are numbered in the order of their plans; the pages of a table   *)
(* are numbered from 1, a page's offset being its number.                  *)
(***************************************************************************)
EXTENDS Naturals, Sequences

CONSTANTS
  NTables,     \* number of tables of the base
  Pages,       \* Pages[t]: number of pages of table t
  MaxParallel, \* maxParallelRecordRequests
  Readers,     \* tool calls that read the active file
  DiskMayFail  \* whether os.Rename and the read of sync_info may fail

Tables == 1..NTables

ASSUME TablesAssumption == NTables \in Nat /\ Pages \in [Tables -> Nat \ {0}]
ASSUME ParallelAssumption == MaxParallel \in Nat \ {0}
ASSUME FaultAssumption == DiskMayFail \in BOOLEAN

(* The goroutines of a run. *)
Workers == 1..(IF NTables < MaxParallel THEN NTables ELSE MaxParallel)

VARIABLES
  pc,          \* where runSync is
  staging,     \* useStaging
  active,      \* the file {base}.db, see Files
  stagingFile, \* the file {base}.staging.db
  written,     \* written[t]: pages of table t in the target file, in order
  hand,        \* the result the coordinator is working on
  jobs,        \* the channel jobs ...
  closed,      \* ... and whether it is closed
  results,     \* the channel results
  worker,      \* worker[k]: goroutine k and the page it works on
  cancelled,   \* cancel() has been called
  expired,     \* the deadline of ctx has passed
  reading      \* the readers that hold the read lock

runVars == <<pc, staging, written, hand>>
fileVars == <<active, stagingFile>>
chanVars == <<jobs, closed, results, worker>>
vars == <<runVars, fileVars, chanVars, cancelled, expired, reading>>

(* No page. *)
NoPage == [table |-> 0, page |-> 0]

(* "old": the complete snapshot of an earlier run; "failed": partial, and  *)
(* its status says that the run failed.                                    *)
Files == {"absent", "partial", "failed", "old", "new"}

Page == [table : Tables, page : Nat]
Result == [table : Tables, page : Nat, ok : BOOLEAN]

Looping == {"receive", "apply"}
Over == {"done", "failed"}
PCs == {"start", "init", "stop", "mark", "join", "finalize", "swap", "unlink",
        "rename"} \cup Looping \cup Over

TypeOK ==
  /\ pc \in PCs
  /\ staging \in BOOLEAN
  /\ active \in Files
  /\ stagingFile \in {"absent", "partial", "final"}
  /\ written \in [Tables -> Seq(Nat)]
  /\ hand \in Page \cup {NoPage}
  /\ jobs \in Seq(Page) /\ Len(jobs) <= NTables
  /\ closed \in BOOLEAN
  /\ results \in Seq(Result) /\ Len(results) <= NTables
  /\ worker \in [Workers -> [pc : {"gone", "receive", "list"}, job : Page \cup {NoPage}]
                       \cup [pc : {"send"}, job : Page, ok : BOOLEAN]]
  /\ cancelled \in BOOLEAN
  /\ expired \in BOOLEAN
  /\ reading \subseteq Readers

Gone == [pc |-> "gone", job |-> NoPage]
Idle == [pc |-> "receive", job |-> NoPage]
NothingWritten == [t \in Tables |-> <<>>]

Init ==
  /\ pc = "start"
  /\ staging = FALSE
  /\ active \in {"absent", "partial", "old"}
  /\ stagingFile = "absent"
  /\ written = NothingWritten
  /\ hand = NoPage
  /\ jobs = <<>> /\ closed = FALSE /\ results = <<>>
  /\ worker = [k \in Workers |-> Gone]
  /\ cancelled = FALSE /\ expired = FALSE
  /\ reading = {}

(* workerCtx.Done() *)
Done == cancelled \/ expired

AllGone == \A k \in Workers : worker[k].pc = "gone"

-----------------------------------------------------------------------------
(* Before the pages *)

Abort(file) ==
  /\ pc' = "failed"
  /\ stagingFile' = file

(* GetBaseSchema, buildSyncPlans, shouldUseStaging; a staging file left    *)
(* over is removed.  A file whose sync_info cannot be read is built anew.  *)
Prepare ==
  /\ pc = "start"
  /\ \/ /\ ~expired
        /\ pc' = "init"
        /\ \/ staging' = (active = "old")
           \/ DiskMayFail /\ staging' = FALSE
        /\ stagingFile' = IF staging' THEN "absent" ELSE stagingFile
     \/ Abort(stagingFile) /\ UNCHANGED staging
  /\ UNCHANGED <<active, written, hand, chanVars, cancelled, expired, reading>>

(* The first two pages of every table are asked for at once. *)
InitializeTwoPages ==
  /\ pc = "init" /\ ~expired
  /\ IF staging THEN stagingFile' = "partial" /\ UNCHANGED active
                ELSE reading = {} /\ active' = "partial" /\ UNCHANGED stagingFile
  /\ jobs' = [t \in Tables |-> [table |-> t, page |-> 1]]
             \o [t \in Tables |-> [table |-> t, page |-> 2]]
  /\ worker' = [k \in Workers |-> Idle]
  /\ pc' = IF NTables = 0 THEN "join" ELSE "receive"
  /\ UNCHANGED <<staging, written, hand, closed, results, cancelled, expired, reading>>

(* The file is initialized, the active one under the write lock; then the  *)
(* first page of every table is asked for and the goroutines start.        *)
Initialize ==
  /\ pc = "init" /\ ~expired
  /\ IF staging THEN stagingFile' = "partial" /\ UNCHANGED active
                ELSE reading = {} /\ active' = "partial" /\ UNCHANGED stagingFile
  /\ jobs' = [t \in Tables |-> [table |-> t, page |-> 1]]
  /\ worker' = [k \in Workers |-> Idle]
  /\ pc' = IF NTables = 0 THEN "join" ELSE "receive"
  /\ UNCHANGED <<staging, written, hand, closed, results, cancelled, expired, reading>>

(* InitializeSnapshot is one transaction in a file that is created when    *)
(* there was none; a staging file stays.                                   *)
InitializeFails ==
  /\ pc = "init"
  /\ \/ Abort(stagingFile) /\ UNCHANGED active
     \/ staging /\ Abort("partial") /\ UNCHANGED active
     \/ ~staging /\ active = "absent" /\ reading = {} /\ Abort(stagingFile) /\ active' = "partial"
  /\ UNCHANGED <<staging, written, hand, chanVars, cancelled, expired, reading>>

-----------------------------------------------------------------------------
(* A goroutine: for job := range jobs *)

Receive(k) ==
  /\ worker[k].pc = "receive"
  /\ \/ /\ jobs # <<>>
        /\ worker' = [worker EXCEPT ![k] = [pc |-> "list", job |-> Head(jobs)]]
        /\ jobs' = Tail(jobs)
     \/ /\ jobs = <<>> /\ closed
        /\ worker' = [worker EXCEPT ![k] = Gone]
        /\ UNCHANGED jobs
  /\ UNCHANGED <<runVars, fileVars, closed, results, cancelled, expired, reading>>

(* ListRecordsPage returns the page, or an error. *)
ListRecordsPage(k) ==
  /\ worker[k].pc = "list"
  /\ \E ok \in BOOLEAN :
       /\ ok => ~Done
       /\ worker' = [worker EXCEPT ![k] = [pc |-> "send", job |-> @.job, ok |-> ok]]
  /\ UNCHANGED <<runVars, fileVars, jobs, closed, results, cancelled, expired, reading>>

(* An error that is not handed on. *)
SendPagesOnly(k) ==
  LET me == worker[k] IN
  /\ me.pc = "send"
  /\ IF me.ok
     THEN results' = Append(results, [table |-> me.job.table, page |-> me.job.page, ok |-> TRUE])
     ELSE UNCHANGED results
  /\ worker' = [worker EXCEPT ![k] = IF me.ok THEN Idle ELSE Gone]
  /\ UNCHANGED <<runVars, fileVars, jobs, closed, cancelled, expired, reading>>

(* The select at the end of a job picks any case that is ready: the result *)
(* goes into the channel, or it is dropped because workerCtx is done.  The *)
(* goroutine ends after an error and after a dropped result.               *)
Send(k) ==
  LET me == worker[k] IN
  /\ me.pc = "send"
  /\ \/ /\ Len(results) < NTables
        /\ results' = Append(results, [table |-> me.job.table, page |-> me.job.page, ok |-> me.ok])
        /\ worker' = [worker EXCEPT ![k] = IF me.ok THEN Idle ELSE Gone]
     \/ /\ Done
        /\ worker' = [worker EXCEPT ![k] = Gone]
        /\ UNCHANGED results
  /\ UNCHANGED <<runVars, fileVars, jobs, closed, cancelled, expired, reading>>

-----------------------------------------------------------------------------
(* The coordinator *)

(* cancel(), close(jobs), and on to workerWG.Wait(). *)
Stop ==
  /\ pc' = "stop"
  /\ cancelled' = TRUE
  /\ closed' = TRUE
  /\ hand' = NoPage

(* result := <-results, with no case for ctx. *)
TakeResult ==
  /\ pc = "receive"
  /\ results # <<>>
  /\ results' = Tail(results)
  /\ LET r == Head(results) IN
       \/ /\ r.ok
          /\ hand' = [table |-> r.table, page |-> r.page]
          /\ pc' = "apply"
          /\ UNCHANGED <<closed, cancelled>>
       \/ ~r.ok /\ Stop
  /\ UNCHANGED <<staging, written, fileVars, jobs, worker, expired, reading>>

(* The tables whose last page is not in the file once p is. *)
PendingAfter(p) ==
  {t \in Tables : IF t = p.table THEN p.page < Pages[t] ELSE Len(written[t]) < Pages[t]}

(* The next page is asked for before this one is in the file, and again    *)
(* after it.                                                               *)
ApplyAskingTwice ==
  LET t == hand.table IN
  /\ pc = "apply" /\ ~expired
  /\ staging \/ reading = {}
  /\ written' = [written EXCEPT ![t] = Append(@, hand.page)]
  /\ jobs' = IF hand.page < Pages[t]
             THEN jobs \o <<[table |-> t, page |-> hand.page + 1], [table |-> t, page |-> hand.page + 1]>>
             ELSE jobs
  /\ closed' = (PendingAfter(hand) = {})
  /\ pc' = IF PendingAfter(hand) = {} THEN "join" ELSE "receive"
  /\ hand' = NoPage
  /\ UNCHANGED <<staging, fileVars, results, worker, cancelled, expired, reading>>

(* The first table that is finished ends the loop. *)
ApplyFirstEnds ==
  LET t == hand.table
      last == hand.page = Pages[t]
  IN
  /\ pc = "apply" /\ ~expired
  /\ staging \/ reading = {}
  /\ written' = [written EXCEPT ![t] = Append(@, hand.page)]
  /\ jobs' = IF last THEN jobs ELSE Append(jobs, [table |-> t, page |-> hand.page + 1])
  /\ closed' = last
  /\ pc' = IF last THEN "join" ELSE "receive"
  /\ hand' = NoPage
  /\ UNCHANGED <<staging, fileVars, results, worker, cancelled, expired, reading>>

(* ApplyTablePage, under the write lock when it writes the active file;    *)
(* then the next page of the table is asked for, or, after the last page   *)
(* of the last table, jobs is closed and the goroutines are waited for.    *)
Apply ==
  LET t == hand.table
      pending == PendingAfter(hand)
  IN
  /\ pc = "apply" /\ ~expired
  /\ staging \/ reading = {}
  /\ written' = [written EXCEPT ![t] = Append(@, hand.page)]
  /\ \/ /\ hand.page < Pages[t]
        /\ Len(jobs) < NTables
        /\ jobs' = Append(jobs, [table |-> t, page |-> hand.page + 1])
     \/ hand.page = Pages[t] /\ UNCHANGED jobs
  /\ closed' = (pending = {})
  /\ pc' = IF pending = {} THEN "join" ELSE "receive"
  /\ hand' = NoPage
  /\ UNCHANGED <<staging, fileVars, results, worker, cancelled, expired, reading>>

(* It fails, as it does once the deadline has passed. *)
ApplyFails ==
  /\ pc = "apply"
  /\ Stop
  /\ UNCHANGED <<staging, written, fileVars, jobs, results, worker, expired, reading>>

(* The failure is marked in the active file of every failed run. *)
StoppedMarkingAlways ==
  /\ pc = "stop" /\ AllGone
  /\ pc' = "mark"
  /\ stagingFile' = IF staging THEN "absent" ELSE stagingFile
  /\ UNCHANGED <<staging, active, written, hand, chanVars, cancelled, expired, reading>>

(* workerWG.Wait() after a failure. *)
Stopped ==
  /\ pc = "stop" /\ AllGone
  /\ IF staging THEN Abort("absent") ELSE pc' = "mark" /\ UNCHANGED stagingFile
  /\ UNCHANGED <<staging, active, written, hand, chanVars, cancelled, expired, reading>>

(* markActiveSyncFailed: without the lock, under a ctx that may be over;   *)
(* its error is ignored.                                                   *)
MarkFailed ==
  /\ pc = "mark"
  /\ pc' = "failed"
  /\ \/ ~expired /\ active' = "failed"
     \/ UNCHANGED active
  /\ UNCHANGED <<staging, stagingFile, written, hand, chanVars, cancelled, expired, reading>>

(* workerWG.Wait() after the last page. *)
Join ==
  /\ pc = "join" /\ AllGone
  /\ pc' = "finalize"
  /\ UNCHANGED <<staging, written, hand, fileVars, chanVars, cancelled, expired, reading>>

(* FinalizeSnapshot; the staging file is closed. *)
Finalize ==
  /\ pc = "finalize"
  /\ \/ /\ ~expired /\ staging
        /\ stagingFile' = "final" /\ pc' = "swap"
        /\ UNCHANGED active
     \/ /\ ~expired /\ ~staging /\ reading = {}
        /\ active' = "new" /\ pc' = "done"
        /\ UNCHANGED stagingFile
     \/ /\ Abort(IF staging THEN "absent" ELSE stagingFile)
        /\ UNCHANGED active
  /\ UNCHANGED <<staging, written, hand, chanVars, cancelled, expired, reading>>

-----------------------------------------------------------------------------
(* swapDatabaseFiles, under the write lock *)

Locked == pc \in {"unlink", "rename"}

(* The first os.Rename. *)
Swap ==
  /\ pc = "swap" /\ reading = {}
  /\ \/ active' = "new" /\ stagingFile' = "absent" /\ pc' = "done"
     \/ DiskMayFail /\ pc' = "unlink" /\ UNCHANGED fileVars
  /\ UNCHANGED <<staging, written, hand, chanVars, cancelled, expired, reading>>

(* os.Remove of the active file. *)
Unlink ==
  /\ pc = "unlink"
  /\ \/ active' = "absent" /\ pc' = "rename" /\ UNCHANGED stagingFile
     \/ Abort("absent") /\ UNCHANGED active
  /\ UNCHANGED <<staging, written, hand, chanVars, cancelled, expired, reading>>

(* The second os.Rename. *)
Rename ==
  /\ pc = "rename"
  /\ \/ active' = "new" /\ stagingFile' = "absent" /\ pc' = "done"
     \/ DiskMayFail /\ Abort("absent") /\ UNCHANGED active
  /\ UNCHANGED <<staging, written, hand, chanVars, cancelled, expired, reading>>

-----------------------------------------------------------------------------
(* The caller, the clock and the readers *)

(* The next run has a deadline, channels and goroutines of its own. *)
NextRun ==
  /\ pc \in Over
  /\ pc' = "start"
  /\ staging' = FALSE
  /\ active' = IF active = "new" THEN "old" ELSE active
  /\ written' = NothingWritten
  /\ hand' = NoPage
  /\ jobs' = <<>> /\ closed' = FALSE /\ results' = <<>>
  /\ worker' = [k \in Workers |-> Gone]
  /\ cancelled' = FALSE /\ expired' = FALSE
  /\ UNCHANGED <<stagingFile, reading>>

(* syncRunTimeout passes. *)
Timeout ==
  /\ pc \notin Over /\ ~expired
  /\ expired' = TRUE
  /\ UNCHANGED <<runVars, fileVars, chanVars, cancelled, reading>>

(* QueryResolvedBase, ListResolvedSchema, ReadTableRowsByIDs. *)
StartRead(r) ==
  /\ r \notin reading /\ ~Locked
  /\ reading' = reading \cup {r}
  /\ UNCHANGED <<runVars, fileVars, chanVars, cancelled, expired>>

EndRead(r) ==
  /\ r \in reading
  /\ reading' = reading \ {r}
  /\ UNCHANGED <<runVars, fileVars, chanVars, cancelled, expired>>

Worker(k) == Receive(k) \/ ListRecordsPage(k) \/ Send(k)

Coordinator ==
  \/ Prepare \/ Initialize \/ InitializeFails
  \/ TakeResult \/ Apply \/ ApplyFails \/ Stopped \/ MarkFailed
  \/ Join \/ Finalize \/ Swap \/ Unlink \/ Rename

Next ==
  \/ Coordinator
  \/ \E k \in Workers : Worker(k)
  \/ NextRun \/ Timeout
  \/ \E r \in Readers : StartRead(r) \/ EndRead(r)

Spec == Init /\ [][Next]_vars

(* The goroutines of the process go on, calls to Airtable return and reads *)
(* end.  SF: a writer that waits for the lock gets it, since a waiting     *)
(* writer keeps new readers out (sync.RWMutex).                            *)
Fairness ==
  /\ SF_vars(Coordinator)
  /\ \A k \in Workers : WF_vars(Worker(k))
  /\ \A r \in Readers : WF_vars(EndRead(r))

FairSpec == Spec /\ Fairness

-----------------------------------------------------------------------------
(* Properties *)

(* Who has the next page of table t: the channel jobs, a goroutine, the    *)
(* channel results, the coordinator.                                       *)
Holders(t) ==
  {<<"job", i>> : i \in {j \in 1..Len(jobs) : jobs[j].table = t}}
  \cup {<<"worker", k>> : k \in {j \in Workers : worker[j].job.table = t}}
  \cup {<<"result", i>> : i \in {j \in 1..Len(results) : results[j].table = t}}
  \cup {<<"hand", 1>> : i \in {j \in {1} : hand.table = t}}

(* No page is lost, doubled or out of order: the pages of a table are      *)
(* never in two hands at once, so no two goroutines touch runtimes[t]      *)
(* without an order between them and neither channel ever blocks a sender; *)
(* and while the coordinator waits and the deadline has not passed, the    *)
(* rest of every unfinished table is in one.                               *)
OneHandPerTable ==
  /\ \A t \in Tables : \A x, y \in Holders(t) : x = y
  /\ pc \in Looping /\ ~expired =>
       \A t \in Tables : Len(written[t]) < Pages[t] <=> Holders(t) # {}

(* A snapshot that calls itself complete holds every page of every table   *)
(* once and in order, whatever the goroutines, the deadline and the        *)
(* disk did (the loop of runSync and FinalizeSnapshot).                    *)
CompleteHasAllPages ==
  pc = "done" =>
    /\ active = "new"
    /\ \A t \in Tables : written[t] = [p \in 1..Pages[t] |-> p]

(* A run whose deadline does not pass ends, whatever fails in it (the      *)
(* error paths of runSync and of its goroutines).                          *)
RunEnds == pc \notin Over ~> pc \in Over \/ expired

(* The run as SnapshotRun sees it.                                         *)
RunOf(label) ==
  IF label \in {"start"} \cup Over THEN "idle"
  ELSE IF staging THEN "staged" ELSE "direct"

Promise == INSTANCE SnapshotRun
             WITH file <- IF active = "failed" THEN "partial" ELSE active,
                  run <- RunOf(pc)

(* The run keeps the promise of SnapshotRun: readers of a complete         *)
(* snapshot see it replaced in one step or not at all, unless the disk     *)
(* fails in the swap (swapDatabaseFiles and the error paths of runSync).   *)
ImplementsSnapshotRun == Promise!RunSpec

-----------------------------------------------------------------------------
(* What the documents and comments say and the code does not keep to *)

(* syncRunTimeout "exists to turn an indefinitely stalled run into a       *)
(* normal retriable failure": a run whose deadline has passed ends.        *)
TimeoutEndsRun == expired ~> ~expired \/ pc \in Over
==============================================================================
