---------------------------- MODULE SyncRunProofs ----------------------------
(***************************************************************************)
(* Theorems about SyncRun, for any number of tables, pages, goroutines and *)
(* readers, with and without a disk that fails.                            *)
(***************************************************************************)
EXTENDS SyncRun, SequenceTheorems, TLAPS

-----------------------------------------------------------------------------
(* Type correctness, by groups of variables *)

PhaseType ==
  /\ pc \in PCs /\ staging \in BOOLEAN
  /\ active \in Files /\ stagingFile \in {"absent", "partial", "final"}
  /\ cancelled \in BOOLEAN /\ expired \in BOOLEAN /\ reading \subseteq Readers

(* The coordinator has a page in hand while it applies it. *)
HandType ==
  /\ written \in [Tables -> Seq(Nat)]
  /\ hand \in Page \cup {NoPage}
  /\ hand # NoPage <=> pc = "apply"

JobsType == jobs \in Seq(Page) /\ Len(jobs) <= NTables /\ closed \in BOOLEAN
ResultsType == results \in Seq(Result) /\ Len(results) <= NTables

(* A goroutine has a page exactly while it lists it and hands it on. *)
Workings ==
  [pc : {"gone", "receive"}, job : {NoPage}]
    \cup [pc : {"list"}, job : Page]
    \cup [pc : {"send"}, job : Page, ok : BOOLEAN]
WorkersType == worker \in [Workers -> Workings]

(* Before a run has initialized its file, it has done nothing. *)
NothingYet ==
  pc \in {"start", "init"} =>
    /\ written = NothingWritten /\ hand = NoPage
    /\ jobs = <<>> /\ results = <<>> /\ closed = FALSE
    /\ \A k \in Workers : worker[k] = Gone
    /\ cancelled = FALSE

TypeInv == PhaseType /\ HandType /\ JobsType /\ ResultsType /\ WorkersType /\ NothingYet

LEMMA TypeInvImpliesTypeOK == TypeInv => TypeOK
BY DEF TypeInv, TypeOK, PhaseType, HandType, JobsType, ResultsType, WorkersType, Workings

LEMMA NoPageApart == NoPage \notin Page /\ NoPage.table \notin Tables
BY DEF NoPage, Page, Tables

LEMMA EmptyChannels ==
  /\ <<>> \in Seq(Page) /\ <<>> \in Seq(Result)
  /\ Len(<<>>) <= NTables /\ FALSE \in BOOLEAN
<1>1. <<>> \in Seq(Page) /\ <<>> \in Seq(Result) /\ Len(<<>>) = 0
  BY EmptySeq
<1>. QED
  BY <1>1, TablesAssumption

LEMMA InitType == Init => TypeInv
<1> SUFFICES ASSUME Init PROVE TypeInv
  OBVIOUS
<1>1. PhaseType
  BY DEF Init, PhaseType, PCs, Files
<1>2. HandType
  BY DEF Init, HandType, NothingWritten
<1>3. JobsType /\ ResultsType
  <2>1. jobs = <<>> /\ results = <<>> /\ closed = FALSE
    BY DEF Init
  <2>. QED
    BY <2>1, EmptyChannels, Zenon DEF JobsType, ResultsType
<1>4. WorkersType /\ NothingYet
  BY DEF Init, WorkersType, Workings, Gone, NothingYet
<1>. QED
  BY <1>1, <1>2, <1>3, <1>4 DEF TypeInv

(* The first page of every table. *)
FirstJobs == [t \in Tables |-> [table |-> t, page |-> 1]]

LEMMA FirstJobsType == FirstJobs \in Seq(Page) /\ Len(FirstJobs) = NTables
<1>1. FirstJobs \in [1..NTables -> Page]
  BY DEF FirstJobs, Page, Tables
<1>. QED
  BY <1>1, TablesAssumption, SeqDef, LenProperties DEF FirstJobs, Tables

(* The steps of a run that leave its pages alone: before them, after them, *)
(* and those of the clock and of the readers.                              *)
LEMMA QuietType ==
  ASSUME TypeInv, PhaseType', UNCHANGED <<written, hand, chanVars>>,
         pc' # "apply", pc # "apply",
         pc' \in {"start", "init"} => pc \in {"start", "init"} /\ UNCHANGED cancelled
  PROVE  TypeInv'
BY DEF TypeInv, HandType, JobsType, ResultsType, WorkersType, NothingYet, chanVars

LEMMA PrepareType == TypeInv /\ Prepare => TypeInv'
<1> SUFFICES ASSUME TypeInv, Prepare PROVE TypeInv'
  OBVIOUS
<1>1. PhaseType'
  BY DEF TypeInv, PhaseType, Prepare, Abort, PCs, Over
<1>. QED
  BY <1>1, QuietType DEF Prepare, Abort

LEMMA InitializeType == TypeInv /\ Initialize => TypeInv'
<1> SUFFICES ASSUME TypeInv, Initialize PROVE TypeInv'
  OBVIOUS
<1>1. PhaseType'
  BY DEF TypeInv, PhaseType, Initialize, PCs, Looping, Files
<1>2. HandType' /\ NothingYet'
  BY DEF TypeInv, HandType, Initialize, NothingYet
<1>3. JobsType' /\ ResultsType'
  BY FirstJobsType, TablesAssumption DEF TypeInv, JobsType, ResultsType, Initialize, FirstJobs
<1>4. WorkersType'
  BY DEF Initialize, WorkersType, Workings, Idle
<1>. QED
  BY <1>1, <1>2, <1>3, <1>4 DEF TypeInv

LEMMA InitializeFailsType == TypeInv /\ InitializeFails => TypeInv'
<1> SUFFICES ASSUME TypeInv, InitializeFails PROVE TypeInv'
  OBVIOUS
<1>1. PhaseType'
  BY DEF TypeInv, PhaseType, InitializeFails, Abort, PCs, Over, Files
<1>. QED
  BY <1>1, QuietType DEF InitializeFails, Abort

(* The step of a goroutine: it changes itself and one of the channels.     *)
LEMMA WorkerType ==
  ASSUME TypeInv, NEW k \in Workers, NEW w \in Workings, worker[k] # Gone,
         worker' = [worker EXCEPT ![k] = w],
         JobsType', ResultsType',
         UNCHANGED <<runVars, fileVars, closed, cancelled, expired, reading>>
  PROVE  TypeInv'
<1>1. pc \notin {"start", "init"}
  BY DEF TypeInv, NothingYet
<1>. QED
  BY <1>1 DEF TypeInv, PhaseType, HandType, WorkersType, NothingYet, runVars, fileVars

LEMMA ReceiveType == ASSUME TypeInv, NEW k \in Workers, Receive(k) PROVE TypeInv'
<1>1. worker[k] # Gone
  BY DEF Receive, Gone
<1>2. CASE jobs # <<>>
  <2>1. /\ Head(jobs) \in Page /\ Tail(jobs) \in Seq(Page)
        /\ Len(Tail(jobs)) = Len(jobs) - 1 /\ Len(jobs) \in Nat
    BY <1>2, HeadTailProperties, LenProperties DEF TypeInv, JobsType
  <2>2. JobsType' /\ ResultsType'
    <3>1. jobs' = Tail(jobs) /\ UNCHANGED <<closed, results>>
      BY <1>2 DEF Receive
    <3>. QED
      BY <2>1, <3>1, TablesAssumption DEF TypeInv, JobsType, ResultsType
  <2>3. [pc |-> "list", job |-> Head(jobs)] \in Workings
    BY <2>1 DEF Workings
  <2>. QED
    BY <1>1, <1>2, <2>2, <2>3, WorkerType DEF Receive
<1>3. CASE jobs = <<>>
  <2>1. JobsType' /\ ResultsType' /\ Gone \in Workings
    BY <1>3 DEF Receive, TypeInv, JobsType, ResultsType, Gone, Workings
  <2>. QED
    BY <1>1, <1>3, <2>1, WorkerType DEF Receive
<1>. QED
  BY <1>2, <1>3

LEMMA ListType == ASSUME TypeInv, NEW k \in Workers, ListRecordsPage(k) PROVE TypeInv'
<1>1. worker[k] # Gone /\ worker[k].job \in Page
  BY DEF ListRecordsPage, Gone, TypeInv, WorkersType, Workings
<1>2. JobsType' /\ ResultsType'
  BY DEF ListRecordsPage, TypeInv, JobsType, ResultsType
<1>3. PICK ok \in BOOLEAN :
        worker' = [worker EXCEPT ![k] = [pc |-> "send", job |-> @.job, ok |-> ok]]
  BY DEF ListRecordsPage
<1>4. [pc |-> "send", job |-> worker[k].job, ok |-> ok] \in Workings
  BY <1>1 DEF Workings
<1>5. worker' = [worker EXCEPT ![k] = [pc |-> "send", job |-> worker[k].job, ok |-> ok]]
  BY <1>3
<1>. QED
  BY <1>1, <1>2, <1>4, <1>5, WorkerType DEF ListRecordsPage

LEMMA SendType == ASSUME TypeInv, NEW k \in Workers, Send(k) PROVE TypeInv'
<1>1. worker[k] # Gone /\ worker[k].job \in Page /\ worker[k].ok \in BOOLEAN
  BY DEF Send, Gone, TypeInv, WorkersType, Workings
<1>2. Gone \in Workings /\ Idle \in Workings
  BY DEF Gone, Idle, Workings
<1>3. JobsType'
  BY DEF Send, TypeInv, JobsType
<1>4. ResultsType'
  <2>1. [table |-> worker[k].job.table, page |-> worker[k].job.page, ok |-> worker[k].ok] \in Result
    BY <1>1 DEF Page, Result
  <2>2. \/ /\ Len(results) < NTables
           /\ results' = Append(results, [table |-> worker[k].job.table,
                                         page |-> worker[k].job.page, ok |-> worker[k].ok])
        \/ results' = results
    BY DEF Send
  <2>3. results \in Seq(Result) /\ Len(results) \in Nat /\ Len(results) <= NTables
    BY LenProperties DEF TypeInv, ResultsType
  <2>. QED
    BY <2>1, <2>2, <2>3, AppendProperties, TablesAssumption DEF ResultsType
<1>5. PICK w \in Workings : worker' = [worker EXCEPT ![k] = w]
  BY <1>2 DEF Send
<1>. QED
  BY <1>1, <1>3, <1>4, <1>5, WorkerType DEF Send

LEMMA StopType ==
  ASSUME TypeInv, Stop, pc \in Looping, ResultsType',
         UNCHANGED <<staging, written, fileVars, jobs, worker, expired, reading>>
  PROVE  TypeInv'
BY DEF Stop, Looping, TypeInv, PhaseType, HandType, JobsType, WorkersType, NothingYet, PCs, fileVars

LEMMA TakeResultType == TypeInv /\ TakeResult => TypeInv'
<1> SUFFICES ASSUME TypeInv, TakeResult PROVE TypeInv'
  OBVIOUS
<1>1. /\ Head(results) \in Result /\ Tail(results) \in Seq(Result)
      /\ Len(Tail(results)) = Len(results) - 1 /\ Len(results) \in Nat
  BY HeadTailProperties, LenProperties DEF TakeResult, TypeInv, ResultsType
<1>2. ResultsType'
  BY <1>1, TablesAssumption DEF TakeResult, TypeInv, ResultsType
<1>3. CASE Stop
  BY <1>2, <1>3, StopType DEF TakeResult, Looping
<1>4. CASE /\ hand' = [table |-> Head(results).table, page |-> Head(results).page]
           /\ pc' = "apply"
           /\ UNCHANGED <<closed, cancelled>>
  <2>1. hand' \in Page
    BY <1>1, <1>4 DEF Page, Result
  <2>2. HandType'
    BY <1>4, <2>1, NoPageApart DEF TakeResult, TypeInv, HandType
  <2>3. PhaseType'
    BY <1>4 DEF TakeResult, TypeInv, PhaseType, PCs, Looping, fileVars
  <2>. QED
    BY <1>2, <1>4, <2>2, <2>3 DEF TakeResult, TypeInv, JobsType, WorkersType, NothingYet
<1>. QED
  BY <1>3, <1>4 DEF TakeResult

LEMMA ApplyType == TypeInv /\ Apply => TypeInv'
<1> SUFFICES ASSUME TypeInv, Apply PROVE TypeInv'
  OBVIOUS
<1>1. hand \in Page /\ hand.table \in Tables /\ hand.page \in Nat
  BY DEF Apply, TypeInv, HandType, Page
<1>2. written' = [written EXCEPT ![hand.table] = Append(@, hand.page)] /\ hand' = NoPage
  BY DEF Apply
<1>3. HandType'
  <2>1. Append(written[hand.table], hand.page) \in Seq(Nat)
    BY <1>1, AppendProperties DEF TypeInv, HandType
  <2>2. pc' # "apply"
    BY DEF Apply
  <2>. QED
    BY <1>1, <1>2, <2>1, <2>2 DEF TypeInv, HandType
<1>4. JobsType'
  <2>1. \/ /\ Len(jobs) < NTables
           /\ jobs' = Append(jobs, [table |-> hand.table, page |-> hand.page + 1])
        \/ jobs' = jobs
    BY DEF Apply
  <2>2. [table |-> hand.table, page |-> hand.page + 1] \in Page
    BY <1>1 DEF Page
  <2>3. jobs \in Seq(Page) /\ Len(jobs) \in Nat /\ Len(jobs) <= NTables
    BY LenProperties DEF TypeInv, JobsType
  <2>4. closed' \in BOOLEAN
    BY DEF Apply
  <2>. QED
    BY <2>1, <2>2, <2>3, <2>4, AppendProperties, TablesAssumption DEF JobsType
<1>5. PhaseType' /\ ResultsType' /\ WorkersType' /\ NothingYet'
  BY DEF Apply, TypeInv, PhaseType, PCs, Looping, ResultsType, WorkersType, NothingYet, fileVars
<1>. QED
  BY <1>3, <1>4, <1>5 DEF TypeInv

LEMMA ApplyFailsType == TypeInv /\ ApplyFails => TypeInv'
<1> SUFFICES ASSUME TypeInv, ApplyFails PROVE TypeInv'
  OBVIOUS
<1>1. ResultsType'
  BY DEF ApplyFails, TypeInv, ResultsType
<1>. QED
  BY <1>1, StopType DEF ApplyFails, Looping

(* What the run does once its pages are written or it has stopped. *)
Ending == Stopped \/ MarkFailed \/ Join \/ Finalize \/ Swap \/ Unlink \/ Rename

LEMMA EndingType == TypeInv /\ Ending => TypeInv'
<1> SUFFICES ASSUME TypeInv, Ending PROVE TypeInv'
  OBVIOUS
<1>1. PhaseType'
  BY DEF Ending, Stopped, MarkFailed, Join, Finalize, Swap, Unlink, Rename, Abort, TypeInv,
         PhaseType, PCs, Over, Files, fileVars
<1>. QED
  BY <1>1, QuietType
  DEF Ending, Stopped, MarkFailed, Join, Finalize, Swap, Unlink, Rename, Abort

LEMMA NextRunType == TypeInv /\ NextRun => TypeInv'
<1> SUFFICES ASSUME TypeInv, NextRun PROVE TypeInv'
  OBVIOUS
<1>1. PhaseType'
  BY DEF NextRun, TypeInv, PhaseType, PCs, Files
<1>2. HandType'
  BY DEF NextRun, HandType, NothingWritten
<1>3. JobsType' /\ ResultsType'
  <2>1. jobs' = <<>> /\ results' = <<>> /\ closed' = FALSE
    BY DEF NextRun
  <2>. QED
    BY <2>1, EmptyChannels, Zenon DEF JobsType, ResultsType
<1>4. WorkersType' /\ NothingYet'
  BY DEF NextRun, WorkersType, Workings, Gone, NothingYet
<1>. QED
  BY <1>1, <1>2, <1>3, <1>4 DEF TypeInv

LEMMA OthersType ==
  TypeInv /\ (Timeout \/ \E r \in Readers : StartRead(r) \/ EndRead(r)) => TypeInv'
BY DEF Timeout, StartRead, EndRead, TypeInv, PhaseType, HandType, JobsType, ResultsType, WorkersType,
       NothingYet, runVars, fileVars, chanVars

LEMMA NextType == TypeInv /\ [Next]_vars => TypeInv'
<1> SUFFICES ASSUME TypeInv, [Next]_vars PROVE TypeInv'
  OBVIOUS
<1>1. CASE Coordinator
  BY <1>1, PrepareType, InitializeType, InitializeFailsType, TakeResultType, ApplyType,
     ApplyFailsType, EndingType DEF Coordinator, Ending
<1>2. ASSUME NEW k \in Workers, Worker(k) PROVE TypeInv'
  BY <1>2, ReceiveType, ListType, SendType DEF Worker
<1>3. CASE NextRun \/ Timeout \/ \E r \in Readers : StartRead(r) \/ EndRead(r)
  BY <1>3, NextRunType, OthersType
<1>4. CASE UNCHANGED vars
  BY <1>4 DEF TypeInv, PhaseType, HandType, JobsType, ResultsType, WorkersType, NothingYet, vars,
              runVars, fileVars, chanVars
<1>. QED
  BY <1>1, <1>2, <1>3, <1>4 DEF Next

(* Type correctness; above all, that neither channel ever holds more than  *)
(* its capacity, one page per table.                                       *)
THEOREM TypeCorrect == Spec => []TypeOK
BY InitType, NextType, TypeInvImpliesTypeOK, PTL DEF Spec

-----------------------------------------------------------------------------
(* The active file *)

(* Once a run with a staging file has begun, the old snapshot stays until  *)
(* the swap; a run without one has emptied the active file.                *)
FileInv ==
  /\ pc = "start" => active # "new"
  /\ pc = "init" => active # "new" /\ (staging => active = "old")
  /\ pc \in {"receive", "apply", "stop", "join", "finalize"} =>
       active = IF staging THEN "old" ELSE "partial"
  /\ pc = "mark" => ~staging /\ active = "partial"
  /\ pc \in {"swap", "unlink"} => staging /\ active = "old"
  /\ pc = "rename" => staging /\ active = "absent"
  /\ pc \in {"unlink", "rename"} => DiskMayFail
  /\ pc = "done" => active = "new"
  /\ pc = "failed" => active # "new"

LEMMA InitFile == Init => FileInv
BY DEF Init, FileInv

LEMMA NextFile == TypeInv /\ FileInv /\ [Next]_vars => FileInv'
<1> SUFFICES ASSUME TypeInv, FileInv, [Next]_vars PROVE FileInv'
  OBVIOUS
<1>1. PhaseType
  BY DEF TypeInv
<1> USE <1>1 DEF FileInv, PhaseType, fileVars, runVars
<1>2. CASE Prepare
  BY <1>2 DEF Prepare, Abort
<1>3. CASE Initialize
  BY <1>3 DEF Initialize
<1>4. CASE InitializeFails
  BY <1>4 DEF InitializeFails, Abort
<1>5. CASE TakeResult
  BY <1>5 DEF TakeResult, Stop
<1>6. CASE Apply
  BY <1>6 DEF Apply
<1>7. CASE ApplyFails
  BY <1>7 DEF ApplyFails, Stop
<1>8. CASE Ending
  BY <1>8 DEF Ending, Stopped, MarkFailed, Join, Finalize, Swap, Unlink, Rename, Abort
<1>9. ASSUME NEW k \in Workers, Worker(k) PROVE FileInv'
  BY <1>9 DEF Worker, Receive, ListRecordsPage, Send
<1>10. CASE NextRun
  BY <1>10 DEF NextRun, Over
<1>11. CASE Timeout \/ \E r \in Readers : StartRead(r) \/ EndRead(r)
  BY <1>11 DEF Timeout, StartRead, EndRead
<1>12. CASE UNCHANGED vars
  BY <1>12 DEF vars
<1>. QED
  BY <1>2, <1>3, <1>4, <1>5, <1>6, <1>7, <1>8, <1>9, <1>10, <1>11, <1>12
  DEF Next, Coordinator, Ending

LEMMA StepImplements ==
  ASSUME TypeInv, FileInv, [Next]_vars
  PROVE  [Promise!RunNext]_(Promise!runVars)
<1>1. PhaseType
  BY DEF TypeInv
<1> USE <1>1 DEF FileInv, PhaseType, RunOf, Over, fileVars, runVars, Promise!runVars, Promise!RunNext
<1>2. CASE Prepare
  BY <1>2 DEF Prepare, Abort, Promise!Begin
<1>3. CASE Initialize
  BY <1>3 DEF Initialize, Promise!Empty
<1>4. CASE InitializeFails
  BY <1>4 DEF InitializeFails, Abort, Promise!Abandon
<1>5. CASE TakeResult \/ Apply \/ ApplyFails
  BY <1>5 DEF TakeResult, Apply, ApplyFails, Stop
<1>6. CASE Stopped
  BY <1>6 DEF Stopped, Abort, Promise!Abandon
<1>7. CASE MarkFailed
  BY <1>7 DEF MarkFailed, Promise!Abandon
<1>8. CASE Join
  BY <1>8 DEF Join
<1>9. CASE Finalize
  BY <1>9 DEF Finalize, Abort, Promise!Succeed, Promise!Abandon
<1>10. CASE Swap
  BY <1>10 DEF Swap, Promise!Succeed
<1>11. CASE Unlink
  BY <1>11 DEF Unlink, Abort, Promise!Lose, Promise!Abandon
<1>12. CASE Rename
  BY <1>12 DEF Rename, Abort, Promise!Succeed, Promise!Abandon
<1>13. ASSUME NEW k \in Workers, Worker(k) PROVE [Promise!RunNext]_(Promise!runVars)
  BY <1>13 DEF Worker, Receive, ListRecordsPage, Send
<1>14. CASE NextRun
  BY <1>14 DEF NextRun, Promise!Age
<1>15. CASE Timeout \/ \E r \in Readers : StartRead(r) \/ EndRead(r)
  BY <1>15 DEF Timeout, StartRead, EndRead
<1>16. CASE UNCHANGED vars
  BY <1>16 DEF vars
<1>. QED
  BY <1>2, <1>3, <1>4, <1>5, <1>6, <1>7, <1>8, <1>9, <1>10, <1>11, <1>12, <1>13, <1>14, <1>15, <1>16
  DEF Next, Coordinator

(* The run implements SnapshotRun: a complete snapshot is replaced by a    *)
(* newer one in one step or stays, unless the disk fails in the swap.      *)
THEOREM RunImplementsSnapshotRun == Spec => ImplementsSnapshotRun
<1>1. Init => Promise!RunInit
  BY DEF Init, RunOf, Promise!RunInit
<1>2. TypeInv /\ FileInv /\ [Next]_vars => [Promise!RunNext]_(Promise!runVars)
  BY StepImplements
<1>. QED
  BY <1>1, <1>2, InitType, NextType, InitFile, NextFile, PTL
  DEF Spec, ImplementsSnapshotRun, Promise!RunSpec

-----------------------------------------------------------------------------
(* The hands the pages are in *)

(* p is the page that table p.table waits for when the pages in w are written. *)
IsNext(w, p) == p.page = Len(w[p.table]) + 1 /\ p.page <= Pages[p.table]

JobsInv ==
  /\ \A i, j \in 1..Len(jobs) : jobs[i].table = jobs[j].table => i = j
  /\ \A i \in 1..Len(jobs) : IsNext(written, jobs[i])

ResultsInv ==
  /\ \A i, j \in 1..Len(results) : results[i].table = results[j].table => i = j
  /\ \A i \in 1..Len(results) : IsNext(written, results[i])

WorkersInv ==
  /\ \A k, l \in Workers :
       worker[k].job # NoPage /\ worker[k].job.table = worker[l].job.table => k = l
  /\ \A k \in Workers : worker[k].job # NoPage => IsNext(written, worker[k].job)

(* The hands of different kinds hold pages of different tables. *)
HandsApart ==
  /\ \A i \in 1..Len(jobs), k \in Workers : jobs[i].table # worker[k].job.table
  /\ \A i \in 1..Len(jobs), j \in 1..Len(results) : jobs[i].table # results[j].table
  /\ \A k \in Workers, j \in 1..Len(results) : worker[k].job.table # results[j].table

HandInv ==
  hand # NoPage =>
    /\ IsNext(written, hand)
    /\ \A i \in 1..Len(jobs) : jobs[i].table # hand.table
    /\ \A k \in Workers : worker[k].job.table # hand.table
    /\ \A i \in 1..Len(results) : results[i].table # hand.table

(* Some hand has the next page of table t. *)
Held(t) ==
  \/ \E i \in 1..Len(jobs) : jobs[i].table = t
  \/ \E k \in Workers : worker[k].job.table = t
  \/ \E i \in 1..Len(results) : results[i].table = t
  \/ hand.table = t

(* No page is dropped before the run stops or its deadline passes. *)
NoneLost ==
  pc \in Looping =>
    /\ ~cancelled
    /\ ~expired => \A t \in Tables : Len(written[t]) < Pages[t] => Held(t)

(* The pages in the file are the first ones, in order. *)
WrittenInv ==
  \A t \in Tables :
    /\ Len(written[t]) <= Pages[t]
    /\ \A p \in 1..Len(written[t]) : written[t][p] = p

AllWritten ==
  pc \in {"join", "finalize", "swap", "unlink", "rename", "done"} =>
    \A t \in Tables : Len(written[t]) = Pages[t]

PagesInv ==
  /\ JobsInv /\ ResultsInv /\ WorkersInv /\ HandsApart /\ HandInv
  /\ NoneLost /\ WrittenInv /\ AllWritten

LEMMA PagesType ==
  ASSUME NEW t \in Tables
  PROVE  Pages[t] \in Nat /\ Pages[t] > 0
BY TablesAssumption

(* The types of what the hands hold, as the proofs below use them.         *)
LEMMA HandsType ==
  ASSUME TypeInv
  PROVE  /\ Len(jobs) \in Nat /\ \A i \in 1..Len(jobs) : jobs[i] \in Page
         /\ Len(results) \in Nat /\ \A i \in 1..Len(results) : results[i] \in Result
         /\ \A k \in Workers : worker[k].job \in Page \cup {NoPage}
         /\ \A t \in Tables : written[t] \in Seq(Nat) /\ Len(written[t]) \in Nat
<1>1. Len(jobs) \in Nat /\ \A i \in 1..Len(jobs) : jobs[i] \in Page
  BY LenProperties, ElementOfSeq DEF TypeInv, JobsType
<1>2. Len(results) \in Nat /\ \A i \in 1..Len(results) : results[i] \in Result
  BY LenProperties, ElementOfSeq DEF TypeInv, ResultsType
<1>3. \A k \in Workers : worker[k].job \in Page \cup {NoPage}
  BY DEF TypeInv, WorkersType, Workings
<1>4. \A t \in Tables : written[t] \in Seq(Nat) /\ Len(written[t]) \in Nat
  BY LenProperties DEF TypeInv, HandType
<1>. QED
  BY <1>1, <1>2, <1>3, <1>4

(* A step that moves no page and neither starts nor ends the loop. *)
LEMMA QuietPages ==
  ASSUME PagesInv, UNCHANGED <<written, hand, jobs, results>>,
         \A k \in Workers : worker'[k].job = worker[k].job,
         pc' \in Looping => pc \in Looping /\ cancelled' = cancelled /\ (expired => expired'),
         pc' \in {"join", "finalize", "swap", "unlink", "rename", "done"} =>
           pc \in {"join", "finalize", "swap", "unlink", "rename", "done"}
  PROVE  PagesInv'
<1>1. JobsInv' /\ ResultsInv' /\ WorkersInv' /\ HandsApart' /\ HandInv'
  <2>1. JobsInv' /\ ResultsInv'
    BY DEF PagesInv, JobsInv, ResultsInv
  <2>2. WorkersInv'
    BY DEF PagesInv, WorkersInv
  <2>3. HandsApart' /\ HandInv'
    BY DEF PagesInv, HandsApart, HandInv
  <2>. QED
    BY <2>1, <2>2, <2>3
<1>2. NoneLost'
  BY DEF PagesInv, NoneLost, Held
<1>3. WrittenInv' /\ AllWritten'
  BY DEF PagesInv, WrittenInv, AllWritten
<1>. QED
  BY <1>1, <1>2, <1>3 DEF PagesInv

(* The channels, the goroutines and the coordinator have no page. *)
AtRest ==
  /\ written = NothingWritten /\ hand = NoPage /\ jobs = <<>> /\ results = <<>>
  /\ \A k \in Workers : worker[k] = Gone
  /\ pc \in {"start", "init"}

LEMMA EmptyPages == AtRest => PagesInv
<1> SUFFICES ASSUME AtRest PROVE PagesInv
  OBVIOUS
<1> USE DEF AtRest
<1>1. Len(<<>>) = 0 /\ \A t \in Tables : written[t] = <<>>
  BY DEF NothingWritten
<1>2. JobsInv /\ ResultsInv /\ WorkersInv /\ HandsApart /\ HandInv
  BY <1>1 DEF JobsInv, ResultsInv, WorkersInv, HandsApart, HandInv, Gone
<1>3. NoneLost /\ AllWritten
  BY DEF NoneLost, AllWritten, Looping
<1>4. WrittenInv
  BY <1>1, PagesType DEF WrittenInv
<1>. QED
  BY <1>2, <1>3, <1>4 DEF PagesInv

LEMMA InitPages == Init => PagesInv
BY EmptyPages DEF Init, AtRest

LEMMA InitializePages == TypeInv /\ Initialize => PagesInv'
<1> SUFFICES ASSUME TypeInv, Initialize PROVE PagesInv'
  OBVIOUS
<1>1. /\ written = NothingWritten /\ hand = NoPage /\ results = <<>> /\ cancelled = FALSE
      /\ UNCHANGED <<written, hand, results, cancelled>>
  BY DEF Initialize, TypeInv, NothingYet
<1>2. jobs' = FirstJobs /\ Len(FirstJobs) = NTables /\ \A k \in Workers : worker'[k] = Idle
  BY FirstJobsType DEF Initialize, FirstJobs
<1>3. \A i \in 1..NTables : jobs'[i] = [table |-> i, page |-> 1]
  BY <1>2 DEF FirstJobs, Tables
<1>4. Len(<<>>) = 0 /\ \A t \in Tables : written[t] = <<>>
  BY <1>1 DEF NothingWritten
<1>5. JobsInv' /\ ResultsInv' /\ WorkersInv' /\ HandsApart' /\ HandInv'
  <2>1. \A i \in 1..NTables : 1 <= Pages[i] /\ Len(written'[i]) = 0
    BY <1>1, <1>4, PagesType DEF Tables
  <2>. QED
    BY <1>1, <1>2, <1>3, <1>4, <2>1, TablesAssumption
    DEF JobsInv, ResultsInv, WorkersInv, HandsApart, HandInv, IsNext, Idle, NoPage
<1>6. NoneLost'
  BY <1>1, <1>2, <1>3, TablesAssumption DEF NoneLost, Held, Tables
<1>7. WrittenInv'
  BY <1>1, <1>4, PagesType DEF WrittenInv
<1>8. AllWritten'
  BY TablesAssumption DEF Initialize, AllWritten, Tables
<1>. QED
  BY <1>5, <1>6, <1>7, <1>8 DEF PagesInv

LEMMA ReceivePages == ASSUME TypeInv, PagesInv, NEW k \in Workers, Receive(k) PROVE PagesInv'
<1>1. worker[k].job = NoPage /\ worker \in [Workers -> Workings]
  BY DEF Receive, TypeInv, WorkersType, Workings
<1>2. UNCHANGED <<written, hand, pc, results, cancelled, expired>>
  BY DEF Receive, runVars
<1>3. CASE jobs # <<>>
  <2>1. worker' = [worker EXCEPT ![k] = [pc |-> "list", job |-> Head(jobs)]] /\ jobs' = Tail(jobs)
    BY <1>3 DEF Receive
  <2>2. /\ Head(jobs) = jobs[1] /\ jobs[1] \in Page /\ 1 \in 1..Len(jobs)
        /\ Len(jobs) \in Nat /\ Len(jobs') = Len(jobs) - 1
        /\ \A i \in 1..Len(jobs') : jobs'[i] = jobs[i + 1] /\ i + 1 \in 1..Len(jobs) /\ i + 1 # 1
    BY <1>3, <2>1, HeadTailProperties, HandsType, EmptySeq DEF TypeInv, JobsType
  <2>3. /\ worker'[k].job = jobs[1] /\ jobs[1] # NoPage
        /\ \A l \in Workers : l # k => worker'[l] = worker[l]
    BY <1>1, <2>1, <2>2, NoPageApart
  <2>4. JobsInv' /\ ResultsInv'
    BY <1>2, <2>2 DEF PagesInv, JobsInv, ResultsInv
  <2>5. WorkersInv'
    <3>1. \A l \in Workers : worker[l].job.table # jobs[1].table
      BY <2>2 DEF PagesInv, HandsApart
    <3>2. IsNext(written, jobs[1])
      BY <2>2 DEF PagesInv, JobsInv
    <3>. QED
      BY <1>2, <2>3, <3>1, <3>2 DEF PagesInv, WorkersInv
  <2>6. HandsApart'
    <3>1. \A i \in 1..Len(jobs') : jobs'[i].table # jobs[1].table
      BY <2>2 DEF PagesInv, JobsInv
    <3>2. \A j \in 1..Len(results) : jobs[1].table # results[j].table
      BY <2>2 DEF PagesInv, HandsApart
    <3>3. \A i \in 1..Len(jobs') : \A l \in Workers : jobs'[i].table # worker'[l].job.table
      BY <2>2, <2>3, <3>1 DEF PagesInv, HandsApart
    <3>4. \A i \in 1..Len(jobs') : \A j \in 1..Len(results') : jobs'[i].table # results'[j].table
      BY <1>2, <2>2 DEF PagesInv, HandsApart
    <3>5. \A l \in Workers : \A j \in 1..Len(results') : worker'[l].job.table # results'[j].table
      BY <1>2, <2>3, <3>2 DEF PagesInv, HandsApart
    <3>. QED
      BY <3>3, <3>4, <3>5 DEF HandsApart
  <2>7. HandInv'
    BY <1>2, <2>2, <2>3 DEF PagesInv, HandInv
  <2>8. \A t \in Tables : Held(t) => Held(t)'
    <3>1. SUFFICES ASSUME NEW t \in Tables, Held(t) PROVE Held(t)'
      OBVIOUS
    <3>2. CASE \E i \in 1..Len(jobs) : jobs[i].table = t
      <4>1. PICK i \in 1..Len(jobs) : jobs[i].table = t
        BY <3>2
      <4>2. CASE i = 1
        BY <2>3, <4>1, <4>2 DEF Held
      <4>3. CASE i # 1
        <5>1. i - 1 \in 1..Len(jobs') /\ jobs'[i - 1] = jobs[i]
          BY <2>2, <4>3
        <5>. QED
          BY <4>1, <5>1 DEF Held
      <4>. QED
        BY <4>2, <4>3
    <3>3. CASE \E l \in Workers : worker[l].job.table = t
      BY <1>1, <2>3, <3>3, NoPageApart DEF Held
    <3>. QED
      BY <1>2, <3>1, <3>2, <3>3 DEF Held
  <2>9. NoneLost' /\ WrittenInv' /\ AllWritten'
    BY <1>2, <2>8 DEF PagesInv, NoneLost, WrittenInv, AllWritten
  <2>. QED
    BY <2>4, <2>5, <2>6, <2>7, <2>9 DEF PagesInv
<1>4. CASE jobs = <<>>
  <2>1. \A l \in Workers : worker'[l].job = worker[l].job
    BY <1>1, <1>4 DEF Receive, Gone
  <2>. QED
    BY <1>2, <1>4, <2>1, QuietPages DEF Receive, PagesInv, NoneLost
<1>. QED
  BY <1>3, <1>4

LEMMA ListPages == ASSUME TypeInv, PagesInv, NEW k \in Workers, ListRecordsPage(k) PROVE PagesInv'
<1>1. \A l \in Workers : worker'[l].job = worker[l].job
  BY DEF ListRecordsPage, TypeInv, WorkersType
<1>. QED
  BY <1>1, QuietPages DEF ListRecordsPage, runVars

LEMMA SendPages == ASSUME TypeInv, PagesInv, NEW k \in Workers, Send(k) PROVE PagesInv'
<1>1. worker[k].job \in Page /\ worker \in [Workers -> Workings]
  BY DEF Send, TypeInv, WorkersType, Workings
<1>2. UNCHANGED <<written, hand, pc, jobs, cancelled, expired>>
  BY DEF Send, runVars
<1>3. /\ worker'[k].job = NoPage
      /\ \A l \in Workers : l # k => worker'[l] = worker[l]
  BY <1>1 DEF Send, Idle, Gone
<1>4. JobsInv' /\ WorkersInv' /\ \A i \in 1..Len(jobs') : \A l \in Workers :
        jobs'[i].table # worker'[l].job.table
  <2>1. \A i \in 1..Len(jobs) : jobs[i].table # NoPage.table
    BY HandsType, NoPageApart DEF Page
  <2>2. JobsInv'
    BY <1>2 DEF PagesInv, JobsInv
  <2>3. WorkersInv'
    <3>1. \A l \in Workers : worker[l].job # NoPage => worker[l].job.table # NoPage.table
      BY HandsType, NoPageApart DEF Page
    <3>. QED
      BY <1>2, <1>3, <3>1 DEF PagesInv, WorkersInv
  <2>. QED
    BY <1>2, <1>3, <2>1, <2>2, <2>3 DEF PagesInv, HandsApart
<1>5. CASE results' = Append(results, [table |-> worker[k].job.table,
                                      page |-> worker[k].job.page, ok |-> worker[k].ok])
  <2>1. worker[k].ok \in BOOLEAN
    BY DEF Send, TypeInv, WorkersType, Workings
  <2> DEFINE r == [table |-> worker[k].job.table, page |-> worker[k].job.page, ok |-> worker[k].ok]
             n == Len(results) + 1
  <2>2. r \in Result /\ r.table = worker[k].job.table /\ r.page = worker[k].job.page
    BY <1>1, <2>1 DEF Page, Result
  <2>3. /\ Len(results) \in Nat /\ Len(results') = n /\ results'[n] = r
        /\ \A i \in 1..Len(results) : results'[i] = results[i] /\ i \in 1..n /\ i # n
        /\ \A i \in 1..n : i = n \/ i \in 1..Len(results)
    BY <1>5, <2>2, AppendProperties, HandsType DEF TypeInv, ResultsType
  <2>4. ResultsInv'
    <3>1. \A i \in 1..Len(results) : results[i].table # r.table
      BY <2>2 DEF PagesInv, HandsApart
    <3>2. worker[k].job # NoPage
      BY <1>1, NoPageApart
    <3>3. IsNext(written', r)
      BY <1>2, <2>2, <3>2 DEF PagesInv, WorkersInv, IsNext
    <3> HIDE DEF r, n
    <3>4. ASSUME NEW i \in 1..n, NEW j \in 1..n, results'[i].table = results'[j].table
          PROVE  i = j
      BY <2>3, <3>1, <3>4 DEF PagesInv, ResultsInv
    <3>5. ASSUME NEW i \in 1..n
          PROVE  IsNext(written', results'[i])
      BY <1>2, <2>3, <3>3 DEF PagesInv, ResultsInv
    <3>. QED
      BY <2>3, <3>4, <3>5 DEF ResultsInv
  <2>5. HandsApart'
    <3>1. \A i \in 1..Len(jobs) : jobs[i].table # r.table
      BY <2>2 DEF PagesInv, HandsApart
    <3>2. \A l \in Workers : l # k => worker[l].job.table # r.table
      BY <1>1, <2>2, NoPageApart DEF PagesInv, WorkersInv
    <3>3. r.table # NoPage.table /\ \A i \in 1..Len(results) : results[i].table # NoPage.table
      BY <2>2, HandsType, NoPageApart DEF Result
    <3> HIDE DEF r, n
    <3>4. \A j \in 1..Len(results') :
            /\ \A i \in 1..Len(jobs') : jobs'[i].table # results'[j].table
            /\ \A l \in Workers : worker'[l].job.table # results'[j].table
      BY <1>2, <1>3, <2>3, <3>1, <3>2, <3>3 DEF PagesInv, HandsApart
    <3>. QED
      BY <1>4, <3>4 DEF HandsApart
  <2>6. HandInv'
    <3>1. hand # NoPage => hand.table # r.table /\ hand.table # NoPage.table
      BY <2>2, NoPageApart DEF PagesInv, HandInv, TypeInv, HandType, Page
    <3> HIDE DEF r, n
    <3>. QED
      BY <1>2, <1>3, <2>3, <3>1 DEF PagesInv, HandInv
  <2>7. \A t \in Tables : Held(t) => Held(t)'
    <3> HIDE DEF r, n
    <3>1. \A i \in 1..Len(results) : i \in 1..Len(results') /\ results'[i] = results[i]
      BY <2>3
    <3>2. n \in 1..Len(results') /\ results'[n].table = worker[k].job.table
      BY <2>2, <2>3 DEF n
    <3>. QED
      BY <1>2, <1>3, <3>1, <3>2 DEF Held
  <2>8. NoneLost' /\ WrittenInv' /\ AllWritten'
    BY <1>2, <2>7 DEF PagesInv, NoneLost, WrittenInv, AllWritten
  <2>. QED
    BY <1>4, <2>4, <2>5, <2>6, <2>8 DEF PagesInv
<1>6. CASE UNCHANGED results /\ Done
  <2>1. ResultsInv'
    BY <1>2, <1>6 DEF PagesInv, ResultsInv
  <2>2. HandsApart'
    <3>1. \A i \in 1..Len(results) : results[i].table # NoPage.table
      BY HandsType, NoPageApart DEF Result
    <3>. QED
      BY <1>2, <1>3, <1>4, <1>6, <3>1 DEF PagesInv, HandsApart
  <2>3. HandInv'
    <3>1. hand # NoPage => hand.table # NoPage.table
      BY NoPageApart DEF TypeInv, HandType, Page
    <3>. QED
      BY <1>2, <1>3, <1>6, <3>1 DEF PagesInv, HandInv
  <2>4. NoneLost' /\ WrittenInv' /\ AllWritten'
    BY <1>2, <1>6 DEF PagesInv, NoneLost, WrittenInv, AllWritten, Done
  <2>. QED
    BY <1>4, <2>1, <2>2, <2>3, <2>4 DEF PagesInv
<1>. QED
  BY <1>5, <1>6 DEF Send

(* The loop stops: the page in hand is dropped. *)
LEMMA StopPages ==
  ASSUME TypeInv, PagesInv, Stop, ResultsInv', HandsApart', UNCHANGED <<written, jobs, worker>>
  PROVE  PagesInv'
<1>1. JobsInv' /\ WorkersInv' /\ HandInv'
  BY DEF Stop, PagesInv, JobsInv, WorkersInv, HandInv
<1>2. NoneLost' /\ WrittenInv' /\ AllWritten'
  BY DEF Stop, PagesInv, NoneLost, Looping, WrittenInv, AllWritten
<1>. QED
  BY <1>1, <1>2 DEF PagesInv

LEMMA TakeResultPages == TypeInv /\ PagesInv /\ TakeResult => PagesInv'
<1> SUFFICES ASSUME TypeInv, PagesInv, TakeResult PROVE PagesInv'
  OBVIOUS
<1>1. /\ Head(results) = results[1] /\ results[1] \in Result /\ 1 \in 1..Len(results)
      /\ Len(results) \in Nat /\ Len(results') = Len(results) - 1
      /\ \A i \in 1..Len(results') :
           results'[i] = results[i + 1] /\ i + 1 \in 1..Len(results) /\ i + 1 # 1
  BY HeadTailProperties, HandsType, EmptySeq DEF TakeResult, TypeInv, ResultsType
<1>2. UNCHANGED <<written, jobs, worker, expired>> /\ pc = "receive" /\ hand = NoPage
  BY DEF TakeResult, TypeInv, HandType
<1>3. ResultsInv'
  BY <1>1, <1>2 DEF PagesInv, ResultsInv
<1>4. HandsApart'
  <2>1. \A i \in 1..Len(jobs') : \A k \in Workers : jobs'[i].table # worker'[k].job.table
    BY <1>2 DEF PagesInv, HandsApart
  <2>2. \A i \in 1..Len(jobs') : \A j \in 1..Len(results') : jobs'[i].table # results'[j].table
    BY <1>1, <1>2 DEF PagesInv, HandsApart
  <2>3. \A k \in Workers : \A j \in 1..Len(results') : worker'[k].job.table # results'[j].table
    BY <1>1, <1>2 DEF PagesInv, HandsApart
  <2>. QED
    BY <2>1, <2>2, <2>3 DEF HandsApart
<1>5. CASE Stop
  BY <1>2, <1>3, <1>4, <1>5, StopPages
<1>6. CASE /\ hand' = [table |-> Head(results).table, page |-> Head(results).page]
           /\ pc' = "apply"
           /\ UNCHANGED <<closed, cancelled>>
  <2>1. hand'.table = results[1].table /\ hand'.page = results[1].page
    BY <1>1, <1>6
  <2>2. HandInv'
    <3>1. IsNext(written', hand')
      BY <1>1, <1>2, <2>1 DEF PagesInv, ResultsInv, IsNext
    <3>2. \A i \in 1..Len(results') : results'[i].table # hand'.table
      BY <1>1, <2>1 DEF PagesInv, ResultsInv
    <3>3. \A i \in 1..Len(jobs') : jobs'[i].table # hand'.table
      BY <1>1, <1>2, <2>1 DEF PagesInv, HandsApart
    <3>4. \A k \in Workers : worker'[k].job.table # hand'.table
      BY <1>1, <1>2, <2>1 DEF PagesInv, HandsApart
    <3>. QED
      BY <3>1, <3>2, <3>3, <3>4 DEF HandInv
  <2>3. ASSUME NEW t \in Tables, Held(t) PROVE Held(t)'
    <3>1. CASE \E i \in 1..Len(results) : results[i].table = t
      <4>1. PICK i \in 1..Len(results) : results[i].table = t
        BY <3>1
      <4>2. CASE i = 1
        BY <2>1, <4>1, <4>2 DEF Held
      <4>3. CASE i # 1
        <5>1. i - 1 \in 1..Len(results') /\ results'[i - 1] = results[i]
          BY <1>1, <4>3
        <5>. QED
          BY <4>1, <5>1 DEF Held
      <4>. QED
        BY <4>2, <4>3
    <3>2. hand.table # t
      BY <1>2, NoPageApart
    <3>. QED
      BY <1>2, <2>3, <3>1, <3>2 DEF Held
  <2>4. JobsInv' /\ WorkersInv'
    BY <1>2 DEF PagesInv, JobsInv, WorkersInv
  <2>5. NoneLost' /\ WrittenInv' /\ AllWritten'
    BY <1>2, <1>6, <2>3 DEF PagesInv, NoneLost, Looping, WrittenInv, AllWritten
  <2>. QED
    BY <1>3, <1>4, <2>2, <2>4, <2>5 DEF PagesInv
<1>. QED
  BY <1>5, <1>6 DEF TakeResult

LEMMA ApplyPages == TypeInv /\ PagesInv /\ Apply => PagesInv'
<1> SUFFICES ASSUME TypeInv, PagesInv, Apply PROVE PagesInv'
  OBVIOUS
<1> DEFINE t == hand.table
<1>1. /\ hand \in Page /\ t \in Tables /\ hand.page \in Nat /\ hand # NoPage
      /\ pc = "apply" /\ hand' = NoPage /\ ~expired /\ expired' = expired /\ cancelled' = cancelled
      /\ UNCHANGED <<results, worker>>
  BY NoPageApart DEF Apply, TypeInv, HandType, Page
<1>2. /\ hand.page = Len(written[t]) + 1 /\ hand.page <= Pages[t]
      /\ Len(written[t]) \in Nat /\ Pages[t] \in Nat
  BY <1>1, HandsType, PagesType DEF PagesInv, HandInv, IsNext
<1>3. /\ Len(written'[t]) = hand.page
      /\ \A p \in 1..hand.page : written'[t][p] = p
      /\ \A u \in Tables : u # t => written'[u] = written[u]
  <2>1. written' = [written EXCEPT ![t] = Append(written[t], hand.page)]
    BY DEF Apply
  <2>2. written'[t] = Append(written[t], hand.page) /\ written[t] \in Seq(Nat)
    BY <1>1, <2>1 DEF TypeInv, HandType
  <2>3. /\ Len(written'[t]) = Len(written[t]) + 1
        /\ \A p \in 1..Len(written[t]) : written'[t][p] = written[t][p]
        /\ written'[t][Len(written[t]) + 1] = hand.page
    BY <1>1, <2>2, AppendProperties
  <2>4. \A p \in 1..Len(written[t]) : written[t][p] = p
    BY <1>1 DEF PagesInv, WrittenInv
  <2>5. \A u \in Tables : u # t => written'[u] = written[u]
    BY <2>1 DEF TypeInv, HandType
  <2>. QED
    BY <1>2, <2>3, <2>4, <2>5
<1>4. \A x : x.table \in Tables /\ x.table # t /\ IsNext(written, x) => IsNext(written', x)
  BY <1>3 DEF IsNext
<1>5. /\ \A i \in 1..Len(results) : results[i].table \in Tables /\ results[i].table # t
      /\ \A k \in Workers : worker[k].job # NoPage => worker[k].job.table \in Tables
      /\ \A k \in Workers : worker[k].job.table # t
      /\ \A i \in 1..Len(jobs) : jobs[i].table \in Tables /\ jobs[i].table # t
  BY <1>1, HandsType DEF PagesInv, HandInv, Page, Result
<1>6. ResultsInv' /\ WorkersInv' /\ HandInv'
  <2>1. ResultsInv'
    BY <1>1, <1>4, <1>5 DEF PagesInv, ResultsInv
  <2>2. WorkersInv'
    BY <1>1, <1>4, <1>5 DEF PagesInv, WorkersInv
  <2>. QED
    BY <1>1, <2>1, <2>2 DEF HandInv
<1>7. WrittenInv'
  BY <1>1, <1>2, <1>3 DEF PagesInv, WrittenInv
<1>8. AllWritten'
  <2>1. SUFFICES ASSUME pc' \notin {"receive"}, NEW u \in Tables
                 PROVE  Len(written'[u]) = Pages[u]
    BY DEF AllWritten
  <2>2. PendingAfter(hand) = {}
    BY <2>1 DEF Apply
  <2>3. u = t => ~(hand.page < Pages[u])
    BY <2>2 DEF PendingAfter
  <2>4. u # t => ~(Len(written[u]) < Pages[u])
    BY <2>2 DEF PendingAfter
  <2>5. u # t => Len(written[u]) <= Pages[u] /\ Len(written[u]) \in Nat /\ Pages[u] \in Nat
    BY HandsType, PagesType DEF PagesInv, WrittenInv
  <2>. QED
    BY <1>2, <1>3, <2>3, <2>4, <2>5
<1>9. ~cancelled'
  BY <1>1 DEF PagesInv, NoneLost, Looping
<1>10. CASE hand.page < Pages[t] /\ jobs' = Append(jobs, [table |-> t, page |-> hand.page + 1])
  <2> DEFINE j == [table |-> t, page |-> hand.page + 1]
             n == Len(jobs) + 1
  <2>1. j \in Page /\ j.table = t /\ j.page = hand.page + 1
    BY <1>1 DEF Page
  <2>2. /\ Len(jobs) \in Nat /\ Len(jobs') = n /\ jobs'[n] = j
        /\ \A i \in 1..Len(jobs) : jobs'[i] = jobs[i] /\ i \in 1..n /\ i # n
        /\ \A i \in 1..n : i = n \/ i \in 1..Len(jobs)
    BY <1>10, <2>1, AppendProperties, HandsType DEF TypeInv, JobsType
  <2>3. IsNext(written', j)
    BY <1>3, <1>10, <1>1, <1>2, <2>1 DEF IsNext
  <2>4. n \in 1..n
    BY <2>2
  <2> HIDE DEF j, n
  <2>5. JobsInv'
    <3>1. ASSUME NEW i \in 1..n, NEW m \in 1..n, jobs'[i].table = jobs'[m].table
          PROVE  i = m
      BY <1>5, <2>1, <2>2, <3>1 DEF PagesInv, JobsInv
    <3>2. ASSUME NEW i \in 1..n PROVE IsNext(written', jobs'[i])
      BY <1>4, <1>5, <2>2, <2>3 DEF PagesInv, JobsInv
    <3>. QED
      BY <2>2, <3>1, <3>2 DEF JobsInv
  <2>6. HandsApart'
    <3>1. \A i \in 1..Len(jobs') : \A k \in Workers : jobs'[i].table # worker'[k].job.table
      BY <1>1, <1>5, <2>1, <2>2 DEF PagesInv, HandsApart
    <3>2. \A i \in 1..Len(jobs') : \A m \in 1..Len(results') : jobs'[i].table # results'[m].table
      BY <1>1, <1>5, <2>1, <2>2 DEF PagesInv, HandsApart
    <3>3. \A k \in Workers : \A m \in 1..Len(results') : worker'[k].job.table # results'[m].table
      BY <1>1 DEF PagesInv, HandsApart
    <3>. QED
      BY <3>1, <3>2, <3>3 DEF HandsApart
  <2>7. NoneLost'
    <3>1. SUFFICES ASSUME NEW u \in Tables, Len(written'[u]) < Pages[u] PROVE Held(u)'
      BY <1>9 DEF NoneLost
    <3>2. CASE u = t
      BY <2>1, <2>2, <2>4, <3>2 DEF Held
    <3>3. CASE u # t
      <4>1. Held(u)
        BY <1>1, <1>3, <3>1, <3>3 DEF PagesInv, NoneLost, Looping
      <4>2. \A i \in 1..Len(jobs) : i \in 1..Len(jobs') /\ jobs'[i] = jobs[i]
        BY <2>2
      <4>. QED
        BY <1>1, <3>3, <4>1, <4>2 DEF Held
    <3>. QED
      BY <3>2, <3>3
  <2>. QED
    BY <1>6, <1>7, <1>8, <2>5, <2>6, <2>7 DEF PagesInv
<1>11. CASE hand.page = Pages[t] /\ jobs' = jobs
  <2>1. JobsInv'
    BY <1>4, <1>5, <1>11 DEF PagesInv, JobsInv
  <2>2. HandsApart'
    BY <1>1, <1>11 DEF PagesInv, HandsApart
  <2>3. NoneLost'
    <3>1. SUFFICES ASSUME NEW u \in Tables, Len(written'[u]) < Pages[u] PROVE Held(u)'
      BY <1>9 DEF NoneLost
    <3>2. u # t
      BY <1>2, <1>3, <1>11, <3>1
    <3>3. Held(u)
      BY <1>1, <1>3, <3>1, <3>2 DEF PagesInv, NoneLost, Looping
    <3>. QED
      BY <1>1, <1>11, <3>2, <3>3 DEF Held
  <2>. QED
    BY <1>6, <1>7, <1>8, <2>1, <2>2, <2>3 DEF PagesInv
<1>. QED
  BY <1>10, <1>11 DEF Apply

LEMMA ApplyFailsPages == TypeInv /\ PagesInv /\ ApplyFails => PagesInv'
<1> SUFFICES ASSUME TypeInv, PagesInv, ApplyFails PROVE PagesInv'
  OBVIOUS
<1>1. ResultsInv' /\ HandsApart'
  <2>1. UNCHANGED <<written, jobs, worker, results>>
    BY DEF ApplyFails
  <2>2. ResultsInv'
    BY <2>1 DEF PagesInv, ResultsInv
  <2>3. HandsApart'
    BY <2>1 DEF PagesInv, HandsApart
  <2>. QED
    BY <2>2, <2>3
<1>. QED
  BY <1>1, StopPages DEF ApplyFails

LEMMA NextRunPages == NextRun => PagesInv'
<1>1. NextRun => AtRest'
  BY DEF NextRun, AtRest
<1>. QED
  BY <1>1, EmptyPages, PTL

LEMMA NextPages == TypeInv /\ PagesInv /\ [Next]_vars => PagesInv'
<1> SUFFICES ASSUME TypeInv, PagesInv, [Next]_vars PROVE PagesInv'
  OBVIOUS
<1>1. CASE Prepare \/ InitializeFails \/ Ending
  BY <1>1, QuietPages
  DEF Prepare, InitializeFails, Ending, Stopped, MarkFailed, Join, Finalize, Swap, Unlink, Rename,
      Abort, Looping, chanVars
<1>2. CASE Initialize \/ TakeResult \/ Apply \/ ApplyFails
  BY <1>2, InitializePages, TakeResultPages, ApplyPages, ApplyFailsPages
<1>3. ASSUME NEW k \in Workers, Worker(k) PROVE PagesInv'
  BY <1>3, ReceivePages, ListPages, SendPages DEF Worker
<1>4. CASE NextRun
  BY <1>4, NextRunPages
<1>5. CASE Timeout \/ \E r \in Readers : StartRead(r) \/ EndRead(r)
  BY <1>5, QuietPages DEF Timeout, StartRead, EndRead, runVars, chanVars
<1>6. CASE UNCHANGED vars
  BY <1>6, QuietPages DEF vars, runVars, chanVars
<1>. QED
  BY <1>1, <1>2, <1>3, <1>4, <1>5, <1>6 DEF Next, Coordinator, Ending

(* What the invariant says of any two holders of pages of a table.         *)
LEMMA HoldersApart ==
  ASSUME TypeInv, PagesInv, NEW t \in Tables
  PROVE  \A x, y \in Holders(t) : x = y
<1>1. ASSUME NEW z \in Holders(t)
      PROVE  \/ \E i \in 1..Len(jobs) : z = <<"job", i>> /\ jobs[i].table = t
             \/ \E k \in Workers : z = <<"worker", k>> /\ worker[k].job.table = t
             \/ \E i \in 1..Len(results) : z = <<"result", i>> /\ results[i].table = t
             \/ z = <<"hand", 1>> /\ hand.table = t
  BY <1>1 DEF Holders
<1>2. /\ \A k \in Workers : worker[k].job.table = t => worker[k].job # NoPage
      /\ hand.table = t => hand # NoPage
  BY NoPageApart
<1>3. CASE hand.table = t
  BY <1>1, <1>2, <1>3 DEF PagesInv, HandInv
<1>4. CASE \E i \in 1..Len(jobs) : jobs[i].table = t
  BY <1>1, <1>2, <1>4 DEF PagesInv, JobsInv, HandsApart, HandInv
<1>5. CASE \E k \in Workers : worker[k].job.table = t
  BY <1>1, <1>2, <1>5 DEF PagesInv, WorkersInv, HandsApart, HandInv
<1>6. CASE \E i \in 1..Len(results) : results[i].table = t
  BY <1>1, <1>2, <1>6 DEF PagesInv, ResultsInv, HandsApart, HandInv
<1>. QED
  BY <1>1, <1>3, <1>4, <1>5, <1>6

LEMMA HoldersHeld ==
  ASSUME TypeInv, NEW t \in Tables
  PROVE  Holders(t) # {} <=> Held(t)
BY DEF Holders, Held

(* A page in a hand is one its table waits for. *)
LEMMA HeldIsUnfinished ==
  ASSUME TypeInv, PagesInv, NEW t \in Tables, Held(t)
  PROVE  Len(written[t]) < Pages[t]
<1>1. Len(written[t]) \in Nat /\ Pages[t] \in Nat
  BY HandsType, PagesType
<1>2. PICK p : p.table = t /\ IsNext(written, p)
  BY NoPageApart DEF Held, PagesInv, JobsInv, WorkersInv, ResultsInv, HandInv
<1>. QED
  BY <1>1, <1>2 DEF IsNext

(* The invariant of a run, by which its steps keep it. *)
RunInv == TypeInv /\ FileInv /\ PagesInv

(* RunInv holds in every reachable state. *)
THEOREM RunInvariant == Spec => []RunInv
<1>1. Init => RunInv
  BY InitType, InitFile, InitPages DEF RunInv
<1>2. RunInv /\ [Next]_vars => RunInv'
  BY NextType, NextFile, NextPages DEF RunInv
<1>. QED
  BY <1>1, <1>2, PTL DEF Spec

(* No page of a table is ever in two hands, and while the coordinator      *)
(* waits the rest of every unfinished table is in one (the loop of runSync *)
(* and its goroutines).                                                    *)
THEOREM PagesInOneHand == Spec => []OneHandPerTable
<1>1. RunInv => OneHandPerTable
  <2> SUFFICES ASSUME RunInv PROVE OneHandPerTable
    OBVIOUS
  <2>1. \A t \in Tables : \A x, y \in Holders(t) : x = y
    BY HoldersApart DEF RunInv
  <2>2. ASSUME pc \in Looping, ~expired, NEW t \in Tables
        PROVE  Len(written[t]) < Pages[t] <=> Holders(t) # {}
    <3>1. Len(written[t]) < Pages[t] => Held(t)
      BY <2>2 DEF RunInv, PagesInv, NoneLost
    <3>. QED
      BY <3>1, HoldersHeld, HeldIsUnfinished DEF RunInv
  <2>. QED
    BY <2>1, <2>2 DEF OneHandPerTable
<1>. QED
  BY <1>1, RunInvariant, PTL

(* A snapshot that calls itself complete holds every page of every table,  *)
(* once and in order (FinalizeSnapshot after the loop of runSync).         *)
THEOREM CompleteSnapshots == Spec => []CompleteHasAllPages
<1>1. RunInv => CompleteHasAllPages
  <2> SUFFICES ASSUME RunInv, pc = "done" PROVE CompleteHasAllPages
    BY DEF CompleteHasAllPages
  <2>1. active = "new"
    BY DEF RunInv, FileInv
  <2>2. ASSUME NEW t \in Tables PROVE written[t] = [p \in 1..Pages[t] |-> p]
    <3>1. written[t] \in [1..Len(written[t]) -> Nat]
      BY LenProperties DEF RunInv, TypeInv, HandType
    <3>2. Len(written[t]) = Pages[t] /\ \A p \in 1..Len(written[t]) : written[t][p] = p
      BY DEF RunInv, PagesInv, AllWritten, WrittenInv
    <3>. QED
      BY <3>1, <3>2
  <2>. QED
    BY <2>1, <2>2 DEF CompleteHasAllPages
<1>. QED
  BY <1>1, RunInvariant, PTL
=============================================================================
