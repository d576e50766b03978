--------------------------- MODULE SyncWorkerProofs ---------------------------
(***************************************************************************)
(* Theorems about SyncWorker, for any number of tool calls and worker      *)
(* objects, restarts and mutations.                                        *)
(***************************************************************************)
EXTENDS SyncWorker, TLAPS

-----------------------------------------------------------------------------
(* Type correctness *)

(* A call that is under way holds a worker object. *)
CallsHold ==
  \A c \in Calls : call[c].pc # "idle" => call[c].worker \in Slots /\ call[c].kind \in Kinds

(* There is no worker before the start of the server restores one. *)
BootInv ==
  /\ boot \in {"sweep", "restore"} => registered = NoWorker
  /\ boot = "restoring" => registered \in Slots

TypeInv == TypeOK /\ CallsHold /\ BootInv

LEMMA NoStateType == NoState \in WorkerStates /\ NoCall \in CallStates
BY ChangesAssumption DEF NoState, NoCall, WorkerStates, WorkerPCs, CallStates

LEMMA NewWorkerType ==
  ASSUME NEW state \in NewWorkers
  PROVE  /\ state \in WorkerStates
         /\ state.pc = "loop" /\ state.from = 0 /\ state.asked = 0
         /\ state.readable => file # "absent"
<1>1. \A a, b, c, d \in BOOLEAN :
        [NoState EXCEPT !.pc = "loop", !.readable = a, !.sampled = b, !.complete = c, !.refresh = d]
          \in WorkerStates
  BY NoStateType DEF WorkerStates, WorkerPCs
<1>2. /\ (file # "absent") \in BOOLEAN /\ (file = "complete") \in BOOLEAN
      /\ (file \in {"absent", "complete"}) \in BOOLEAN
  OBVIOUS
<1>3. NewWorker \in WorkerStates
  BY <1>1, <1>2, Zenon DEF NewWorker
<1>4. /\ NewWorker.pc = "loop" /\ NewWorker.from = 0 /\ NewWorker.asked = 0
      /\ NewWorker.readable => file # "absent"
  BY DEF NewWorker, NoState
<1>5. state = NewWorker
      \/ state = [NewWorker EXCEPT !.sampled = TRUE, !.complete = FALSE, !.refresh = FALSE]
  BY Zenon DEF NewWorkers
<1> HIDE DEF NewWorker
<1>. QED
  BY <1>3, <1>4, <1>5 DEF WorkerStates

LEMMA InitType == Init => TypeInv
<1> SUFFICES ASSUME Init PROVE TypeInv
  OBVIOUS
<1>1. \A c \in Calls : call[c].pc = "idle"
  BY DEF Init, NoCall
<1>. QED
  BY <1>1, NoStateType, ChangesAssumption DEF Init, TypeInv, TypeOK, CallsHold, BootInv, Files

(* A sync has its target file, which is there, and the trouble is known.   *)
LEMMA ChooseFileDoes ==
  ASSUME TypeOK, NEW staging \in BOOLEAN, NEW more \in SUBSET Troubles, ChooseFile(staging, more)
  PROVE  /\ file' \in {"partial", "complete"} /\ fileChange' \in 0..MaxChanges
         /\ trouble' \subseteq Troubles
<1>1. file' \in {"partial", "complete"} /\ fileChange' \in 0..MaxChanges
  BY ChangesAssumption DEF ChooseFile, TypeOK
<1>2. trouble \subseteq Troubles /\ more \subseteq Troubles /\ "unread" \in Troubles
  BY DEF TypeOK, Troubles
<1>3. trouble' \subseteq trouble \cup more \cup {"unread"}
  BY DEF ChooseFile
<1>. QED
  BY <1>1, <1>2, <1>3

LEMMA WritingEndsType ==
  ASSUME TypeOK, NEW others, WritingEnds(others)
  PROVE  trouble' \subseteq Troubles
BY DEF WritingEnds, TypeOK

(* What a call leaves behind. *)
LEMMA UpdateType ==
  ASSUME TypeOK, NEW s \in Slots, NEW state \in WorkerStates
  PROVE  Update(s, state) \in [Slots -> WorkerStates]
BY DEF TypeOK, Update

LEMMA ReturnType ==
  ASSUME TypeInv, NEW c \in Calls, call[c].pc # "idle", NEW state \in WorkerStates,
         Return(c, state)
  PROVE  w' \in [Slots -> WorkerStates] /\ call' \in [Calls -> CallStates] /\ CallsHold'
<1>1. call[c].worker \in Slots
  BY DEF TypeInv, CallsHold
<1>2. w' \in [Slots -> WorkerStates]
  BY <1>1, UpdateType, NoStateType DEF Return, TypeInv, TypeOK
<1>3. call' = [call EXCEPT ![c] = NoCall]
  BY DEF Return
<1>4. CallsHold'
  BY <1>3 DEF CallsHold, TypeInv, TypeOK, NoCall
<1>. QED
  BY <1>2, <1>3, <1>4, NoStateType DEF TypeInv, TypeOK

LEMMA ActivateType ==
  ASSUME TypeInv, NEW c \in Calls, NEW k \in Kinds, NEW s \in Slots, Activate(c, k, s)
  PROVE  TypeInv'
<1>1. w' \in [Slots -> WorkerStates] /\ registered' \in Slots
  BY NewWorkerType DEF Activate, TypeInv, TypeOK
<1> DEFINE new == [NoCall EXCEPT !.pc = "touch", !.kind = k, !.worker = s]
<1>2. new \in CallStates /\ new.worker = s /\ new.kind = k
  BY NoStateType DEF CallStates
<1>3. call' = [call EXCEPT ![c] = new]
  BY DEF Activate
<1> HIDE DEF new
<1>4. call' \in [Calls -> CallStates] /\ CallsHold'
  BY <1>2, <1>3 DEF TypeInv, TypeOK, CallsHold
<1>5. change' \in 0..MaxChanges
  BY ChangesAssumption DEF Activate, TypeInv, TypeOK
<1>. QED
  BY <1>1, <1>4, <1>5 DEF Activate, TypeInv, TypeOK, BootInv, diskVars

LEMMA CallType ==
  ASSUME TypeInv, NEW c \in Calls, CallStep(c) \/ Cancel(c)
  PROVE  TypeInv'
<1> DEFINE s == call[c].worker
<1> USE DEF TypeInv
<1>0. call[c].pc # "idle" => s \in Slots /\ w[s] \in WorkerStates /\ call[c] \in CallStates
  BY DEF CallsHold, TypeOK
<1>1. CASE Touch(c)
  <2>1. [w[s] EXCEPT !.active = TRUE, !.wake = TRUE] \in WorkerStates
    BY <1>0, <1>1 DEF Touch, WorkerStates
  <2>2. w' \in [Slots -> WorkerStates]
    BY <1>0, <1>1, <2>1, UpdateType DEF Touch
  <2>3. call' \in [Calls -> CallStates] /\ CallsHold'
    BY <1>0, <1>1 DEF Touch, TypeOK, CallStates, CallsHold
  <2>. QED
    BY <1>1, <2>2, <2>3 DEF Touch, TypeOK, BootInv, diskVars
<1>2. CASE Check(c)
  <2>1. call' \in [Calls -> CallStates] /\ CallsHold'
    BY <1>0, <1>2 DEF Check, TypeOK, CallStates, CallsHold
  <2>. QED
    BY <1>2, <2>1 DEF Check, TypeOK, BootInv, diskVars
<1>3. CASE Request(c)
  <2>1. [w[s] EXCEPT !.requested = w[s].requested \/ ~w[s].inProgress, !.wake = TRUE] \in WorkerStates
    BY <1>0, <1>3 DEF Request, WorkerStates
  <2>2. w' \in [Slots -> WorkerStates] /\ call' \in [Calls -> CallStates] /\ CallsHold'
    <3>1. CASE Return(c, [w[s] EXCEPT !.requested = w[s].requested \/ ~w[s].inProgress, !.wake = TRUE])
      BY <1>3, <2>1, <3>1, ReturnType DEF Request
    <3>2. CASE call' = [call EXCEPT ![c].pc = "wait"]
               /\ w' = Update(s, [w[s] EXCEPT !.requested = w[s].requested \/ ~w[s].inProgress, !.wake = TRUE])
      BY <1>0, <1>3, <2>1, <3>2, UpdateType DEF Request, TypeOK, CallStates, CallsHold
    <3>. QED
      BY <1>3, <3>1, <3>2 DEF Request
  <2>. QED
    BY <1>3, <2>2 DEF Request, TypeOK, BootInv, diskVars
<1>4. CASE RequestFollowUp(c)
  <2>1. \A a, b \in BOOLEAN : [w[s] EXCEPT !.rerun = a, !.requested = b, !.wake = TRUE,
                                           !.asked = change] \in WorkerStates
    BY <1>0, <1>4 DEF RequestFollowUp, WorkerStates, TypeOK
  <2>2. (w[s].rerun \/ w[s].inProgress) \in BOOLEAN
        /\ (w[s].requested \/ ~w[s].inProgress) \in BOOLEAN
    OBVIOUS
  <2>3. [w[s] EXCEPT !.rerun = w[s].rerun \/ w[s].inProgress,
                     !.requested = w[s].requested \/ ~w[s].inProgress,
                     !.wake = TRUE, !.asked = change] \in WorkerStates
    BY <2>1, <2>2, Zenon
  <2>. QED
    BY <1>4, <2>3, ReturnType DEF RequestFollowUp, TypeOK, BootInv, diskVars
<1>5. CASE WaitEnds(c)
  <2>1. call' \in [Calls -> CallStates] /\ CallsHold'
    BY <1>0, <1>5 DEF WaitEnds, TypeOK, CallStates, CallsHold
  <2>. QED
    BY <1>5, <2>1 DEF WaitEnds, TypeOK, BootInv, diskVars
<1>6. CASE WaitFails(c) \/ Cancel(c)
  BY <1>0, <1>6, ReturnType DEF WaitFails, Cancel, TypeOK, BootInv, diskVars
<1>7. CASE OpenFile(c)
  <2>1. w' \in [Slots -> WorkerStates] /\ call' \in [Calls -> CallStates] /\ CallsHold'
    <3>1. CASE Return(c, w[call[c].worker])
      BY <1>0, <1>7, <3>1, ReturnType DEF OpenFile
    <3>2. CASE call' = [call EXCEPT ![c].pc = "lock"] /\ UNCHANGED w
      BY <1>0, <1>7, <3>2 DEF OpenFile, TypeOK, CallStates, CallsHold
    <3>. QED
      BY <1>7, <3>1, <3>2 DEF OpenFile
  <2>. QED
    BY <1>7, <2>1 DEF OpenFile, TypeOK, BootInv, diskVars
<1>8. CASE SyncBaseStarts(c)
  <2>0. PICK staging \in BOOLEAN :
          /\ ChooseFile(staging, {t \in {"overlap"} : RunWrites})
          /\ call' = [call EXCEPT ![c].pc = "fill", ![c].staging = staging, ![c].from = change]
    BY <1>8 DEF SyncBaseStarts
  <2>1. call' \in [Calls -> CallStates] /\ CallsHold'
    BY <1>0, <1>8, <2>0 DEF SyncBaseStarts, TypeOK, CallStates, CallsHold
  <2>2. file' \in Files /\ fileChange' \in 0..MaxChanges /\ trouble' \subseteq Troubles
    <3>1. {t \in {"overlap"} : RunWrites} \in SUBSET Troubles
      BY DEF Troubles
    <3>. QED
      BY <2>0, <3>1, ChooseFileDoes DEF Files
  <2>. QED
    BY <1>8, <2>1, <2>2 DEF SyncBaseStarts, TypeOK, BootInv
<1>9. CASE SyncBaseEnds(c)
  <2>1. call[c].from \in 0..MaxChanges
    BY <1>0, <1>9 DEF SyncBaseEnds, CallStates
  <2>. QED
    BY <1>0, <1>9, <2>1, ReturnType, WritingEndsType DEF SyncBaseEnds, TypeOK, BootInv, Files
<1>10. CASE SyncBaseFails(c)
  BY <1>0, <1>10, ReturnType, WritingEndsType DEF SyncBaseFails, TypeOK, BootInv, Files
<1>. QED
  BY <1>1, <1>2, <1>3, <1>4, <1>5, <1>6, <1>7, <1>8, <1>9, <1>10 DEF CallStep

(* The steps that set many fields of a worker's object, and what of that   *)
(* matters here.                                                           *)
LEMMA StartRunSets ==
  ASSUME TypeOK, NEW s \in Slots, StartRun(s)
  PROVE  \E u \in WorkerStates :
           /\ w' = [w EXCEPT ![s] = u]
           /\ u.pc = "fetch" /\ u.from = change /\ u.readable = w[s].readable
           /\ u.asked = w[s].asked
<1>1. w[s] \in WorkerStates /\ change \in 0..MaxChanges
  BY DEF TypeOK
<1> DEFINE v == w[s]
           u1 == [v EXCEPT !.pc = "fetch", !.due = FALSE, !.failed = FALSE]
           u2 == [u1 EXCEPT !.sampled = TRUE, !.backingOff = FALSE, !.from = change]
<1>2. w' = [w EXCEPT ![s] = u2]
  BY DEF StartRun, TypeOK
<1>3. u1 \in WorkerStates /\ u1.pc = "fetch" /\ u1.readable = v.readable /\ u1.asked = v.asked
  BY <1>1 DEF WorkerStates, WorkerPCs
<1> HIDE DEF u1
<1>4. u2 \in WorkerStates
  BY <1>1, <1>3 DEF WorkerStates, WorkerPCs
<1>5. u2.pc = "fetch" /\ u2.from = change /\ u2.readable = v.readable /\ u2.asked = v.asked
  BY <1>1, <1>3 DEF WorkerStates, WorkerPCs
<1> HIDE DEF u2
<1>. QED
  BY <1>2, <1>4, <1>5

LEMMA FirstProgressSets ==
  ASSUME TypeOK, NEW s \in Slots, FirstProgress(s)
  PROVE  \E u \in WorkerStates :
           /\ w' = [w EXCEPT ![s] = u]
           /\ u.pc = "pages" /\ u.from = w[s].from /\ u.asked = w[s].asked
           /\ u.requested = w[s].requested /\ u.rerun = w[s].rerun /\ u.staging = w[s].staging
<1>1. w[s] \in WorkerStates
  BY DEF TypeOK
<1>2. \E a, b \in BOOLEAN :
        w' = [w EXCEPT ![s] = [w[s] EXCEPT !.pc = "pages", !.readable = TRUE, !.sampled = FALSE,
                                           !.due = FALSE, !.complete = a, !.refresh = b]]
  <2>1. w[s].staging \in BOOLEAN /\ (w[s].refresh /\ w[s].staging) \in BOOLEAN
    BY <1>1 DEF WorkerStates
  <2>. QED
    BY <2>1, Zenon DEF FirstProgress
<1>3. PICK a, b \in BOOLEAN :
        w' = [w EXCEPT ![s] = [w[s] EXCEPT !.pc = "pages", !.readable = TRUE, !.sampled = FALSE,
                                           !.due = FALSE, !.complete = a, !.refresh = b]]
  BY <1>2
<1> DEFINE v == w[s]
           u1 == [v EXCEPT !.pc = "pages", !.readable = TRUE, !.sampled = FALSE]
           u2 == [u1 EXCEPT !.due = FALSE, !.complete = a, !.refresh = b]
<1>4. w' = [w EXCEPT ![s] = u2]
  BY <1>3
<1>5. u1 \in WorkerStates
  BY <1>1 DEF WorkerStates, WorkerPCs
<1>6. /\ u1.pc = "pages" /\ u1.from = v.from /\ u1.asked = v.asked
      /\ u1.requested = v.requested /\ u1.rerun = v.rerun /\ u1.staging = v.staging
  BY <1>1 DEF WorkerStates
<1> HIDE DEF u1
<1>7. u2 \in WorkerStates
  BY <1>5 DEF WorkerStates
<1>8. /\ u2.pc = "pages" /\ u2.from = v.from /\ u2.asked = v.asked
      /\ u2.requested = v.requested /\ u2.rerun = v.rerun /\ u2.staging = v.staging
  BY <1>5, <1>6 DEF WorkerStates
<1> HIDE DEF u2
<1>. QED
  BY <1>4, <1>7, <1>8

LEMMA RemoveWorkerSets ==
  ASSUME TypeOK, NEW s \in Slots, RemoveWorker(s)
  PROVE  \E u \in WorkerStates :
           w' = [w EXCEPT ![s] = u] /\ u.pc \in {"none", "dead"} /\ u.asked \in {0, w[s].asked}
<1>1. w[s] \in WorkerStates
  BY DEF TypeOK
<1> DEFINE v == w[s]
           u1 == [v EXCEPT !.pc = "dead", !.active = FALSE, !.due = TRUE]
           u2 == [u1 EXCEPT !.backingOff = FALSE, !.wake = FALSE, !.requested = FALSE]
<1>2. w' = [w EXCEPT ![s] = u2] \/ w' = [w EXCEPT ![s] = NoState]
  BY DEF RemoveWorker
<1>3. u1 \in WorkerStates /\ u1.pc = "dead" /\ u1.asked = v.asked
  BY <1>1 DEF WorkerStates, WorkerPCs
<1> HIDE DEF u1
<1>4. u2 \in WorkerStates /\ u2.pc = "dead" /\ u2.asked = v.asked
  BY <1>3 DEF WorkerStates
<1> HIDE DEF u2
<1>5. NoState \in WorkerStates /\ NoState.pc = "none" /\ NoState.asked = 0
  BY NoStateType DEF NoState
<1>. QED
  BY <1>2, <1>4, <1>5

Restored(v, readable, complete, sampled, due) ==
  [v EXCEPT !.active = TRUE, !.wake = TRUE, !.readable = readable, !.complete = complete,
            !.sampled = sampled, !.due = due]

LEMMA RestoreStateSets ==
  ASSUME TypeInv, RestoreState
  PROVE  \E u \in WorkerStates :
           /\ registered \in Slots /\ w' = [w EXCEPT ![registered] = u]
           /\ u.pc = w[registered].pc /\ (u.readable => file # "absent" \/ w[registered].readable)
           /\ u.from = w[registered].from /\ u.asked = w[registered].asked
           /\ u.requested = w[registered].requested /\ u.rerun = w[registered].rerun
           /\ u.staging = w[registered].staging /\ u.runOk = w[registered].runOk
<1> DEFINE s == registered
           v == w[s]
<1>1. s \in Slots /\ v \in WorkerStates
  BY DEF TypeInv, TypeOK, BootInv, RestoreState
<1>2. \E a, b, c, d \in BOOLEAN :
        w' = [w EXCEPT ![s] = Restored(v, a, b, c, d)] /\ (a => file # "absent" \/ v.readable)
  <2>1. PICK due \in BOOLEAN :
          w' = [w EXCEPT ![s] =
                 Restored(v, file # "absent" \/ (row # "synced" /\ v.readable),
                          IF row = "synced" THEN file # "absent" ELSE v.complete,
                          v.sampled \/ row = "synced",
                          IF row = "synced" THEN due ELSE v.due)]
    BY Zenon DEF RestoreState, Restored
  <2>2. /\ (file # "absent" \/ (row # "synced" /\ v.readable)) \in BOOLEAN
        /\ (IF row = "synced" THEN file # "absent" ELSE v.complete) \in BOOLEAN
        /\ (v.sampled \/ row = "synced") \in BOOLEAN
        /\ (IF row = "synced" THEN due ELSE v.due) \in BOOLEAN
    BY <1>1 DEF WorkerStates
  <2>3. file # "absent" \/ (row # "synced" /\ v.readable) => file # "absent" \/ v.readable
    OBVIOUS
  <2>. QED
    BY <2>1, <2>2, <2>3, Zenon
<1>3. PICK a, b, c, d \in BOOLEAN :
        w' = [w EXCEPT ![s] = Restored(v, a, b, c, d)] /\ (a => file # "absent" \/ v.readable)
  BY <1>2
<1> DEFINE u1 == [v EXCEPT !.active = TRUE, !.wake = TRUE, !.readable = a]
           u2 == [u1 EXCEPT !.complete = b, !.sampled = c, !.due = d]
<1>4. w' = [w EXCEPT ![s] = u2]
  BY <1>3 DEF Restored
<1>5. u1 \in WorkerStates
  BY <1>1 DEF WorkerStates
<1>6. /\ u1.pc = v.pc /\ u1.readable = a /\ u1.from = v.from /\ u1.asked = v.asked
      /\ u1.requested = v.requested /\ u1.rerun = v.rerun
      /\ u1.staging = v.staging /\ u1.runOk = v.runOk
  BY <1>1 DEF WorkerStates
<1> HIDE DEF u1
<1>7. u2 \in WorkerStates
  BY <1>5 DEF WorkerStates
<1>8. /\ u2.pc = v.pc /\ u2.readable = a /\ u2.from = v.from /\ u2.asked = v.asked
      /\ u2.requested = v.requested /\ u2.rerun = v.rerun
      /\ u2.staging = v.staging /\ u2.runOk = v.runOk
  BY <1>5, <1>6 DEF WorkerStates
<1> HIDE DEF u2
<1>. QED
  BY <1>1, <1>3, <1>4, <1>7, <1>8

Finished(v, requested, failed, readable, complete, sampled, refresh) ==
  [v EXCEPT !.pc = "loop", !.inProgress = FALSE, !.requested = requested, !.rerun = FALSE,
            !.failed = failed, !.backingOff = failed, !.readable = readable,
            !.complete = complete, !.sampled = sampled, !.refresh = refresh,
            !.staging = FALSE, !.runOk = FALSE]

LEMMA FinishRunSets ==
  ASSUME TypeOK, NEW s \in Slots, FinishRun(s)
  PROVE  \E u \in WorkerStates :
           /\ w' = [w EXCEPT ![s] = u]
           /\ u.pc = "loop" /\ (w[s].requested \/ w[s].rerun => u.requested)
           /\ (u.readable => w[s].readable \/ w[s].runOk)
           /\ u.from = w[s].from /\ u.asked = w[s].asked
<1>1. w[s] \in WorkerStates
  BY DEF TypeOK
<1>2. \E a, b, c, d, e, f \in BOOLEAN :
        /\ w' = [w EXCEPT ![s] = Finished(w[s], a, b, c, d, e, f)]
        /\ (w[s].requested \/ w[s].rerun => a) /\ (c => w[s].readable \/ w[s].runOk)
  <2> DEFINE v == w[s]
  <2>1. /\ (v.requested \/ v.rerun) \in BOOLEAN /\ (~v.runOk) \in BOOLEAN
        /\ (v.readable \/ v.runOk) \in BOOLEAN /\ (v.complete \/ v.runOk) \in BOOLEAN
        /\ (v.sampled \/ v.runOk) \in BOOLEAN /\ (v.refresh /\ ~v.runOk /\ ~v.complete) \in BOOLEAN
    OBVIOUS
  <2>2. w' = [w EXCEPT ![s] =
               Finished(v, v.requested \/ v.rerun, ~v.runOk, v.readable \/ v.runOk,
                        v.complete \/ v.runOk, v.sampled \/ v.runOk,
                        v.refresh /\ ~v.runOk /\ ~v.complete)]
    BY Zenon DEF FinishRun, Finished
  <2>. QED
    BY <2>1, <2>2, Zenon
<1>3. PICK a, b, c, d, e, f \in BOOLEAN :
        /\ w' = [w EXCEPT ![s] = Finished(w[s], a, b, c, d, e, f)]
        /\ (w[s].requested \/ w[s].rerun => a) /\ (c => w[s].readable \/ w[s].runOk)
  BY <1>2
<1> DEFINE v == w[s]
           u1 == [v EXCEPT !.pc = "loop", !.inProgress = FALSE, !.requested = a, !.rerun = FALSE]
           u2 == [u1 EXCEPT !.failed = b, !.backingOff = b, !.readable = c, !.complete = d]
           u3 == [u2 EXCEPT !.sampled = e, !.refresh = f, !.staging = FALSE, !.runOk = FALSE]
<1>4. w' = [w EXCEPT ![s] = u3]
  BY <1>3 DEF Finished
<1>5. /\ u1 \in WorkerStates
      /\ u1.pc = "loop" /\ u1.requested = a /\ u1.from = v.from /\ u1.asked = v.asked
  BY <1>1 DEF WorkerStates, WorkerPCs
<1> HIDE DEF u1
<1>6. u2 \in WorkerStates
  BY <1>5 DEF WorkerStates, WorkerPCs
<1>7. /\ u2.pc = "loop" /\ u2.requested = a /\ u2.readable = c
      /\ u2.from = v.from /\ u2.asked = v.asked
    BY <1>5 DEF WorkerStates, WorkerPCs
<1> HIDE DEF u2
<1>8. u3 \in WorkerStates
  BY <1>6 DEF WorkerStates, WorkerPCs
<1>9. /\ u3.pc = "loop" /\ u3.requested = a /\ u3.readable = c
      /\ u3.from = v.from /\ u3.asked = v.asked
    BY <1>6, <1>7 DEF WorkerStates, WorkerPCs
<1> HIDE DEF u3
<1>. QED
  BY <1>3, <1>4, <1>8, <1>9
(* A step of worker s, of its clock included, changes at most its object. *)
WorkerOrClock(s) == WorkerStep(s) \/ TTLElapses(s) \/ IntervalElapses(s) \/ BackoffElapses(s)

LEMMA WorkerType ==
  ASSUME TypeInv, NEW s \in Slots, WorkerOrClock(s)
  PROVE  TypeInv'
<1> USE DEF TypeInv
<1>1. \E state \in WorkerStates : w' = [w EXCEPT ![s] = state]
  <2>0. w[s] \in WorkerStates /\ w \in [Slots -> WorkerStates] /\ change \in 0..MaxChanges
    BY DEF TypeOK
  <2>1. CASE NextAction(s)
    BY <2>0, <2>1 DEF NextAction, WorkerStates, WorkerPCs
  <2>2. CASE Wake(s)
    BY <2>0, <2>2 DEF Wake, WorkerStates, WorkerPCs
  <2>3. CASE RemoveFile(s)
    BY <2>0, <2>3 DEF RemoveFile, WorkerStates, WorkerPCs
  <2>4. CASE RemoveWorker(s)
    BY <2>4, RemoveWorkerSets DEF TypeInv
  <2>5. CASE StartRun(s)
    BY <2>5, StartRunSets DEF TypeInv
  <2>6. CASE InitializeSnapshot(s)
    <3>1. PICK a \in BOOLEAN : w' = [w EXCEPT ![s] = [w[s] EXCEPT !.pc = "progress", !.staging = a]]
      BY <2>6 DEF InitializeSnapshot
    <3>. QED
      BY <2>0, <3>1 DEF WorkerStates, WorkerPCs
  <2>7. CASE FirstProgress(s)
    BY <2>7, FirstProgressSets DEF TypeInv
  <2>8. CASE FirstPages(s)
    BY <2>0, <2>8 DEF FirstPages, WorkerStates, WorkerPCs
  <2>9. CASE Commit(s)
    BY <2>0, <2>9 DEF Commit, WorkerStates, WorkerPCs
  <2>10. CASE PutState(s) \/ FailRun(s)
    BY <2>0, <2>10 DEF PutState, FailRun, WorkerStates, WorkerPCs
  <2>11. CASE FinishRun(s)
    BY <2>11, FinishRunSets DEF TypeInv
  <2>12. CASE TTLElapses(s)
    BY <2>0, <2>12 DEF TTLElapses, WorkerStates
  <2>13. CASE IntervalElapses(s)
    BY <2>0, <2>13 DEF IntervalElapses, WorkerStates
  <2>14. CASE BackoffElapses(s)
    BY <2>0, <2>14 DEF BackoffElapses, WorkerStates
  <2>. QED
    BY <2>1, <2>2, <2>3, <2>4, <2>5, <2>6, <2>7, <2>8, <2>9, <2>10, <2>11, <2>12,
       <2>13, <2>14
    DEF WorkerOrClock, WorkerStep, RunStep
<1>2. w' \in [Slots -> WorkerStates]
  BY <1>1 DEF TypeOK
<1>3. UNCHANGED <<call, boot, change>>
  BY DEF WorkerOrClock, WorkerStep, RunStep, NextAction, Wake, RemoveFile, RemoveWorker, StartRun,
         InitializeSnapshot, FirstProgress, FirstPages, Commit, PutState, FailRun, FinishRun,
         TTLElapses, IntervalElapses, BackoffElapses
<1>4. registered' = registered \/ (registered' = NoWorker /\ boot # "restoring")
  BY DEF WorkerOrClock, WorkerStep, RunStep, NextAction, Wake, RemoveFile, RemoveWorker, StartRun,
         InitializeSnapshot, FirstProgress, FirstPages, Commit, PutState, FailRun, FinishRun,
         TTLElapses, IntervalElapses, BackoffElapses
<1>5. file' \in Files /\ fileChange' \in 0..MaxChanges /\ row' \in {"none", "touched", "synced"}
  <2>1. w[s].from \in 0..MaxChanges
    BY DEF TypeOK, WorkerStates
  <2>. QED
    BY <2>1, ChangesAssumption
    DEF WorkerOrClock, WorkerStep, RunStep, NextAction, Wake, RemoveFile, RemoveWorker, StartRun,
        InitializeSnapshot, ChooseFile, FirstProgress, FirstPages, Commit, PutState, FailRun,
        FinishRun, TTLElapses, IntervalElapses, BackoffElapses, TypeOK, Files, diskVars
<1>6. trouble' \subseteq Troubles
  <2>1. CASE InitializeSnapshot(s)
    BY <2>1, ChooseFileDoes DEF InitializeSnapshot
  <2>2. CASE Commit(s) \/ FailRun(s)
    BY <2>2, WritingEndsType DEF Commit, FailRun
  <2>3. CASE StartRun(s)
    BY <2>3 DEF StartRun, TypeOK, Troubles
  <2>. QED
    BY <2>1, <2>2, <2>3
    DEF WorkerOrClock, WorkerStep, RunStep, NextAction, Wake, RemoveFile, RemoveWorker,
        FirstProgress, FirstPages, PutState, FinishRun,
        TTLElapses, IntervalElapses, BackoffElapses, TypeOK, diskVars
<1>. QED
  BY <1>2, <1>3, <1>4, <1>5, <1>6 DEF TypeOK, CallsHold, BootInv

LEMMA BootType == TypeInv /\ BootStep => TypeInv'
<1> SUFFICES ASSUME TypeInv, BootStep PROVE TypeInv'
  OBVIOUS
<1> USE DEF TypeInv
<1>1. CASE SweepFiles
  BY <1>1, ChangesAssumption DEF SweepFiles, TypeOK, CallsHold, BootInv, Files, diskVars
<1>2. ASSUME NEW s \in Slots, RestoreWorker(s) PROVE TypeInv'
  BY <1>2, NewWorkerType DEF RestoreWorker, TypeOK, CallsHold, BootInv, diskVars
<1>3. CASE RestoreState
  <2>1. w' \in [Slots -> WorkerStates]
    BY <1>3, RestoreStateSets DEF TypeOK
  <2>. QED
    BY <1>3, <2>1 DEF RestoreState, TypeOK, CallsHold, BootInv, diskVars
<1>4. CASE NothingToRestore
  BY <1>4 DEF NothingToRestore, TypeOK, CallsHold, BootInv, diskVars
<1>. QED
  BY <1>1, <1>2, <1>3, <1>4 DEF BootStep

LEMMA CrashType == TypeInv /\ Crash => TypeInv'
<1> SUFFICES ASSUME TypeInv, Crash PROVE TypeInv'
  OBVIOUS
<1>1. \A c \in Calls : call'[c].pc = "idle"
  BY DEF Crash, NoCall
<1>. QED
  BY <1>1, NoStateType, ChangesAssumption
  DEF Crash, TypeInv, TypeOK, CallsHold, BootInv, Files, diskVars

LEMMA NextType == TypeInv /\ [Next]_vars => TypeInv'
<1>1. TypeInv /\ UNCHANGED vars => TypeInv'
  BY DEF vars, diskVars, TypeInv, TypeOK, CallsHold, BootInv
<1>. QED
  BY <1>1, ActivateType, CallType, WorkerType, BootType, CrashType DEF Next, WorkerOrClock

(* Every variable keeps its type. *)
THEOREM TypeCorrect == Spec => []TypeOK
<1>1. TypeInv => TypeOK
  BY DEF TypeInv
<1>. QED
  BY <1>1, InitType, NextType, PTL DEF Spec

-----------------------------------------------------------------------------
(* The invariant *)

(* A worker counts on a file in these states. *)
NeedsFile(v) ==
  \/ v.readable /\ v.pc # "remove"
  \/ v.pc \in {"progress", "pages", "rest", "put"}
  \/ v.pc = "finish" /\ v.runOk

FileInv == \A s \in Slots : registered = s /\ NeedsFile(w[s]) => file # "absent"

(* A follow-up that was asked for is in the flags or about to start. *)
FollowUpKept(v) ==
  v.asked > v.from => v.requested \/ v.rerun \/ v.pc \in {"start"} \cup Leaving

FollowUpInv == \A s \in Slots : registered = s => FollowUpKept(w[s])

(* Nobody asks for a mutation that has not been made. *)
AskedInv == \A s \in Slots : w[s].asked <= change

WorkerInv == OneWorker /\ FileInv /\ FollowUpInv /\ AskedInv

LEMMA InitInv == Init => WorkerInv
<1> SUFFICES ASSUME Init PROVE WorkerInv
  OBVIOUS
<1>1. registered = NoWorker /\ \A s \in Slots : w[s].pc = "none" /\ w[s].asked = 0
  BY DEF Init, NoState
<1>2. change = 0
  BY DEF Init
<1>. QED
  BY <1>1, <1>2, SlotsAssumption DEF WorkerInv, OneWorker, FileInv, FollowUpInv, AskedInv

-----------------------------------------------------------------------------
(* Tool calls *)

(* What a call makes of worker object v: nothing that the goroutine looks  *)
(* at, but a wish is never taken back; n is the number of mutations.       *)
CallChanges(v, u, n) ==
  \/ v.pc = "dead" /\ u.pc \in {"none", "dead"} /\ u.asked <= v.asked
  \/ /\ u.pc = v.pc /\ u.readable = v.readable /\ u.runOk = v.runOk
     /\ u.staging = v.staging /\ u.from = v.from
     /\ v.requested => u.requested
     /\ v.rerun => u.rerun
     /\ u.asked = v.asked \/ (u.asked = n /\ (u.requested \/ u.rerun))

LEMMA NoChange ==
  ASSUME NEW v \in WorkerStates, NEW n
  PROVE  CallChanges(v, v, n)
BY DEF CallChanges, WorkerStates

LEMMA UpdateDoes ==
  ASSUME TypeOK, NEW s \in Slots, NEW state \in WorkerStates, CallChanges(w[s], state, change),
         w' = Update(s, state)
  PROVE  \A t \in Slots : CallChanges(w[t], w'[t], change)
<1>1. \A t \in Slots : w'[t] = IF t = s /\ w[s].pc # "dead" THEN state ELSE w[t]
  BY DEF Update, TypeOK
<1>2. \A t \in Slots : w[t] \in WorkerStates
  BY DEF TypeOK
<1>. QED
  BY <1>1, <1>2, NoChange

LEMMA ReturnDoes ==
  ASSUME TypeInv, NEW c \in Calls, call[c].pc # "idle",
         NEW state \in WorkerStates, CallChanges(w[call[c].worker], state, change),
         Return(c, state)
  PROVE  \A t \in Slots : CallChanges(w[t], w'[t], change)
<1>1. call[c].worker \in Slots /\ TypeOK
  BY DEF TypeInv, CallsHold
<1> DEFINE s == call[c].worker
<1>2. CASE w' = Update(s, state)
  BY <1>1, <1>2, UpdateDoes
<1>3. CASE w[s].pc = "dead" /\ w' = [w EXCEPT ![s] = NoState]
  <2>1. \A t \in Slots : w'[t] = IF t = s THEN NoState ELSE w[t]
    BY <1>3 DEF TypeInv, TypeOK
  <2>2. NoState.pc = "none" /\ NoState.asked = 0
    BY DEF NoState
  <2>3. \A t \in Slots : w[t] \in WorkerStates /\ w[t].asked \in Nat
    BY <1>1, ChangesAssumption DEF TypeOK, WorkerStates
  <2>4. CallChanges(w[s], NoState, change)
    BY <1>1, <1>3, <2>2, <2>3 DEF CallChanges
  <2>. QED
    BY <2>1, <2>3, <2>4, NoChange
<1>. QED
  BY <1>2, <1>3 DEF Return

LEMMA CallDoes ==
  ASSUME TypeInv, NEW c \in Calls, CallStep(c) \/ Cancel(c)
  PROVE  /\ \A t \in Slots : CallChanges(w[t], w'[t], change)
         /\ UNCHANGED <<registered, change>>
         /\ file # "absent" => file' # "absent"
<1> DEFINE s == call[c].worker
<1>0. /\ TypeOK /\ \A t \in Slots : w[t] \in WorkerStates
      /\ call[c].pc # "idle" => s \in Slots
  BY DEF TypeInv, TypeOK, CallsHold
<1>1. CASE Touch(c)
  <2> DEFINE u == [w[s] EXCEPT !.active = TRUE, !.wake = TRUE]
  <2>1. s \in Slots /\ w' = Update(s, u)
    BY <1>0, <1>1 DEF Touch
  <2>2. u \in WorkerStates
    <3>1. w[s] \in WorkerStates
      BY <1>0, <2>1
    <3>. QED
      BY <3>1 DEF WorkerStates
  <2>3. CallChanges(w[s], u, change)
    BY <1>0, <2>1 DEF WorkerStates, CallChanges
  <2>. QED
    BY <1>0, <1>1, <2>1, <2>2, <2>3, UpdateDoes DEF Touch, diskVars
<1>2. CASE Check(c) \/ WaitEnds(c)
  BY <1>0, <1>2, NoChange DEF Check, WaitEnds, diskVars
<1>3. CASE Request(c)
  <2> DEFINE u == [w[s] EXCEPT !.requested = w[s].requested \/ ~w[s].inProgress, !.wake = TRUE]
  <2>1. s \in Slots /\ (Return(c, u) \/ w' = Update(s, u))
    BY <1>0, <1>3 DEF Request
  <2>2. u \in WorkerStates
    <3>1. w[s] \in WorkerStates
      BY <1>0, <2>1
    <3>2. \A a \in BOOLEAN : [w[s] EXCEPT !.requested = a, !.wake = TRUE] \in WorkerStates
      BY <3>1 DEF WorkerStates
    <3>3. (w[s].requested \/ ~w[s].inProgress) \in BOOLEAN
      OBVIOUS
    <3>. QED
      BY <3>2, <3>3, Zenon
  <2>3. CallChanges(w[s], u, change)
    BY <1>0, <2>1 DEF WorkerStates, CallChanges
  <2> HIDE DEF u
  <2>4. \A t \in Slots : CallChanges(w[t], w'[t], change)
    BY <1>0, <1>3, <2>1, <2>2, <2>3, UpdateDoes, ReturnDoes DEF Request
  <2>. QED
    BY <1>3, <2>4 DEF Request, diskVars
<1>4. CASE RequestFollowUp(c)
  <2>1. s \in Slots
    BY <1>0, <1>4 DEF RequestFollowUp
  <2>2. \E a, b \in BOOLEAN :
          /\ Return(c, [w[s] EXCEPT !.rerun = a, !.requested = b, !.wake = TRUE, !.asked = change])
          /\ (w[s].rerun => a) /\ (w[s].requested => b) /\ (a \/ b)
    <3>1. (w[s].rerun \/ w[s].inProgress) \in BOOLEAN
          /\ (w[s].requested \/ ~w[s].inProgress) \in BOOLEAN
      OBVIOUS
    <3>. QED
      BY <1>4, <3>1, Zenon DEF RequestFollowUp
  <2>3. PICK a, b \in BOOLEAN :
          /\ Return(c, [w[s] EXCEPT !.rerun = a, !.requested = b, !.wake = TRUE, !.asked = change])
          /\ (w[s].rerun => a) /\ (w[s].requested => b) /\ (a \/ b)
    BY <2>2
  <2> DEFINE u == [w[s] EXCEPT !.rerun = a, !.requested = b, !.wake = TRUE, !.asked = change]
  <2>4. u \in WorkerStates
    <3>1. w[s] \in WorkerStates /\ change \in 0..MaxChanges
      BY <1>0, <2>1 DEF TypeOK
    <3>. QED
      BY <3>1 DEF WorkerStates
  <2>5. CallChanges(w[s], u, change)
    <3>1. /\ u.pc = w[s].pc /\ u.readable = w[s].readable /\ u.runOk = w[s].runOk
          /\ u.staging = w[s].staging /\ u.from = w[s].from
          /\ u.rerun = a /\ u.requested = b /\ u.asked = change
      BY <1>0, <2>1 DEF WorkerStates
    <3>. QED
      BY <2>3, <3>1 DEF CallChanges
  <2>6. Return(c, u)
    BY <2>3
  <2> HIDE DEF u
  <2>. QED
    BY <1>4, <2>4, <2>5, <2>6, ReturnDoes DEF RequestFollowUp, diskVars
<1>5. ASSUME call[c].pc # "idle", Return(c, w[s])
      PROVE  \A t \in Slots : CallChanges(w[t], w'[t], change)
  BY <1>0, <1>5, NoChange, ReturnDoes
<1>6. CASE WaitFails(c) \/ Cancel(c)
  BY <1>5, <1>6 DEF WaitFails, Cancel, diskVars
<1>7. CASE OpenFile(c)
  <2>1. Return(c, w[s]) \/ UNCHANGED w
    BY <1>7 DEF OpenFile
  <2>. QED
    BY <1>0, <1>5, <1>7, <2>1, NoChange DEF OpenFile, diskVars
<1>8. CASE SyncBaseStarts(c)
  BY <1>0, <1>8, NoChange DEF SyncBaseStarts, ChooseFile
<1>9. CASE SyncBaseEnds(c) \/ SyncBaseFails(c)
  BY <1>5, <1>9 DEF SyncBaseEnds, SyncBaseFails
<1>. QED
  BY <1>1, <1>2, <1>3, <1>4, <1>6, <1>7, <1>8, <1>9 DEF CallStep

LEMMA ChangesInv ==
  ASSUME TypeInv, TypeInv', WorkerInv,
         \A t \in Slots : CallChanges(w[t], w'[t], change),
         UNCHANGED <<registered, change>>, file # "absent" => file' # "absent"
  PROVE  WorkerInv'
<1>1. \A t \in Slots : /\ w'[t].pc \in {"none", "dead"} <=> w[t].pc \in {"none", "dead"}
                       /\ w[t].asked \in Nat /\ change \in Nat
                       /\ registered = t => w[t].pc # "dead"
  BY ChangesAssumption DEF CallChanges, TypeInv, TypeOK, WorkerStates, WorkerInv, OneWorker
<1>2. OneWorker'
  BY <1>1 DEF WorkerInv, OneWorker
<1>3. FileInv'
  BY <1>1 DEF WorkerInv, FileInv, NeedsFile, CallChanges
<1>4. FollowUpInv'
  BY <1>1 DEF WorkerInv, FollowUpInv, FollowUpKept, CallChanges
<1>5. AskedInv'
  <2>1. \A t \in Slots : w'[t].asked \in Nat
    BY ChangesAssumption DEF TypeInv, TypeOK, WorkerStates
  <2>. QED
    BY <1>1, <2>1 DEF WorkerInv, AskedInv, CallChanges
<1>. QED
  BY <1>2, <1>3, <1>4, <1>5 DEF WorkerInv

LEMMA CallInv ==
  ASSUME TypeInv, WorkerInv, NEW c \in Calls, CallStep(c) \/ Cancel(c)
  PROVE  WorkerInv'
BY CallType, CallDoes, ChangesInv

(* A new worker is registered where there was none. *)
LEMMA NewWorkerInv ==
  ASSUME TypeInv, WorkerInv, NEW s \in Slots, NEW state \in NewWorkers,
         registered = NoWorker, registered' = s, w' = [w EXCEPT ![s] = state], UNCHANGED file, change' \in Nat, change <= change'
  PROVE  WorkerInv'
<1>1. \A t \in Slots : w'[t] = IF t = s THEN state ELSE w[t]
  BY DEF TypeInv, TypeOK
<1>2. /\ state.pc = "loop" /\ state.from = 0 /\ state.asked = 0
      /\ state.readable => file # "absent"
  BY NewWorkerType
<1>3. \A t \in Slots : w[t].pc \in {"none", "dead"} /\ w[t].asked <= change
  BY SlotsAssumption DEF WorkerInv, OneWorker, AskedInv
<1>4. \A t \in Slots : w[t].asked \in Nat /\ change \in Nat
  BY ChangesAssumption DEF TypeInv, TypeOK, WorkerStates
<1>5. OneWorker'
  BY <1>1, <1>2, <1>3 DEF OneWorker
<1>6. FileInv' /\ FollowUpInv'
  BY <1>1, <1>2 DEF FileInv, NeedsFile, FollowUpInv, FollowUpKept
<1>7. AskedInv'
  BY <1>1, <1>2, <1>3, <1>4 DEF AskedInv
<1>. QED
  BY <1>5, <1>6, <1>7 DEF WorkerInv

LEMMA ActivateInv ==
  ASSUME TypeInv, WorkerInv, NEW c \in Calls, NEW k \in Kinds, NEW s \in Slots, Activate(c, k, s)
  PROVE  WorkerInv'
<1>1. change' \in Nat /\ change \in Nat /\ change <= change'
  BY ChangesAssumption DEF Activate, TypeInv, TypeOK
<1>2. UNCHANGED file
  BY DEF Activate, diskVars
<1>3. CASE /\ registered = NoWorker /\ registered' = s
           /\ \E state \in NewWorkers : w' = [w EXCEPT ![s] = state]
  BY <1>1, <1>2, <1>3, NewWorkerInv
<1>4. CASE UNCHANGED <<registered, w>>
  <2>1. \A t \in Slots : w[t].asked \in Nat
    BY ChangesAssumption DEF TypeInv, TypeOK, WorkerStates
  <2>2. AskedInv'
    BY <1>1, <1>4, <2>1 DEF WorkerInv, AskedInv
  <2>. QED
    BY <1>2, <1>4, <2>2 DEF WorkerInv, OneWorker, FileInv, FollowUpInv
<1>. QED
  BY <1>3, <1>4 DEF Activate

-----------------------------------------------------------------------------
(* The worker *)

(* A step of the registered worker, after which it is still there. *)
LEMMA OwnStep ==
  ASSUME TypeInv, WorkerInv, NEW s \in Slots, NEW u \in WorkerStates,
         w' = [w EXCEPT ![s] = u], registered = s, UNCHANGED <<registered, change>>,
         u.pc \notin {"none", "dead"}, u.asked = w[s].asked,
         NeedsFile(u) => file' # "absent", FollowUpKept(u)
  PROVE  WorkerInv'
<1>1. \A t \in Slots : w'[t] = IF t = s THEN u ELSE w[t]
  BY DEF TypeInv, TypeOK
<1>2. OneWorker'
  BY <1>1 DEF WorkerInv, OneWorker
<1>3. FileInv' /\ FollowUpInv'
  BY <1>1 DEF FileInv, FollowUpInv
<1>4. AskedInv'
  BY <1>1 DEF WorkerInv, AskedInv
<1>. QED
  BY <1>2, <1>3, <1>4 DEF WorkerInv

LEMMA Registered ==
  ASSUME WorkerInv, NEW s \in Slots, w[s].pc \notin {"none", "dead"}
  PROVE  /\ registered = s
         /\ NeedsFile(w[s]) => file # "absent"
         /\ FollowUpKept(w[s]) /\ w[s].asked <= change
BY DEF WorkerInv, OneWorker, FileInv, FollowUpInv, AskedInv

LEMMA ClockInv ==
  ASSUME TypeInv, WorkerInv, NEW s \in Slots,
         TTLElapses(s) \/ IntervalElapses(s) \/ BackoffElapses(s)
  PROVE  WorkerInv'
<1>0. w[s] \in WorkerStates /\ w \in [Slots -> WorkerStates]
  BY DEF TypeInv, TypeOK
<1>1. UNCHANGED <<registered, change, file>>
  BY DEF TTLElapses, IntervalElapses, BackoffElapses, diskVars
<1>2. \/ w' = [w EXCEPT ![s] = [w[s] EXCEPT !.active = FALSE]]
      \/ w' = [w EXCEPT ![s] = [w[s] EXCEPT !.due = TRUE]]
      \/ w' = [w EXCEPT ![s] = [w[s] EXCEPT !.backingOff = FALSE]]
  BY DEF TTLElapses, IntervalElapses, BackoffElapses
<1>3. \E u : w' = [w EXCEPT ![s] = u] /\ CallChanges(w[s], u, change)
  BY <1>0, <1>2 DEF CallChanges, WorkerStates
<1>4. \A t \in Slots : CallChanges(w[t], w'[t], change)
  BY <1>0, <1>3, NoChange
<1>. QED
  BY <1>1, <1>4, WorkerType, ChangesInv DEF WorkerOrClock

LEMMA WorkerStepInv ==
  ASSUME TypeInv, WorkerInv, NEW s \in Slots, WorkerStep(s)
  PROVE  WorkerInv'
<1>0. /\ w[s] \in WorkerStates /\ w \in [Slots -> WorkerStates] /\ TypeOK
      /\ change \in Nat /\ w[s].asked \in Nat
  BY ChangesAssumption DEF TypeInv, TypeOK, WorkerStates
<1>1. CASE NextAction(s)
  <2>1. \E u \in WorkerStates :
          /\ w' = [w EXCEPT ![s] = u]
          /\ \/ u.pc \in {"cleanup", "start"}
             \/ u.pc \in {"backoff", "sleep"} /\ u.requested = w[s].requested /\ u.rerun = w[s].rerun
          /\ u.readable = w[s].readable /\ u.from = w[s].from /\ u.asked = w[s].asked
    BY <1>0, <1>1 DEF NextAction, WorkerStates, WorkerPCs
  <2>2. w[s].pc = "loop" /\ UNCHANGED <<registered, change, file>>
    BY <1>1 DEF NextAction, diskVars
  <2>. QED
    BY <2>1, <2>2, Registered, OwnStep DEF NeedsFile, FollowUpKept, Leaving
<1>2. CASE Wake(s)
  <2>1. \E u \in WorkerStates :
          /\ w' = [w EXCEPT ![s] = u]
          /\ u.pc = "loop" /\ u.requested = w[s].requested /\ u.rerun = w[s].rerun
          /\ u.readable = w[s].readable /\ u.from = w[s].from /\ u.asked = w[s].asked
    BY <1>0, <1>2 DEF Wake, WorkerStates, WorkerPCs
  <2>2. w[s].pc \in {"sleep", "backoff"} /\ UNCHANGED <<registered, change, file>>
    BY <1>2 DEF Wake, diskVars
  <2>. QED
    BY <2>1, <2>2, Registered, OwnStep DEF NeedsFile, FollowUpKept, Leaving
<1>3. CASE RemoveFile(s)
  <2> DEFINE u == [w[s] EXCEPT !.pc = "remove"]
  <2>1. u \in WorkerStates /\ u.pc = "remove" /\ u.asked = w[s].asked
    BY <1>0 DEF WorkerStates, WorkerPCs
  <2>3. w' = [w EXCEPT ![s] = u]
    BY <1>3 DEF RemoveFile
  <2> HIDE DEF u
  <2>2. w[s].pc = "cleanup" /\ UNCHANGED <<registered, change>>
    BY <1>3 DEF RemoveFile
  <2>. QED
    BY <2>1, <2>2, <2>3, Registered, OwnStep DEF NeedsFile, FollowUpKept, Leaving
<1>4. CASE RemoveWorker(s)
  <2>1. PICK u \in WorkerStates :
          w' = [w EXCEPT ![s] = u] /\ u.pc \in {"none", "dead"} /\ u.asked \in {0, w[s].asked}
    BY <1>0, <1>4, RemoveWorkerSets
  <2>2. registered' = NoWorker /\ w[s].pc = "remove" /\ UNCHANGED change
    BY <1>4 DEF RemoveWorker
  <2>3. \A t \in Slots : w'[t] = IF t = s THEN u ELSE w[t]
    BY <1>0, <2>1
  <2>4. registered = s
    BY <2>2, Registered
  <2>5. OneWorker' /\ FileInv' /\ FollowUpInv'
    BY <2>1, <2>2, <2>3, <2>4, SlotsAssumption
    DEF WorkerInv, OneWorker, FileInv, FollowUpInv
  <2>6. u.asked <= change
    BY <1>0, <2>1 DEF WorkerInv, AskedInv
  <2>. QED
    BY <2>2, <2>3, <2>5, <2>6 DEF WorkerInv, AskedInv
<1>5. CASE StartRun(s)
  <2>1. w[s].pc = "start" /\ UNCHANGED <<registered, change, file>>
    BY <1>5 DEF StartRun, diskVars
  <2>. QED
    BY <1>0, <1>5, <2>1, StartRunSets, Registered, OwnStep DEF NeedsFile, FollowUpKept
<1>6. CASE InitializeSnapshot(s)
  <2>2. PICK a \in BOOLEAN : /\ ChooseFile(a, {})
                             /\ w' = [w EXCEPT ![s] = [w[s] EXCEPT !.pc = "progress", !.staging = a]]
    BY <1>6 DEF InitializeSnapshot
  <2> DEFINE u == [w[s] EXCEPT !.pc = "progress", !.staging = a]
  <2>3. u \in WorkerStates
    BY <1>0 DEF WorkerStates, WorkerPCs
  <2>4. /\ u.pc = "progress" /\ u.requested = w[s].requested /\ u.rerun = w[s].rerun
        /\ u.from = w[s].from /\ u.asked = w[s].asked
    BY <1>0 DEF WorkerStates
  <2>5. w[s].pc = "fetch" /\ UNCHANGED <<registered, change>> /\ file' # "absent"
    BY <1>0, <1>6, <2>2, ChooseFileDoes DEF InitializeSnapshot
  <2> HIDE DEF u
  <2>6. w' = [w EXCEPT ![s] = u]
    BY <2>2 DEF u
  <2>. QED
    BY <2>3, <2>4, <2>5, <2>6, Registered, OwnStep DEF NeedsFile, FollowUpKept, Leaving
<1>7. CASE FirstProgress(s)
  <2>1. w[s].pc = "progress" /\ UNCHANGED <<registered, change, file>>
    BY <1>7 DEF FirstProgress, diskVars
  <2>. QED
    BY <1>0, <1>7, <2>1, FirstProgressSets, Registered, OwnStep DEF NeedsFile, FollowUpKept, Leaving
<1>8. CASE FirstPages(s) \/ Commit(s) \/ PutState(s)
  <2>1. \E u \in WorkerStates :
          /\ w' = [w EXCEPT ![s] = u]
          /\ u.pc \in {"rest", "put", "finish"}
          /\ u.requested = w[s].requested /\ u.rerun = w[s].rerun
          /\ u.from = w[s].from /\ u.asked = w[s].asked
    <3>1. CASE FirstPages(s)
      <4> DEFINE u == [w[s] EXCEPT !.pc = "rest", !.sampled = TRUE]
      <4>1. u \in WorkerStates
        BY <1>0 DEF WorkerStates, WorkerPCs
      <4>2. /\ u.pc = "rest" /\ u.requested = w[s].requested /\ u.rerun = w[s].rerun
            /\ u.from = w[s].from /\ u.asked = w[s].asked
        BY <1>0 DEF WorkerStates
      <4>3. w' = [w EXCEPT ![s] = u]
        BY <1>0, <3>1 DEF FirstPages
      <4> HIDE DEF u
      <4>. QED
        BY <4>1, <4>2, <4>3
    <3>2. CASE Commit(s)
      <4> DEFINE u == [w[s] EXCEPT !.pc = "put", !.readable = TRUE, !.complete = TRUE,
                                !.refresh = FALSE]
      <4>1. u \in WorkerStates
        BY <1>0 DEF WorkerStates, WorkerPCs
      <4>2. /\ u.pc = "put" /\ u.requested = w[s].requested /\ u.rerun = w[s].rerun
            /\ u.from = w[s].from /\ u.asked = w[s].asked
        BY <1>0 DEF WorkerStates
      <4>3. w' = [w EXCEPT ![s] = u]
        BY <1>0, <3>2 DEF Commit
      <4> HIDE DEF u
      <4>. QED
        BY <4>1, <4>2, <4>3
    <3>3. CASE PutState(s)
      <4> DEFINE u == [w[s] EXCEPT !.pc = "finish", !.runOk = TRUE]
      <4>1. u \in WorkerStates
        BY <1>0 DEF WorkerStates, WorkerPCs
      <4>2. /\ u.pc = "finish" /\ u.requested = w[s].requested /\ u.rerun = w[s].rerun
            /\ u.from = w[s].from /\ u.asked = w[s].asked
        BY <1>0 DEF WorkerStates
      <4>3. w' = [w EXCEPT ![s] = u]
        BY <1>0, <3>3 DEF PutState
      <4> HIDE DEF u
      <4>. QED
        BY <4>1, <4>2, <4>3
    <3>. QED
      BY <1>8, <3>1, <3>2, <3>3
  <2>2. /\ w[s].pc \in {"pages", "rest", "put"} /\ UNCHANGED <<registered, change>>
        /\ file' \in {file, "sampled", "complete"}
    BY <1>8 DEF FirstPages, Commit, PutState, diskVars
  <2>3. file' # "absent"
    BY <2>2, Registered DEF NeedsFile
  <2>. QED
    BY <2>1, <2>2, <2>3, Registered, OwnStep DEF FollowUpKept, Leaving
<1>9. CASE FailRun(s)
  <2>1. \E u \in WorkerStates :
          /\ w' = [w EXCEPT ![s] = u]
          /\ u.pc = "finish" /\ u.runOk = FALSE /\ u.readable = w[s].readable
          /\ u.requested = w[s].requested /\ u.rerun = w[s].rerun
          /\ u.from = w[s].from /\ u.asked = w[s].asked
    <3> DEFINE u == [w[s] EXCEPT !.pc = "finish", !.runOk = FALSE]
    <3>1. u \in WorkerStates
      BY <1>0 DEF WorkerStates, WorkerPCs
    <3>2. /\ u.pc = "finish" /\ u.runOk = FALSE /\ u.readable = w[s].readable
          /\ u.requested = w[s].requested /\ u.rerun = w[s].rerun
          /\ u.from = w[s].from /\ u.asked = w[s].asked
      BY <1>0 DEF WorkerStates
    <3>3. w' = [w EXCEPT ![s] = u]
      BY <1>0, <1>9 DEF FailRun
    <3> HIDE DEF u
    <3>. QED
      BY <3>1, <3>2, <3>3
  <2>2. /\ w[s].pc \in {"fetch", "pages", "rest"} /\ UNCHANGED <<registered, change>>
        /\ file' \in {file, "partial"}
    BY <1>9 DEF FailRun
  <2>. QED
    BY <2>1, <2>2, Registered, OwnStep DEF NeedsFile, FollowUpKept, Leaving
<1>10. CASE FinishRun(s)
  <2>1. w[s].pc = "finish" /\ UNCHANGED <<registered, change, file>>
    BY <1>10 DEF FinishRun, diskVars
  <2>. QED
    BY <1>0, <1>10, <2>1, FinishRunSets, Registered, OwnStep DEF NeedsFile, FollowUpKept, Leaving
<1>. QED
  BY <1>1, <1>2, <1>3, <1>4, <1>5, <1>6, <1>7, <1>8, <1>9, <1>10 DEF WorkerStep, RunStep

-----------------------------------------------------------------------------
(* The start of the server and its end *)

LEMMA BootStepInv ==
  ASSUME TypeInv, WorkerInv, BootStep
  PROVE  WorkerInv'
<1>0. change \in Nat
  BY ChangesAssumption DEF TypeInv, TypeOK
<1>1. CASE SweepFiles
  <2>1. registered = NoWorker /\ UNCHANGED <<registered, w, change>>
    BY <1>1 DEF SweepFiles, TypeInv, BootInv
  <2>. QED
    BY <2>1, SlotsAssumption DEF WorkerInv, OneWorker, FileInv, FollowUpInv, AskedInv
<1>2. ASSUME NEW s \in Slots, RestoreWorker(s) PROVE WorkerInv'
  <2>1. /\ registered = NoWorker /\ registered' = s
        /\ \E state \in NewWorkers : w' = [w EXCEPT ![s] = state]
        /\ UNCHANGED <<file, change>>
    BY <1>2 DEF RestoreWorker, TypeInv, BootInv, diskVars
  <2>2. change' \in Nat /\ change <= change'
    BY <1>0, <2>1
  <2>3. UNCHANGED file
    BY <2>1
  <2>. QED
    BY <1>2, <2>1, <2>2, <2>3, NewWorkerInv
<1>3. CASE RestoreState
  <2> DEFINE s == registered
  <2>1. PICK u \in WorkerStates :
           /\ s \in Slots /\ w' = [w EXCEPT ![s] = u]
           /\ u.pc = w[s].pc /\ (u.readable => file # "absent" \/ w[s].readable)
           /\ u.from = w[s].from /\ u.asked = w[s].asked
           /\ u.requested = w[s].requested /\ u.rerun = w[s].rerun
           /\ u.staging = w[s].staging /\ u.runOk = w[s].runOk
    BY <1>3, RestoreStateSets
  <2>2. UNCHANGED <<registered, change, file>>
    BY <1>3 DEF RestoreState, diskVars
  <2>3. w[s].pc \notin {"none", "dead"}
    BY <2>1 DEF WorkerInv, OneWorker
  <2>4. NeedsFile(u) => file # "absent"
    BY <2>1, <2>3, Registered DEF NeedsFile
  <2>5. FollowUpKept(u)
    BY <2>1, <2>3, Registered DEF FollowUpKept
  <2>. QED
    BY <2>1, <2>2, <2>3, <2>4, <2>5, OwnStep
<1>4. CASE NothingToRestore
  BY <1>4 DEF NothingToRestore, diskVars, WorkerInv, OneWorker, FileInv, FollowUpInv, AskedInv
<1>. QED
  BY <1>1, <1>2, <1>3, <1>4 DEF BootStep

LEMMA CrashInv ==
  ASSUME TypeInv, Crash
  PROVE  WorkerInv'
<1>1. /\ \A s \in Slots : w'[s].pc = "none" /\ w'[s].asked = 0
      /\ registered' = NoWorker /\ change' \in Nat
  BY ChangesAssumption DEF Crash, NoState, TypeInv, TypeOK
<1>. QED
  BY <1>1, SlotsAssumption DEF WorkerInv, OneWorker, FileInv, FollowUpInv, AskedInv

LEMMA NextInv == TypeInv /\ WorkerInv /\ [Next]_vars => WorkerInv'
<1>1. WorkerInv /\ UNCHANGED vars => WorkerInv'
  BY DEF vars, diskVars, WorkerInv, OneWorker, FileInv, FollowUpInv, AskedInv
<1>. QED
  BY <1>1, ActivateInv, CallInv, WorkerStepInv, ClockInv, BootStepInv, CrashInv DEF Next

(* TypeInv and WorkerInv hold in every reachable state. *)
THEOREM InvCorrect == Spec => [](TypeInv /\ WorkerInv)
BY InitType, NextType, InitInv, NextInv, PTL DEF Spec

(* One goroutine per base, which is the registered worker's, whatever      *)
(* calls come and go and however often the server restarts                 *)
(* (getOrCreateWorker, cleanupExpired, removeWorker).                      *)
THEOREM OneWorkerPerBase == Spec => []OneWorker
<1>1. WorkerInv => OneWorker
  BY DEF WorkerInv
<1>. QED
  BY InvCorrect, <1>1, PTL

(* A worker that calls itself readable has a file to read. *)
THEOREM ReadableFile == Spec => []ReadableHasFile
<1>1. WorkerInv => ReadableHasFile
  BY DEF WorkerInv, FileInv, NeedsFile, ReadableHasFile
<1>. QED
  BY InvCorrect, <1>1, PTL

(* No sync asked for after a mutation is forgotten. *)
THEOREM FollowUps == Spec => []FollowUpNotLost
<1>1. WorkerInv => FollowUpNotLost
  BY DEF WorkerInv, FollowUpInv, FollowUpKept, FollowUpNotLost
<1>. QED
  BY InvCorrect, <1>1, PTL

-----------------------------------------------------------------------------
(* What happens to a complete snapshot.  trouble is empty when the sync    *)
(* that writes has seen what the file was and nobody else writes.          *)

(* A run, or a mutation's own sync, does not write into a complete file,   *)
(* and it will include what the file includes.                             *)
SafeRun(v, f, n) ==
  v.pc \in Writing => n <= v.from /\ (v.pc # "fetch" /\ ~v.staging => f # "complete")
SafeFill(x, f, n) ==
  x.pc = "fill" => n <= x.from /\ (~x.staging => f # "complete")

(* Nobody includes a mutation that has not been made, and one SyncBase     *)
(* runs at a time (lockSync).                                              *)
SourceInv ==
  /\ fileChange <= change
  /\ \A s \in Slots : w[s].pc \in Writing => w[s].from <= change
  /\ \A c \in Calls : call[c].pc = "fill" => call[c].from <= change
  /\ \A c, d \in Calls : call[c].pc = "fill" /\ call[d].pc = "fill" => c = d

CalmInv ==
  trouble = {} =>
    /\ ~(RunWrites /\ Filling)
    /\ \A s \in Slots : SafeRun(w[s], file, fileChange)
    /\ \A c \in Calls : SafeFill(call[c], file, fileChange)

SnapshotInv == SourceInv /\ CalmInv

Kept == file = "complete" /\ trouble = {} /\ trouble' = {} =>
          \/ file' = "absent"
          \/ file' = "complete" /\ fileChange' >= fileChange

LEMMA InitSnapshot == Init => SnapshotInv
<1> SUFFICES ASSUME Init PROVE SnapshotInv
  OBVIOUS
<1>1. /\ fileChange = 0 /\ change = 0 /\ \A c \in Calls : call[c].pc = "idle"
      /\ \A s \in Slots : w[s].pc = "none"
  BY DEF Init, NoCall, NoState
<1>. QED
  BY <1>1 DEF SnapshotInv, SourceInv, CalmInv, RunWrites, Filling, SafeRun, SafeFill, Writing

LEMMA Numbers ==
  ASSUME TypeInv
  PROVE  /\ change \in Nat /\ fileChange \in Nat
         /\ \A s \in Slots : w[s] \in WorkerStates /\ w[s].from \in Nat
         /\ \A c \in Calls : call[c] \in CallStates /\ call[c].from \in Nat
BY ChangesAssumption DEF TypeInv, TypeOK, WorkerStates, CallStates

LEMMA FileKept == ASSUME TypeInv, UNCHANGED <<file, fileChange>> PROVE Kept
BY Numbers DEF Kept

(* A step after which nobody writes who did not write before. *)
LEMMA Quiet ==
  ASSUME TypeInv, SnapshotInv, UNCHANGED diskVars, change' \in Nat, change <= change',
         \A t \in Slots : w'[t].pc \in Writing =>
            /\ w[t].pc \in Writing /\ (w'[t].pc # "fetch" => w[t].pc # "fetch")
            /\ w'[t].from = w[t].from /\ w'[t].staging = w[t].staging,
         \A d \in Calls : call'[d].pc = "fill" => call'[d] = call[d]
  PROVE  Kept /\ SnapshotInv'
<1>1. SourceInv'
  BY Numbers DEF SnapshotInv, SourceInv, diskVars
<1>2. CalmInv'
  <2>1. (RunWrites' => RunWrites) /\ (Filling' => Filling)
    BY DEF RunWrites, Filling
  <2>2. ASSUME trouble = {}, NEW t \in Slots PROVE SafeRun(w'[t], file, fileChange)
    BY <2>2 DEF SnapshotInv, CalmInv, SafeRun
  <2>3. ASSUME trouble = {}, NEW d \in Calls PROVE SafeFill(call'[d], file, fileChange)
    BY <2>3 DEF SnapshotInv, CalmInv, SafeFill
  <2>. QED
    BY <2>1, <2>2, <2>3 DEF SnapshotInv, CalmInv, diskVars
<1>. QED
  BY <1>1, <1>2, FileKept DEF SnapshotInv, diskVars

LEMMA ActivateSnapshot ==
  ASSUME TypeInv, WorkerInv, SnapshotInv, NEW c \in Calls, NEW k \in Kinds, NEW s \in Slots,
         Activate(c, k, s)
  PROVE  Kept /\ SnapshotInv'
<1>1. UNCHANGED diskVars /\ change' \in Nat /\ change <= change'
  BY Numbers DEF Activate
<1>2. \A d \in Calls : call'[d].pc = "fill" => call'[d] = call[d]
  <2>1. [NoCall EXCEPT !.pc = "touch", !.kind = k, !.worker = s].pc = "touch"
    BY DEF NoCall
  <2>. QED
    BY <2>1 DEF Activate, TypeInv, TypeOK
<1>3. \A t \in Slots : w'[t].pc \in Writing => w'[t] = w[t]
  BY NewWorkerType DEF Activate, TypeInv, TypeOK, Writing
<1>. QED
  BY <1>1, <1>2, <1>3, Quiet

(* The steps of a call outside its own sync.                               *)
LEMMA QuietCall ==
  ASSUME TypeInv, WorkerInv, SnapshotInv, NEW c \in Calls,
         \/ Touch(c) \/ Check(c) \/ Request(c) \/ RequestFollowUp(c)
         \/ WaitEnds(c) \/ WaitFails(c) \/ OpenFile(c) \/ Cancel(c)
  PROVE  Kept /\ SnapshotInv'
<1>1. /\ \A t \in Slots : CallChanges(w[t], w'[t], change)
      /\ UNCHANGED <<diskVars, change>>
  <2>1. UNCHANGED <<diskVars, change>>
    BY DEF Touch, Check, Request, RequestFollowUp, WaitEnds, WaitFails, OpenFile, Cancel
  <2>. QED
    BY <2>1, CallDoes DEF CallStep
<1>2. \A d \in Calls : d # c => call'[d] = call[d]
  BY DEF TypeInv, TypeOK, Cancel, Touch, Check, Request, RequestFollowUp, WaitEnds,
         WaitFails, OpenFile, Return
<1>3. \/ call' = [call EXCEPT ![c] = NoCall]
      \/ \E label \in {"check", "request", "wait", "open", "lock"} :
           call' = [call EXCEPT ![c] = [call[c] EXCEPT !.pc = label]]
      \/ \E b \in BOOLEAN :
           call' = [call EXCEPT ![c] = [call[c] EXCEPT !.pc = "request", !.hadFile = b]]
  <2>1. CASE Check(c)
    <3>1. (call[c].kind = "ready" /\ file # "absent") \in BOOLEAN
      OBVIOUS
    <3>2. \/ call' = [call EXCEPT ![c].pc = "open"]
          \/ call' = [call EXCEPT ![c].pc = "request",
                                  ![c].hadFile = call[c].kind = "ready" /\ file # "absent"]
      BY <2>1, Zenon DEF Check
    <3>. QED
      BY <3>1, <3>2
  <2>2. CASE Touch(c)
    BY <2>2 DEF Touch
  <2>3. CASE Request(c) \/ RequestFollowUp(c) \/ WaitEnds(c) \/ WaitFails(c) \/ Cancel(c)
    BY <2>3 DEF Request, RequestFollowUp, WaitEnds, WaitFails, Cancel, Return
  <2>4. CASE OpenFile(c)
    BY <2>4 DEF OpenFile, Return
  <2>. QED
    BY <2>1, <2>2, <2>3, <2>4
<1>4. call'[c].pc # "fill"
  <2>1. call[c] \in CallStates /\ call \in [Calls -> CallStates] /\ NoCall.pc = "idle"
    BY DEF TypeInv, TypeOK, NoCall
  <2>2. /\ \A label : [call[c] EXCEPT !.pc = label].pc = label
        /\ \A b : [call[c] EXCEPT !.pc = "request", !.hadFile = b].pc = "request"
    BY <2>1 DEF CallStates
  <2>. QED
    BY <1>3, <2>1, <2>2
<1>5. change' \in Nat /\ change <= change'
  BY <1>1, Numbers
<1>6. \A t \in Slots : w'[t].pc \in Writing =>
        w'[t].pc = w[t].pc /\ w'[t].from = w[t].from /\ w'[t].staging = w[t].staging
  BY <1>1 DEF CallChanges, Writing
<1>. QED
  BY <1>1, <1>2, <1>4, <1>5, <1>6, Quiet

(* The sync of a mutation. *)
LEMMA SyncBaseSnapshot ==
  ASSUME TypeInv, WorkerInv, SnapshotInv, NEW c \in Calls,
         SyncBaseStarts(c) \/ SyncBaseEnds(c) \/ SyncBaseFails(c)
  PROVE  Kept /\ SnapshotInv'
<1>0. /\ call[c] \in CallStates /\ call \in [Calls -> CallStates]
      /\ change \in Nat /\ fileChange \in Nat /\ call[c].from \in Nat
      /\ \A t \in Slots : w[t].from \in Nat
      /\ \A d \in Calls : call[d].from \in Nat
  BY Numbers DEF TypeInv, TypeOK
<1>1. CASE SyncBaseStarts(c)
  <2>1. PICK staging \in BOOLEAN :
          /\ ChooseFile(staging, {t \in {"overlap"} : RunWrites})
          /\ call' = [call EXCEPT ![c].pc = "fill", ![c].staging = staging, ![c].from = change]
    BY <1>1 DEF SyncBaseStarts
  <2>2. /\ \A d \in Calls : call[d].pc # "fill"
        /\ UNCHANGED <<w, change>>
    BY <1>1 DEF SyncBaseStarts
  <2>3. /\ \A d \in Calls : d # c => call'[d] = call[d]
        /\ call'[c].pc = "fill" /\ call'[c].staging = staging /\ call'[c].from = change
    BY <1>0, <2>1 DEF CallStates
  <2>4. /\ fileChange' \in {0, fileChange}
        /\ ~staging => file' = "partial"
        /\ staging => UNCHANGED <<file, fileChange>>
    BY <2>1 DEF ChooseFile
  <2>5. trouble' = {} => /\ trouble = {} /\ ~RunWrites
                         /\ ~staging => file # "complete"
    BY <2>1 DEF ChooseFile
  <2>6. SourceInv'
    BY <1>0, <2>2, <2>3, <2>4 DEF SnapshotInv, SourceInv
  <2>7. CalmInv'
    <3>1. SUFFICES ASSUME trouble' = {} PROVE /\ ~RunWrites'
                                              /\ \A s \in Slots : SafeRun(w'[s], file', fileChange')
                                              /\ \A d \in Calls : SafeFill(call'[d], file', fileChange')
      BY DEF CalmInv
    <3>2. ~RunWrites' /\ \A s \in Slots : w'[s].pc \notin Writing
      BY <2>2, <2>5, <3>1 DEF RunWrites
    <3>3. fileChange' <= change
      BY <1>0, <2>4 DEF SnapshotInv, SourceInv
    <3>4. \A d \in Calls : SafeFill(call'[d], file', fileChange')
      BY <2>2, <2>3, <2>4, <3>3 DEF SafeFill
    <3>. QED
      BY <3>2, <3>4 DEF SafeRun
  <2>8. Kept
    BY <1>0, <2>4, <2>5 DEF Kept
  <2>. QED
    BY <2>6, <2>7, <2>8 DEF SnapshotInv
<1>2. ASSUME SyncBaseEnds(c) \/ SyncBaseFails(c)
      PROVE  /\ \A d \in Calls : d # c => call'[d] = call[d]
             /\ call'[c].pc = "idle" /\ UNCHANGED change
             /\ \A t \in Slots : w'[t].pc \in Writing =>
                  w'[t].pc = w[t].pc /\ w'[t].from = w[t].from /\ w'[t].staging = w[t].staging
  <2>1. /\ \A t \in Slots : CallChanges(w[t], w'[t], change)
        /\ UNCHANGED change
    BY <1>2, CallDoes DEF CallStep
  <2>2. call' = [call EXCEPT ![c] = NoCall]
    BY <1>2 DEF SyncBaseEnds, SyncBaseFails, Return
  <2>. QED
    BY <1>0, <2>1, <2>2 DEF CallChanges, Writing, NoCall
<1>3. CASE SyncBaseEnds(c)
  <2>1. /\ call[c].pc = "fill" /\ file' = "complete" /\ fileChange' = call[c].from
        /\ trouble' = IF RunWrites THEN trouble ELSE {}
    BY <1>3 DEF SyncBaseEnds, WritingEnds
  <2>2. SourceInv'
    BY <1>0, <1>2, <1>3, <2>1 DEF SnapshotInv, SourceInv
  <2>3. \A d \in Calls : call'[d].pc # "fill"
    BY <1>2, <1>3, <2>1 DEF SnapshotInv, SourceInv
  <2>4. trouble' = {} => \A t \in Slots : w'[t].pc \notin Writing
    <3>1. Filling
      BY <2>1 DEF Filling
    <3>2. trouble' = {} => ~RunWrites
      BY <2>1, <3>1 DEF SnapshotInv, CalmInv
    <3>. QED
      BY <1>2, <1>3, <3>2 DEF RunWrites
  <2>5. CalmInv'
    BY <2>3, <2>4 DEF CalmInv, RunWrites, Filling, SafeRun, SafeFill
  <2>6. Kept
    BY <1>0, <2>1 DEF Kept, SnapshotInv, CalmInv, SafeFill
  <2>. QED
    BY <2>2, <2>5, <2>6 DEF SnapshotInv
<1>4. CASE SyncBaseFails(c)
  <2> DEFINE Others == \E d \in Calls \ {c} : call[d].pc = "fill"
  <2>1. /\ UNCHANGED fileChange
        /\ file' = file \/ (file = "absent" /\ file' = "partial")
        /\ trouble' = IF RunWrites \/ Others THEN trouble ELSE {}
    BY <1>4 DEF SyncBaseFails, WritingEnds
  <2>2. SourceInv'
    BY <1>0, <1>2, <1>4, <2>1 DEF SnapshotInv, SourceInv
  <2>3. (RunWrites' => RunWrites) /\ (Filling' => Others) /\ (Others => Filling)
    BY <1>2, <1>4 DEF RunWrites, Filling
  <2>4. CalmInv'
    <3>1. CASE RunWrites \/ Others
      <4>1. SUFFICES ASSUME trouble = {} PROVE /\ ~(RunWrites' /\ Filling')
                                               /\ \A s \in Slots : SafeRun(w'[s], file', fileChange')
                                               /\ \A d \in Calls : SafeFill(call'[d], file', fileChange')
        BY <2>1, <3>1 DEF CalmInv
      <4>2. ~(RunWrites' /\ Filling')
        BY <2>3, <4>1 DEF SnapshotInv, CalmInv
      <4>3. \A s \in Slots : SafeRun(w'[s], file', fileChange')
        BY <1>2, <1>4, <2>1, <4>1 DEF SnapshotInv, CalmInv, SafeRun
      <4>4. \A d \in Calls : SafeFill(call'[d], file', fileChange')
        BY <1>2, <1>4, <2>1, <4>1 DEF SnapshotInv, CalmInv, SafeFill
      <4>. QED
        BY <4>2, <4>3, <4>4
    <3>2. CASE ~RunWrites /\ ~Others
      BY <2>3, <3>2 DEF CalmInv, RunWrites, Filling, SafeRun, SafeFill
    <3>. QED
      BY <3>1, <3>2
  <2>5. Kept
    BY <1>0, <2>1 DEF Kept
  <2>. QED
    BY <2>2, <2>4, <2>5 DEF SnapshotInv
<1>. QED
  BY <1>1, <1>3, <1>4

(* A step of the registered worker s that leaves u of its object. *)
LEMMA OwnSnapshot ==
  ASSUME TypeInv, WorkerInv, SnapshotInv, NEW s \in Slots, NEW u \in WorkerStates,
         w[s].pc \notin {"none", "dead"}, w' = [w EXCEPT ![s] = u], UNCHANGED <<call, change>>,
         fileChange' <= change, u.pc \in Writing => u.from <= change,
         trouble' = {} => /\ u.pc \in Writing => ~Filling
                          /\ SafeRun(u, file', fileChange')
                          /\ \A c \in Calls : SafeFill(call[c], file', fileChange')
  PROVE  SnapshotInv'
<1>1. \A t \in Slots : w'[t] = IF t = s THEN u ELSE w[t]
  BY DEF TypeInv, TypeOK
<1>2. \A t \in Slots : t # s => w[t].pc \notin Writing
  BY DEF WorkerInv, OneWorker, Writing
<1>3. SourceInv'
  BY <1>1, <1>2 DEF SnapshotInv, SourceInv
<1>4. Filling' <=> Filling
  BY DEF Filling
<1>5. RunWrites' => u.pc \in Writing
  BY <1>1, <1>2 DEF RunWrites
<1>6. trouble' = {} => \A t \in Slots : SafeRun(w'[t], file', fileChange')
  BY <1>1, <1>2 DEF SafeRun
<1>7. CalmInv'
  BY <1>4, <1>5, <1>6 DEF CalmInv
<1>. QED
  BY <1>3, <1>7 DEF SnapshotInv

(* The steps of a worker that leave the disk alone. *)
LEMMA QuietWorker ==
  ASSUME TypeInv, WorkerInv, SnapshotInv, NEW s \in Slots,
         \/ NextAction(s) \/ Wake(s) \/ RemoveWorker(s) \/ FirstProgress(s) \/ PutState(s)
         \/ FinishRun(s) \/ TTLElapses(s) \/ IntervalElapses(s) \/ BackoffElapses(s)
  PROVE  Kept /\ SnapshotInv'
<1>0. w[s] \in WorkerStates /\ w \in [Slots -> WorkerStates] /\ TypeOK
  BY DEF TypeInv, TypeOK
<1>1. UNCHANGED <<call, change, diskVars>>
  BY DEF NextAction, Wake, RemoveWorker, FirstProgress, PutState, FinishRun,
         TTLElapses, IntervalElapses, BackoffElapses
<1>2. \E u \in WorkerStates :
        /\ w' = [w EXCEPT ![s] = u]
        /\ u.pc \in Writing =>
             /\ w[s].pc \in Writing /\ (u.pc # "fetch" => w[s].pc # "fetch")
             /\ u.from = w[s].from /\ u.staging = w[s].staging
  <2>1. CASE NextAction(s)
    BY <1>0, <2>1 DEF NextAction, WorkerStates, WorkerPCs, Writing
  <2>2. CASE Wake(s)
    BY <1>0, <2>2 DEF Wake, WorkerStates, WorkerPCs, Writing
  <2>3. CASE RemoveWorker(s)
    BY <1>0, <2>3, RemoveWorkerSets DEF Writing
  <2>4. CASE FirstProgress(s)
    <3>1. w[s].pc = "progress"
      BY <2>4 DEF FirstProgress
    <3>. QED
      BY <1>0, <2>4, <3>1, FirstProgressSets DEF Writing
  <2>5. CASE PutState(s)
    <3> DEFINE u == [w[s] EXCEPT !.pc = "finish", !.runOk = TRUE]
    <3>1. u \in WorkerStates /\ u.pc = "finish"
      BY <1>0 DEF WorkerStates, WorkerPCs
    <3>2. w' = [w EXCEPT ![s] = u]
      BY <2>5 DEF PutState, TypeInv, TypeOK
    <3> HIDE DEF u
    <3>. QED
      BY <3>1, <3>2 DEF Writing
  <2>6. CASE FinishRun(s)
    BY <1>0, <2>6, FinishRunSets DEF Writing
  <2>7. CASE TTLElapses(s)
    <3> DEFINE u == [w[s] EXCEPT !.active = FALSE]
    <3>1. u \in WorkerStates /\ u.pc = w[s].pc /\ u.from = w[s].from /\ u.staging = w[s].staging
      BY <1>0 DEF WorkerStates
    <3>2. w' = [w EXCEPT ![s] = u]
      BY <2>7 DEF TTLElapses
    <3> HIDE DEF u
    <3>. QED
      BY <3>1, <3>2
  <2>8. CASE IntervalElapses(s)
    <3> DEFINE u == [w[s] EXCEPT !.due = TRUE]
    <3>1. u \in WorkerStates /\ u.pc = w[s].pc /\ u.from = w[s].from /\ u.staging = w[s].staging
      BY <1>0 DEF WorkerStates
    <3>2. w' = [w EXCEPT ![s] = u]
      BY <2>8 DEF IntervalElapses
    <3> HIDE DEF u
    <3>. QED
      BY <3>1, <3>2
  <2>9. CASE BackoffElapses(s)
    <3> DEFINE u == [w[s] EXCEPT !.backingOff = FALSE]
    <3>1. u \in WorkerStates /\ u.pc = w[s].pc /\ u.from = w[s].from /\ u.staging = w[s].staging
      BY <1>0 DEF WorkerStates
    <3>2. w' = [w EXCEPT ![s] = u]
      BY <2>9 DEF BackoffElapses
    <3> HIDE DEF u
    <3>. QED
      BY <3>1, <3>2
  <2>. QED
    BY <2>1, <2>2, <2>3, <2>4, <2>5, <2>6, <2>7, <2>8, <2>9
<1>3. change' \in Nat /\ change <= change'
  BY <1>1, Numbers
<1>. QED
  BY <1>0, <1>1, <1>2, <1>3, Quiet

(* The steps of a worker that change the file or begin or end a run. *)
LEMMA RunSnapshot ==
  ASSUME TypeInv, WorkerInv, SnapshotInv, NEW s \in Slots,
         \/ RemoveFile(s) \/ StartRun(s) \/ InitializeSnapshot(s) \/ FirstPages(s)
         \/ Commit(s) \/ FailRun(s)
  PROVE  Kept /\ SnapshotInv'
<1>0. /\ w[s] \in WorkerStates /\ w \in [Slots -> WorkerStates] /\ TypeOK
      /\ change \in Nat /\ fileChange \in Nat /\ w[s].from \in Nat /\ fileChange <= change
      /\ \A c \in Calls : call[c].from \in Nat
  BY Numbers DEF TypeInv, TypeOK, SnapshotInv, SourceInv
<1>s. /\ w[s].pc \in Writing => RunWrites /\ w[s].from <= change
      /\ trouble = {} => /\ w[s].pc \in Writing => ~Filling
                         /\ SafeRun(w[s], file, fileChange)
                         /\ \A c \in Calls : SafeFill(call[c], file, fileChange)
  BY DEF SnapshotInv, SourceInv, CalmInv, RunWrites
<1>f. ~Filling => \A c \in Calls : \A f, n : SafeFill(call[c], f, n)
  BY DEF Filling, SafeFill
<1>1. CASE RemoveFile(s)
  <2> DEFINE u == [w[s] EXCEPT !.pc = "remove"]
  <2>1. u \in WorkerStates /\ u.pc = "remove"
    BY <1>0 DEF WorkerStates, WorkerPCs
  <2>2. w' = [w EXCEPT ![s] = u]
    BY <1>1 DEF RemoveFile
  <2> HIDE DEF u
  <2>3. /\ w[s].pc = "cleanup" /\ UNCHANGED <<call, trouble, change>>
        /\ file' = "absent" /\ fileChange' = 0
    BY <1>1 DEF RemoveFile
  <2>4. (\A c \in Calls : SafeFill(call[c], file', fileChange')) /\ fileChange' <= change
    BY <1>0, <2>3 DEF SafeFill
  <2>5. SafeRun(u, file', fileChange') /\ u.pc \notin Writing
    BY <2>1 DEF SafeRun, Writing
  <2>6. SnapshotInv'
    BY <1>0, <2>1, <2>2, <2>3, <2>4, <2>5, OwnSnapshot
  <2>. QED
    BY <2>3, <2>6 DEF Kept
<1>2. CASE StartRun(s)
  <2>1. PICK u \in WorkerStates : w' = [w EXCEPT ![s] = u] /\ u.pc = "fetch" /\ u.from = change
    BY <1>0, <1>2, StartRunSets
  <2>2. /\ w[s].pc = "start" /\ UNCHANGED <<call, change, file, fileChange>>
        /\ trouble' = {} => trouble = {} /\ ~Filling
    BY <1>2 DEF StartRun
  <2>3. SafeRun(u, file', fileChange')
    BY <1>0, <2>1, <2>2 DEF SafeRun
  <2>4. trouble' = {} => \A c \in Calls : SafeFill(call[c], file', fileChange')
    BY <1>f, <2>2
  <2>5. u.from <= change /\ fileChange' <= change
    BY <1>0, <2>1, <2>2
  <2>6. SnapshotInv'
    BY <2>1, <2>2, <2>3, <2>4, <2>5, OwnSnapshot
  <2>. QED
    BY <2>2, <2>6, FileKept
<1>3. CASE InitializeSnapshot(s)
  <2>1. PICK a \in BOOLEAN : /\ ChooseFile(a, {})
                             /\ w' = [w EXCEPT ![s] = [w[s] EXCEPT !.pc = "progress", !.staging = a]]
    BY <1>3 DEF InitializeSnapshot
  <2> DEFINE u == [w[s] EXCEPT !.pc = "progress", !.staging = a]
  <2>2. w' = [w EXCEPT ![s] = u]
    BY <2>1
  <2>3. u \in WorkerStates /\ u.pc = "progress" /\ u.staging = a /\ u.from = w[s].from
    BY <1>0 DEF WorkerStates, WorkerPCs
  <2> HIDE DEF u
  <2>4. w[s].pc = "fetch" /\ UNCHANGED <<call, change>>
    BY <1>3 DEF InitializeSnapshot
  <2>5. /\ fileChange' \in {0, fileChange}
        /\ ~a => file' = "partial"
        /\ a => UNCHANGED <<file, fileChange>>
        /\ trouble' = {} => trouble = {} /\ (~a => file # "complete")
    BY <2>1 DEF ChooseFile
  <2>6. w[s].pc \in Writing
    BY <2>4 DEF Writing
  <2>7. trouble' = {} => /\ ~Filling /\ SafeRun(u, file', fileChange')
                         /\ \A c \in Calls : SafeFill(call[c], file', fileChange')
    <3>1. trouble' = {} => ~Filling /\ SafeRun(w[s], file, fileChange)
      BY <1>s, <2>5, <2>6
    <3>2. trouble' = {} => SafeRun(u, file', fileChange')
      BY <1>0, <2>3, <2>5, <2>6, <3>1 DEF SafeRun
    <3>. QED
      BY <1>f, <3>1, <3>2
  <2>8. u.from <= change /\ fileChange' <= change
    BY <1>0, <1>s, <2>3, <2>5, <2>6
  <2>9. SnapshotInv'
    BY <2>2, <2>3, <2>4, <2>7, <2>8, OwnSnapshot
  <2>10. Kept
    BY <1>0, <2>5 DEF Kept
  <2>. QED
    BY <2>9, <2>10
<1>4. CASE FirstPages(s)
  <2> DEFINE u == [w[s] EXCEPT !.pc = "rest", !.sampled = TRUE]
  <2>1. u \in WorkerStates /\ u.pc = "rest" /\ u.from = w[s].from /\ u.staging = w[s].staging
    BY <1>0 DEF WorkerStates, WorkerPCs
  <2>2. w' = [w EXCEPT ![s] = u]
    BY <1>4 DEF FirstPages, TypeInv, TypeOK
  <2> HIDE DEF u
  <2>3. /\ w[s].pc = "pages" /\ UNCHANGED <<call, change, fileChange, trouble>>
        /\ file' = IF w[s].staging THEN file ELSE "sampled"
    BY <1>4 DEF FirstPages
  <2>4. w[s].pc \in Writing
    BY <2>3 DEF Writing
  <2>5. trouble = {} => ~Filling /\ SafeRun(w[s], file, fileChange)
    BY <1>s, <2>4
  <2>6. trouble' = {} => /\ SafeRun(u, file', fileChange')
                         /\ \A c \in Calls : SafeFill(call[c], file', fileChange')
    BY <1>f, <2>1, <2>3, <2>4, <2>5 DEF SafeRun
  <2>7. u.from <= change /\ fileChange' <= change
    BY <1>0, <1>s, <2>1, <2>3, <2>4
  <2>8. SnapshotInv'
    BY <2>1, <2>2, <2>3, <2>5, <2>6, <2>7, OwnSnapshot
  <2>9. Kept
    BY <1>0, <2>3, <2>4, <2>5 DEF Kept, SafeRun
  <2>. QED
    BY <2>8, <2>9
<1>5. CASE Commit(s)
  <2> DEFINE u == [w[s] EXCEPT !.pc = "put", !.readable = TRUE, !.complete = TRUE, !.refresh = FALSE]
  <2>1. u \in WorkerStates /\ u.pc = "put"
    BY <1>0 DEF WorkerStates, WorkerPCs
  <2>2. w' = [w EXCEPT ![s] = u]
    BY <1>5 DEF Commit, TypeInv, TypeOK
  <2> HIDE DEF u
  <2>3. /\ w[s].pc = "rest" /\ UNCHANGED <<call, change>>
        /\ file' = "complete" /\ fileChange' = w[s].from
        /\ trouble' = IF Filling THEN trouble ELSE {}
    BY <1>5 DEF Commit, WritingEnds
  <2>4. w[s].pc \in Writing
    BY <2>3 DEF Writing
  <2>5. trouble' = {} => ~Filling
    BY <1>s, <2>3, <2>4
  <2>6. SafeRun(u, file', fileChange') /\ u.pc \notin Writing
    BY <2>1 DEF SafeRun, Writing
  <2>7. SnapshotInv'
    BY <1>f, <1>s, <2>1, <2>2, <2>3, <2>4, <2>5, <2>6, OwnSnapshot
  <2>8. Kept
    BY <1>0, <1>s, <2>3, <2>4 DEF Kept, SafeRun
  <2>. QED
    BY <2>7, <2>8
<1>6. CASE FailRun(s)
  <2> DEFINE u == [w[s] EXCEPT !.pc = "finish", !.runOk = FALSE]
  <2>1. u \in WorkerStates /\ u.pc = "finish"
    BY <1>0 DEF WorkerStates, WorkerPCs
  <2>2. w' = [w EXCEPT ![s] = u]
    BY <1>6 DEF FailRun, TypeInv, TypeOK
  <2> HIDE DEF u
  <2>3. /\ w[s].pc \in {"fetch", "pages", "rest"} /\ UNCHANGED <<call, change, fileChange>>
        /\ UNCHANGED file \/ file = "absent"
        /\ trouble' = IF Filling THEN trouble ELSE {}
    BY <1>6 DEF FailRun, WritingEnds
  <2>4. w[s].pc \in Writing
    BY <2>3 DEF Writing
  <2>5. trouble' = {} => ~Filling
    BY <1>s, <2>3, <2>4
  <2>6. SafeRun(u, file', fileChange') /\ u.pc \notin Writing
    BY <2>1 DEF SafeRun, Writing
  <2>7. SnapshotInv'
    BY <1>0, <1>f, <2>1, <2>2, <2>3, <2>5, <2>6, OwnSnapshot
  <2>. QED
    BY <1>0, <2>3, <2>7 DEF Kept
<1>. QED
  BY <1>1, <1>2, <1>3, <1>4, <1>5, <1>6

LEMMA BootSnapshot ==
  ASSUME TypeInv, WorkerInv, SnapshotInv, BootStep \/ Crash
  PROVE  Kept /\ SnapshotInv'
<1>0. /\ change \in Nat /\ fileChange \in Nat /\ change <= change
      /\ \A d \in Calls : call[d].from \in Nat
  BY Numbers
<1>1. CASE SweepFiles
  <2>1. /\ registered = NoWorker /\ UNCHANGED <<call, w, trouble, change>>
        /\ (file' = "absent" /\ fileChange' = 0) \/ UNCHANGED <<file, fileChange>>
    BY <1>1 DEF SweepFiles, TypeInv, BootInv
  <2>2. \A t \in Slots : w[t].pc \notin Writing
    BY <2>1, SlotsAssumption DEF WorkerInv, OneWorker, Writing
  <2>3. SourceInv'
    BY <1>0, <2>1 DEF SnapshotInv, SourceInv
  <2>4. trouble = {} => \A d \in Calls : SafeFill(call[d], file', fileChange')
    BY <1>0, <2>1 DEF SnapshotInv, CalmInv, SafeFill
  <2>5. CalmInv'
    BY <2>1, <2>2, <2>4 DEF CalmInv, SafeRun, RunWrites
  <2>. QED
    BY <1>0, <2>1, <2>3, <2>5 DEF SnapshotInv, Kept
<1>2. ASSUME NEW s \in Slots, RestoreWorker(s) PROVE Kept /\ SnapshotInv'
  <2>1. PICK state \in NewWorkers : w' = [w EXCEPT ![s] = state]
    BY <1>2 DEF RestoreWorker
  <2>2. UNCHANGED <<call, diskVars, change>>
    BY <1>2 DEF RestoreWorker
  <2>3. \A t \in Slots : w'[t].pc \in Writing => w'[t] = w[t]
    BY <2>1, NewWorkerType DEF TypeInv, TypeOK, Writing
  <2>. QED
    BY <1>0, <2>2, <2>3, Quiet
<1>3. CASE RestoreState
  <2>1. UNCHANGED <<call, diskVars, change>>
    BY <1>3 DEF RestoreState
  <2>2. \E u \in WorkerStates :
           /\ registered \in Slots /\ w' = [w EXCEPT ![registered] = u]
           /\ u.pc = w[registered].pc
           /\ u.from = w[registered].from /\ u.staging = w[registered].staging
    BY <1>3, RestoreStateSets
  <2>3. \A t \in Slots :
          w'[t].pc = w[t].pc /\ w'[t].from = w[t].from /\ w'[t].staging = w[t].staging
    BY <2>2 DEF TypeInv, TypeOK
  <2>. QED
    BY <1>0, <2>1, <2>3, Quiet
<1>4. CASE NothingToRestore
  BY <1>0, <1>4, Quiet DEF NothingToRestore
<1>5. CASE Crash
  <2>1. /\ UNCHANGED change /\ \A c \in Calls : call'[c].pc = "idle"
        /\ \A t \in Slots : w'[t].pc = "none"
        /\ (file' = "absent" /\ fileChange' = 0) \/ UNCHANGED <<file, fileChange>>
    BY <1>5 DEF Crash, NoCall, NoState
  <2>. QED
    BY <1>0, <2>1
    DEF SnapshotInv, SourceInv, CalmInv, RunWrites, Filling, SafeRun, SafeFill, Writing, Kept
<1>. QED
  BY <1>1, <1>2, <1>3, <1>4, <1>5 DEF BootStep

LEMMA NextSnapshot ==
  TypeInv /\ WorkerInv /\ SnapshotInv /\ [Next]_vars => SnapshotInv' /\ [Kept]_vars
<1>1. TypeInv /\ SnapshotInv /\ UNCHANGED vars => SnapshotInv'
  BY DEF vars, SnapshotInv, SourceInv, CalmInv, RunWrites, Filling
<1>2. ASSUME TypeInv, WorkerInv, SnapshotInv, NEW c \in Calls, CallStep(c) \/ Cancel(c)
      PROVE  SnapshotInv' /\ Kept
  BY <1>2, QuietCall, SyncBaseSnapshot DEF CallStep
<1>3. ASSUME TypeInv, WorkerInv, SnapshotInv, NEW s \in Slots, WorkerOrClock(s)
      PROVE  SnapshotInv' /\ Kept
  BY <1>3, QuietWorker, RunSnapshot DEF WorkerOrClock, WorkerStep, RunStep
<1>. QED
  BY <1>1, <1>2, <1>3, ActivateSnapshot, BootSnapshot DEF Next, WorkerOrClock

(* A complete snapshot is replaced by another complete one that is not     *)
(* older, or removed, whatever calls run and however often the server      *)
(* restarts; except while a sync writes that could not read the sync_info  *)
(* of the file, or a mutation's SyncBase and the worker's run write        *)
(* together (shouldUseStaging, runSync).                                   *)
THEOREM SnapshotsKept == Spec => SnapshotKept
<1>1. Spec => [](TypeInv /\ WorkerInv)
  BY InvCorrect
<1>. QED
  BY <1>1, InitSnapshot, NextSnapshot, PTL DEF Spec, SnapshotKept, Kept
=============================================================================
