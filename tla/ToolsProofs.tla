----------------------------- MODULE ToolsProofs -----------------------------
(***************************************************************************)
(* Theorems about Tools, for every base, every list of statements and      *)
(* operations, and any number of sync runs.                                *)
(***************************************************************************)
EXTENDS Tools, NamesProofs

-----------------------------------------------------------------------------
(* Operators *)

LEMMA Antisymmetry == \A m, n \in Nat : m <= n /\ n <= m => m = n
OBVIOUS

(* A run lists finitely many records. *)
LEMMA RecordsFinite == IsFiniteSet(Records)
<1> DEFINE Of(t) == {t} \X (1..Pages[t])
<1> DEFINE All == {Of(t) : t \in Tables}
<1>1. \A t \in Tables : IsFiniteSet(Of(t))
  <2>1. SUFFICES ASSUME NEW t \in Tables PROVE IsFiniteSet(Of(t))
    OBVIOUS
  <2>2. Pages[t] \in Nat
    BY PagesAssumption
  <2>3. IsFiniteSet(1..Pages[t])
    BY <2>2, FS_Interval
  <2>. QED
    BY <2>3, FS_Singleton, FS_Product
<1>2. IsFiniteSet(Tables)
  <2>1. Len(TableNames) \in Int /\ Tables = 1..Len(TableNames)
    BY TablesAssumption, ListedNames DEF Tables
  <2>2. IsFiniteSet(1..Len(TableNames))
    BY <2>1, FS_Interval
  <2>. QED
    BY <2>1, <2>2
<1>3. [t \in Tables |-> Of(t)] \in Surjection(Tables, All)
  BY DEF Surjection
<1>4. IsFiniteSet(All)
  <2> HIDE DEF All
  <2>. QED
    BY <1>2, <1>3, FS_Surjection
<1>5. \A S \in All : IsFiniteSet(S)
  BY <1>1
<1>6. Records = UNION All
  BY DEF Records
<1> HIDE DEF All
<1>. QED
  BY <1>4, <1>5, <1>6, FS_UNION

(* The rows that a statement finds can be counted. *)
LEMMA RowsCounted ==
  ASSUME file.rows \in SUBSET Records
  PROVE  \A statement : Query(statement) \in Nat
<1> SUFFICES ASSUME NEW statement PROVE Query(statement) \in Nat
  OBVIOUS
<1> DEFINE found == {r \in file.rows : r[1] = statement.table}
<1>1. found \in SUBSET Records
  OBVIOUS
<1>2. Query(statement) = Cardinality(found)
  BY DEF Query
<1> HIDE DEF found
<1>3. IsFiniteSet(found)
  BY <1>1, RecordsFinite, FS_Subset
<1>. QED
  BY <1>2, <1>3, FS_CardinalityType

(* What a statement answers about n rows, whether it had a limit of its    *)
(* own, lost the appended one in a comment or was given it.                *)
LEMMA LimitResultTrue ==
  ASSUME NEW n \in Nat, NEW statement
  PROVE  LET of == LimitResult(statement, Executed(statement, n))
         IN  /\ of \in [shown : Nat, truncated : BOOLEAN]
             /\ of.truncated <=> of.shown < n
BY LimitAssumption DEF LimitResult, Executed, AtMost, ExecutionLimit

(* A name means one table at most, whatever the order of the schema. *)
LEMMA MeansOneTable ==
  ASSUME NEW name, NEW s \in Resolve(TableItems(TableNames), name),
         NEW t \in Resolve(TableItems(TableNames), name)
  PROVE  s = t /\ t \in Tables
BY TablesAssumption, MeansAtMostOne DEF Tables

-----------------------------------------------------------------------------
(* Type correctness *)

RunType ==
  /\ airtable \subseteq Records
  /\ file \in Files /\ InBounds(file)
  /\ run \in [ pc : {"idle", "fetch", "report", "pages", "last"}, number : 0..MaxRuns,
               staging : BOOLEAN, target : Files ]
  /\ InBounds(run.target)
  /\ status \in [readable : BOOLEAN, complete : BOOLEAN, sampled : BOOLEAN]

(* An answer comes last, a read has something left to read for, and rows   *)
(* are not read before the status.                                         *)
CallInv ==
  /\ call.pc # "done" => call.answer = "none"
  /\ call.pc \in {"wait", "schema", "status"} => call.seen = <<>>
  /\ call.tool \in {"query", "mutate"} /\ call.pc # "done" => call.todo # <<>>

TypeInv == RunType /\ call \in Calls /\ CallInv

LEMMA ListsFit ==
  ASSUME NEW list \in Batches \cup Requests \cup SchemaRequests
  PROVE  list \in Seq(Elements) /\ list # <<>>
<1>1. ToSet(list) \subseteq Elements
  BY DEF Elements
<1>2. list \in Seq(ToSet(list)) /\ list # <<>>
  BY ListsAssumption
<1> HIDE DEF Elements
<1>. QED
  BY <1>1, <1>2

(* What is left after the first of a list. *)
LEMMA TailLeft ==
  ASSUME NEW S, NEW s \in Seq(S), s # <<>>
  PROVE  Tail(s) \in Seq(S) /\ (Len(s) # 1 => Tail(s) # <<>>)
<1> DEFINE n == Len(s)
<1> DEFINE m == Len(Tail(s))
<1>1. Tail(s) \in Seq(S) /\ m = n - 1
  BY HeadTailProperties
<1>2. n \in Nat
  BY LenProperties
<1>3. Tail(s) = <<>> => m = 0
  BY EmptySeq
<1>4. n # 1 => Tail(s) # <<>>
  <2> HIDE DEF n, m
  <2>. QED
    BY <1>1, <1>2, <1>3
<1>. QED
  BY <1>1, <1>4

(* What is added to a list is its last, and the others stay. *)
LEMMA Appended ==
  ASSUME NEW s \in Seq(Files), NEW e \in Files
  PROVE  /\ Last(Append(s, e)) = e
         /\ \A k \in DOMAIN Append(s, e) : Append(s, e)[k] = e \/ (k \in DOMAIN s /\ Append(s, e)[k] = s[k])
<1> DEFINE n == Len(s)
<1> DEFINE longer == Append(s, e)
<1>1. /\ n \in Nat /\ DOMAIN s = 1..n /\ longer \in Seq(Files) /\ Len(longer) = n + 1
      /\ longer[n + 1] = e /\ \A k \in 1..n : longer[k] = s[k]
  BY AppendProperties, LenProperties
<1>2. DOMAIN longer = 1..n + 1
  BY <1>1, LenProperties
<1>3. Last(longer) = longer[Len(longer)]
  BY DEF Last
<1> HIDE DEF n, longer
<1>4. ASSUME NEW k \in DOMAIN longer PROVE k = n + 1 \/ k \in 1..n
  BY <1>1, <1>2
<1>. QED
  BY <1>1, <1>3, <1>4 DEF longer

(* A file that a run fills stays one. *)
LEMMA PageFits ==
  ASSUME NEW f \in Files, InBounds(f), NEW t \in Tables, f.pages[t] + 1 <= Pages[t],
         airtable \subseteq Records
  PROVE  LET g == [f EXCEPT !.pages[t] = f.pages[t] + 1,
                            !.rows = @ \cup (airtable \cap {<<t, f.pages[t] + 1>>})]
         IN  g \in Files /\ InBounds(g)
<1> DEFINE next == f.pages[t] + 1
<1> DEFINE row == <<t, next>>
<1> DEFINE pages == [f.pages EXCEPT ![t] = next]
<1> DEFINE rows == f.rows \cup (airtable \cap {row})
<1>1. f.pages \in [Tables -> Nat] /\ f.rows \subseteq Records
  BY DEF Files
<1>2. pages \in [Tables -> Nat] /\ \A u \in Tables : pages[u] <= Pages[u]
  BY <1>1 DEF InBounds
<1>3. rows \in SUBSET Records
  BY <1>1
<1> DEFINE g == [f EXCEPT !.pages = pages, !.rows = rows]
<1>4. [f EXCEPT !.pages[t] = next, !.rows = @ \cup (airtable \cap {row})] = g
  BY DEF Files
<1> HIDE DEF pages, rows, row
<1>5. g \in Files /\ g.pages = pages
  BY <1>2, <1>3 DEF Files
<1>6. InBounds(g)
  BY <1>2, <1>5 DEF InBounds
<1> USE DEF row
<1>. QED
  BY <1>4, <1>5, <1>6

LEMMA NewFileFits ==
  ASSUME NEW n \in 0..MaxRuns
  PROVE  NewFile(n) \in Files /\ InBounds(NewFile(n))
BY PagesAssumption DEF NewFile, Files, InBounds

LEMMA InitType == Init => TypeInv
<1> SUFFICES ASSUME Init PROVE TypeInv
  OBVIOUS
<1>1. NoFile \in Files /\ InBounds(NoFile)
  <2>1. 0 \in 0..MaxRuns
    BY LimitAssumption
  <2>. QED
    BY <2>1, NewFileFits DEF NoFile
<1>2. RunType
  BY <1>1, LimitAssumption DEF Init, RunType
<1>3. call \in Calls
  BY <1>1 DEF Init, Calls, NoCall, Answers
<1>4. CallInv
  BY DEF Init, CallInv, NoCall
<1>. QED
  BY <1>2, <1>3, <1>4 DEF TypeInv

(* A step of a run. *)
LEMMA RunStepType ==
  ASSUME TypeInv, RunStep
  PROVE  TypeInv'
<1>0. RunType /\ MaxRuns \in Nat
  BY LimitAssumption DEF TypeInv
<1>1. NewFile(run.number) \in Files /\ InBounds(NewFile(run.number))
  BY <1>0, NewFileFits DEF RunType
<1>2. NoFile \in Files /\ InBounds(NoFile)
  BY <1>0, NewFileFits DEF NoFile
<1>3. Target \in Files /\ InBounds(Target)
  BY <1>0 DEF Target, RunType
<1>4. CASE StartRun
  <2> DEFINE n == run.number + 1
  <2>1. n \in 0..MaxRuns
    BY <1>0, <1>4 DEF StartRun, RunType
  <2>2. run' = [run EXCEPT !.pc = "fetch", !.number = n]
    BY <1>0, <1>4 DEF StartRun, RunType
  <2> HIDE DEF n
  <2>. QED
    BY <1>0, <1>4, <2>1, <2>2 DEF StartRun, RunType, TypeInv, CallInv
<1>5. CASE InitializeSnapshot
  <2>1. file.complete \in BOOLEAN
    BY <1>0 DEF RunType, Files
  <2>2. CASE file.complete = TRUE
    <3>1. /\ run' = [run EXCEPT !.pc = "report", !.staging = TRUE, !.target = NewFile(run.number)]
          /\ UNCHANGED <<airtable, file, status, call>>
      BY <1>5, <2>2 DEF InitializeSnapshot
    <3>. QED
      BY <1>0, <1>1, <3>1 DEF RunType, TypeInv, CallInv
  <2>3. CASE file.complete = FALSE
    <3>1. /\ run' = [run EXCEPT !.pc = "report", !.staging = FALSE, !.target = NoFile]
          /\ file' = NewFile(run.number) /\ UNCHANGED <<airtable, status, call>>
      BY <1>5, <2>3 DEF InitializeSnapshot
    <3>. QED
      BY <1>0, <1>1, <1>2, <3>1 DEF RunType, TypeInv, CallInv
  <2>. QED
    BY <2>1, <2>2, <2>3
<1>6. CASE HandleProgress
  BY <1>0, <1>6 DEF HandleProgress, RunType, TypeInv, CallInv
<1>7. ASSUME NEW t \in Tables, ApplyTablePage(t) PROVE TypeInv'
  <2> DEFINE g == [Target EXCEPT !.pages[t] = Target.pages[t] + 1,
                                 !.rows = @ \cup (airtable \cap {<<t, Target.pages[t] + 1>>})]
  <2>1. g \in Files /\ InBounds(g)
    BY <1>0, <1>3, <1>7, PageFits DEF ApplyTablePage, RunType
  <2>2. Write(g) /\ UNCHANGED <<airtable, status, call>>
    BY <1>7 DEF ApplyTablePage
  <2> HIDE DEF g
  <2>. QED
    BY <1>0, <2>1, <2>2 DEF Write, RunType, TypeInv, CallInv
<1>8. CASE Finalize
  <2>1. [Target EXCEPT !.complete = TRUE] \in Files /\ InBounds([Target EXCEPT !.complete = TRUE])
    BY <1>3 DEF Files, InBounds
  <2>. QED
    BY <1>0, <1>2, <1>8, <2>1 DEF Finalize, RunType, TypeInv, CallInv
<1>9. CASE FinishRun
  BY <1>0, <1>9 DEF FinishRun, RunType, TypeInv, CallInv
<1>10. CASE FailRun
  BY <1>0, <1>2, <1>10 DEF FailRun, RunType, TypeInv, CallInv
<1>. QED
  BY <1>4, <1>5, <1>6, <1>7, <1>8, <1>9, <1>10 DEF RunStep

(* The answers of the preparations are answers. *)
LEMMA FieldAnswersFit == \A names : FieldAnswers(names) \subseteq Answers
BY DEF FieldAnswers, Answers

LEMMA OperationAnswersFit == \A op, t : OperationAnswers(op, t) \subseteq Answers
BY FieldAnswersFit DEF OperationAnswers, Answers

LEMMA SchemaAnswersFit == \A op : SchemaAnswer(op) \in Answers
BY DEF SchemaAnswer, Answers

(* What an operation of a mutate may come to, and what was searched by then. *)
Meant(op) == Resolve(TableItems(TableNames), op.table)

Possible(op) == IF Meant(op) = {} THEN {"unknown table"}
                ELSE UNION {OperationAnswers(op, t) : t \in Meant(op)}

Searched(op) == IF Meant(op) = {} \/ op.page = 0 THEN call.seen ELSE Append(call.seen, file)

(* An operation of a mutate lets the next one begin or ends the call. *)
LEMMA PreparedOrDone ==
  ASSUME call \in Calls, PrepareOperation
  PROVE  LET op == Head(call.todo) IN
         \E answer \in Possible(op) :
           \/ /\ Len(call.todo) > 1
              /\ call' = [call EXCEPT !.pc = "read", !.todo = Tail(call.todo), !.answer = "none",
                                      !.seen = Searched(op)]
           \/ call' = [call EXCEPT !.pc = "done", !.todo = call.todo, !.answer = answer,
                                   !.seen = Searched(op)]
<1> DEFINE op == Head(call.todo)
<1> DEFINE Prepared(answer) ==
      LET more == answer = "prepared" /\ Len(call.todo) > 1 IN
      call' = [call EXCEPT
                 !.pc = IF more THEN "read" ELSE "done",
                 !.todo = IF more THEN Tail(@) ELSE @,
                 !.answer = IF more THEN "none" ELSE answer,
                 !.seen = IF Meant(op) = {} \/ op.page = 0 THEN @ ELSE Append(@, file)]
<1>1. \E answer \in Possible(op) : Prepared(answer)
  BY DEF PrepareOperation, Possible, Meant
<1>2. PICK answer \in Possible(op) : Prepared(answer)
  <2> HIDE DEF Prepared, op
  <2>. QED
    BY <1>1
<1>3. CASE answer = "prepared" /\ Len(call.todo) > 1
  <2>1. call' = [call EXCEPT !.pc = "read", !.todo = Tail(call.todo), !.answer = "none",
                             !.seen = Searched(op)]
    BY <1>2, <1>3 DEF Searched, Calls
  <2>. QED
    BY <1>2, <1>3, <2>1
<1>4. CASE ~(answer = "prepared" /\ Len(call.todo) > 1)
  <2>1. call' = [call EXCEPT !.pc = "done", !.todo = call.todo, !.answer = answer, !.seen = Searched(op)]
    BY <1>2, <1>4 DEF Searched, Calls
  <2>. QED
    BY <1>2, <2>1
<1>. QED
  BY <1>3, <1>4

LEMMA PossibleFit == \A op : Possible(op) \subseteq Answers
<1> SUFFICES ASSUME NEW op PROVE Possible(op) \subseteq Answers
  OBVIOUS
<1>1. \A t : OperationAnswers(op, t) \subseteq Answers
  BY OperationAnswersFit
<1>2. "unknown table" \in Answers
  BY DEF Answers
<1>. QED
  BY <1>1, <1>2 DEF Possible

(* A step of a call. *)
LEMMA CallStepType ==
  ASSUME TypeInv, CallStep
  PROVE  TypeInv'
<1>0. RunType /\ call \in Calls /\ CallInv /\ NoFile \in Files /\ file \in Files
  <2>1. 0 \in 0..MaxRuns
    BY LimitAssumption
  <2>. QED
    BY <2>1, NewFileFits DEF TypeInv, RunType, NoFile
<1>1. RunType'
  <2>1. UNCHANGED <<airtable, file, run, status>>
    BY DEF CallStep, Begin, Ready, Status, Fail, Return, ListResolvedSchema, QueryResolvedBase,
           ListSchema, PrepareOperation, PrepareSchemaMutation
  <2>. QED
    BY <1>0, <2>1 DEF RunType
<1>2. NoCall \in Calls
  <2>1. <<>> \in Seq(Elements) /\ <<>> \in Seq(Files)
    OBVIOUS
  <2>. QED
    BY <1>0, <2>1 DEF NoCall, Calls, Answers
<1>3. ASSUME NEW tool \in {"query", "mutate", "manage_schema"},
             NEW list \in Batches \cup Requests \cup SchemaRequests, Begin(tool, list)
      PROVE  TypeInv'
  <2>1. list \in Seq(Elements) /\ list # <<>>
    BY ListsFit
  <2>2. call' \in Calls
    BY <1>2, <1>3, <2>1 DEF Begin, Calls
  <2>3. CallInv'
    BY <1>2, <1>3, <2>1 DEF Begin, CallInv, NoCall, Calls
  <2>. QED
    BY <1>1, <2>2, <2>3 DEF TypeInv
<1>4. CASE Begin("list_schema", <<>>)
  <2>1. call' \in Calls
    <3>1. <<>> \in Seq(Elements)
      OBVIOUS
    <3>. QED
      BY <1>2, <1>4, <3>1 DEF Begin, Calls
  <2>2. CallInv'
    BY <1>2, <1>4 DEF Begin, CallInv, NoCall, Calls
  <2>. QED
    BY <1>1, <2>1, <2>2 DEF TypeInv
<1>5. CASE Ready
  BY <1>0, <1>1, <1>5 DEF Ready, TypeInv, Calls, CallInv
<1>6. CASE Status
  BY <1>0, <1>1, <1>6 DEF Status, TypeInv, Calls, CallInv, RunType
<1>7. CASE Fail
  <2>1. call' \in Calls
    BY <1>0, <1>2, <1>7 DEF Fail, Calls, Answers
  <2>2. call'.pc = "done"
    BY <1>2, <1>7 DEF Fail, Calls
  <2>. QED
    BY <1>1, <2>1, <2>2 DEF TypeInv, CallInv
<1>8. CASE Return
  BY <1>1, <1>2, <1>8 DEF Return, TypeInv, CallInv, NoCall
<1>9. CASE ListResolvedSchema
  <2>1. <<file>> \in Seq(Files)
    BY <1>0
  <2>. QED
    BY <1>0, <1>1, <1>9, <2>1 DEF ListResolvedSchema, TypeInv, Calls, CallInv
<1>10. CASE QueryResolvedBase
  <2> DEFINE n == Query(Head(call.todo))
  <2> DEFINE r == [rows |-> n, of |-> LimitResult(Head(call.todo), Executed(Head(call.todo), n))]
  <2> DEFINE label == IF Len(call.todo) = 1 THEN "done" ELSE "read"
  <2>1. n \in Nat
    BY <1>0, RowsCounted DEF RunType, Files
  <2>2. r \in Results
    <3> HIDE DEF n
    <3>. QED
      BY <2>1, LimitResultTrue DEF Results
  <2>3. /\ call.tool = "query" /\ call.pc = "read"
        /\ call' = [call EXCEPT !.todo = Tail(call.todo), !.pc = label,
                                !.seen = Append(call.seen, file), !.results = call.results \cup {r}]
    BY <1>0, <1>10 DEF QueryResolvedBase, Calls
  <2>4. label \in {"done", "read"}
    OBVIOUS
  <2> HIDE DEF r
  <2>5. call.todo \in Seq(Elements) /\ call.todo # <<>>
    BY <1>0, <2>3 DEF CallInv, Calls
  <2>6. Tail(call.todo) \in Seq(Elements) /\ (label # "done" => Tail(call.todo) # <<>>)
    BY <2>5, TailLeft
  <2>7. call' \in Calls
    <3>1. Append(call.seen, file) \in Seq(Files) /\ call.results \cup {r} \in SUBSET Results
      BY <1>0, <2>2 DEF Calls
    <3> DEFINE seen == Append(call.seen, file)
    <3> DEFINE results == call.results \cup {r}
    <3> HIDE DEF label, seen, results
    <3>. QED
      BY <1>0, <2>3, <2>4, <2>6, <3>1 DEF Calls, seen, results
  <2>8. CallInv'
    <3> HIDE DEF label
    <3>. QED
      BY <1>0, <2>3, <2>4, <2>6 DEF Calls, CallInv
  <2>. QED
    BY <1>1, <2>7, <2>8 DEF TypeInv
<1>11. CASE ListSchema
  BY <1>0, <1>1, <1>11 DEF ListSchema, TypeInv, Calls, CallInv
<1>12. CASE PrepareOperation
  <2> DEFINE op == Head(call.todo)
  <2> DEFINE seen == Searched(op)
  <2> HIDE DEF seen
  <2>1. PICK answer \in Answers :
          \/ /\ Len(call.todo) > 1
             /\ call' = [call EXCEPT !.pc = "read", !.todo = Tail(call.todo), !.answer = "none", !.seen = seen]
          \/ call' = [call EXCEPT !.pc = "done", !.todo = call.todo, !.answer = answer, !.seen = seen]
    BY <1>0, <1>12, PreparedOrDone, PossibleFit DEF seen
  <2>2. seen \in Seq(Files) /\ call.todo \in Seq(Elements) /\ call.todo # <<>>
    <3>1. call.seen \in Seq(Files) /\ call.todo \in Seq(Elements)
      BY <1>0 DEF Calls
    <3>2. Append(call.seen, file) \in Seq(Files)
      BY <1>0, <3>1
    <3>3. call.tool = "mutate" /\ call.pc = "read"
      BY <1>12 DEF PrepareOperation
    <3>. QED
      BY <1>0, <3>1, <3>2, <3>3 DEF CallInv, Searched, seen
  <2>3. CASE Len(call.todo) > 1 /\ call' = [call EXCEPT !.pc = "read", !.todo = Tail(call.todo),
                                                        !.answer = "none", !.seen = seen]
    <3>1. Tail(call.todo) \in Seq(Elements) /\ Tail(call.todo) # <<>>
      <4>1. Len(call.todo) \in Nat
        BY <2>2, LenProperties
      <4>2. \A n \in Nat : n > 1 => n # 1
        OBVIOUS
      <4>. QED
        BY <2>2, <2>3, <4>1, <4>2, TailLeft
    <3>2. call' \in Calls
      BY <1>0, <2>2, <2>3, <3>1 DEF Calls, Answers
    <3>3. CallInv'
      BY <1>0, <2>3, <3>1 DEF Calls, CallInv
    <3>. QED
      BY <1>1, <3>2, <3>3 DEF TypeInv
  <2>4. CASE call' = [call EXCEPT !.pc = "done", !.todo = call.todo, !.answer = answer, !.seen = seen]
    <3>1. call' \in Calls
      BY <1>0, <2>1, <2>2, <2>4 DEF Calls
    <3>2. CallInv'
      BY <1>0, <2>4 DEF Calls, CallInv
    <3>. QED
      BY <1>1, <3>1, <3>2 DEF TypeInv
  <2>. QED
    BY <2>1, <2>3, <2>4
<1>13. CASE PrepareSchemaMutation
  <2>1. PICK answer \in Answers :
          call' = [call EXCEPT !.pc = "done", !.schema = file, !.answer = answer]
    BY <1>13, SchemaAnswersFit DEF PrepareSchemaMutation, Answers
  <2>. QED
    BY <1>0, <1>1, <2>1 DEF TypeInv, Calls, CallInv
<1>. QED
  BY <1>3, <1>4, <1>5, <1>6, <1>7, <1>8, <1>9, <1>10, <1>11, <1>12, <1>13 DEF CallStep

LEMMA NextType == TypeInv /\ [Next]_vars => TypeInv'
<1> SUFFICES ASSUME TypeInv, [Next]_vars PROVE TypeInv'
  OBVIOUS
<1>1. CASE DeleteRecord
  BY <1>1 DEF DeleteRecord, TypeInv, RunType, CallInv
<1>2. CASE UNCHANGED vars
  BY <1>2 DEF vars, TypeInv, RunType, CallInv
<1>. QED
  BY <1>1, <1>2, RunStepType, CallStepType DEF Next

(* The type invariant, for every base and every list of calls. *)
THEOREM TypeCorrect == Spec => []TypeOK
<1>1. TypeInv => TypeOK
  BY DEF TypeInv, RunType, TypeOK
<1>. QED
  BY <1>1, InitType, NextType, PTL DEF Spec

-----------------------------------------------------------------------------
(* Snapshots *)

(* The file belongs to an earlier run until the run under way has emptied  *)
(* it or put its own in its place; a staging file is there only while the  *)
(* one in use is complete, and a complete file has all pages.              *)
SnapshotInv ==
  /\ file.run <= run.number /\ (run.pc = "fetch" => file.run < run.number)
  /\ run.staging =>
       /\ run.pc \in {"report", "pages"} /\ file.complete
       /\ run.target.run = run.number /\ file.run < run.number
  /\ run.pc = "last" => file.complete
  /\ file.complete => file.pages = Pages

(* Nobody has been told more than the file holds, and once it is complete, *)
(* what is read of it is.                                                  *)
ToldInv ==
  /\ status.complete => file.complete
  /\ call.told => file.complete
  /\ PartialIsTold

(* The file only grows, but for another run's taking its place. *)
SchemaInv ==
  /\ call.schema.run <= file.run
  /\ call.schema.run = file.run => \A t \in Tables : call.schema.pages[t] <= file.pages[t]

SnapshotsInv == SnapshotInv /\ ToldInv /\ SchemaInv

(* What a step of a run does to the file in use. *)
Grows ==
  /\ file.complete => file'.complete
  /\ file.run <= file'.run
  /\ file'.run = file.run => \A t \in Tables : file.pages[t] <= file'.pages[t]

LEMMA InitSnapshots == Init => SnapshotsInv
BY DEF Init, SnapshotsInv, SnapshotInv, ToldInv, SchemaInv, PartialIsTold, NoCall, NoFile, NewFile

(* A page adds to the file of a run, which stays what it is otherwise. *)
LEMMA PageAdds ==
  ASSUME NEW f \in Files, NEW t \in Tables, NEW rows
  PROVE  LET g == [f EXCEPT !.pages[t] = f.pages[t] + 1, !.rows = rows]
         IN  /\ g.run = f.run /\ g.complete = f.complete
             /\ \A u \in Tables : f.pages[u] <= g.pages[u]
             /\ g.pages[t] = f.pages[t] + 1
<1> DEFINE pages == [f.pages EXCEPT ![t] = f.pages[t] + 1]
<1>1. f.pages \in [Tables -> Nat]
  BY DEF Files
<1>2. pages[t] = f.pages[t] + 1 /\ \A u \in Tables : f.pages[u] <= pages[u]
  BY <1>1
<1>3. [f EXCEPT !.pages[t] = f.pages[t] + 1, !.rows = rows] = [f EXCEPT !.pages = pages, !.rows = rows]
  BY DEF Files
<1> HIDE DEF pages
<1>. QED
  BY <1>2, <1>3 DEF Files

LEMMA RunStepSnapshots ==
  ASSUME TypeInv, SnapshotInv, status.complete => file.complete, RunStep
  PROVE  SnapshotInv' /\ Grows /\ (status'.complete => file'.complete)
<1>0. /\ run.number \in Nat /\ file.run \in Nat /\ file \in Files /\ InBounds(file)
      /\ run.target \in Files /\ file.pages \in [Tables -> Nat]
      /\ file.complete \in BOOLEAN /\ run.staging \in BOOLEAN
      /\ RunType
  BY LimitAssumption DEF TypeInv, RunType, Files
<1>1. CASE StartRun
  BY <1>0, <1>1 DEF StartRun, SnapshotInv, Grows, RunType
<1>2. CASE InitializeSnapshot
  <2>1. CASE file.complete = TRUE
    <3>1. /\ run' = [run EXCEPT !.pc = "report", !.staging = TRUE, !.target = NewFile(run.number)]
          /\ UNCHANGED <<file, status>> /\ run.pc = "fetch"
      BY <1>2, <2>1 DEF InitializeSnapshot
    <3>. QED
      BY <1>0, <2>1, <3>1 DEF NewFile, SnapshotInv, Grows, RunType
  <2>2. CASE file.complete = FALSE
    <3>1. /\ run' = [run EXCEPT !.pc = "report", !.staging = FALSE, !.target = NoFile]
          /\ file' = NewFile(run.number) /\ UNCHANGED status /\ run.pc = "fetch"
      BY <1>2, <2>2 DEF InitializeSnapshot
    <3>2. file.run < run.number /\ file'.run = run.number /\ file'.complete = FALSE
      BY <3>1 DEF NewFile, SnapshotInv
    <3>. QED
      BY <1>0, <2>2, <3>1, <3>2 DEF SnapshotInv, Grows, RunType
  <2>. QED
    BY <1>0, <2>1, <2>2
<1>3. CASE HandleProgress
  BY <1>0, <1>3 DEF HandleProgress, SnapshotInv, Grows, RunType
<1>4. ASSUME NEW t \in Tables, ApplyTablePage(t)
      PROVE  SnapshotInv' /\ Grows /\ (status'.complete => file'.complete)
  <2> DEFINE rows == Target.rows \cup (airtable \cap {<<t, Target.pages[t] + 1>>})
  <2> DEFINE g == [Target EXCEPT !.pages[t] = Target.pages[t] + 1, !.rows = rows]
  <2>1. /\ run.pc = "pages" /\ Target.pages[t] + 1 <= Pages[t] /\ Write(g)
        /\ UNCHANGED status
    BY <1>4 DEF ApplyTablePage
  <2>2. Target \in Files
    BY <1>0 DEF Target
  <2> HIDE DEF rows
  <2>3. /\ g.run = Target.run /\ g.complete = Target.complete
        /\ \A u \in Tables : Target.pages[u] <= g.pages[u]
    BY <2>2, PageAdds
  <2> HIDE DEF g
  <2>4. CASE run.staging = TRUE
    <3>1. run' = [run EXCEPT !.pc = "report", !.target = g] /\ UNCHANGED file /\ Target = run.target
      BY <2>1, <2>4 DEF Write, Target
    <3>. QED
      BY <1>0, <2>1, <2>3, <2>4, <3>1 DEF SnapshotInv, Grows, RunType
  <2>5. CASE run.staging = FALSE
    <3>1. run' = [run EXCEPT !.pc = "report"] /\ file' = g /\ Target = file
      BY <2>1, <2>5 DEF Write, Target
    <3>2. ~file.complete
      BY <1>0, <2>1, <3>1, PagesAssumption DEF SnapshotInv
    <3>. QED
      BY <1>0, <2>1, <2>3, <2>5, <3>1, <3>2 DEF SnapshotInv, Grows, RunType
  <2>. QED
    BY <1>0, <2>4, <2>5
<1>5. CASE Finalize
  <2> DEFINE g == [Target EXCEPT !.complete = TRUE]
  <2>1. /\ run.pc = "pages" /\ Target.pages = Pages /\ file' = g /\ UNCHANGED status
        /\ run' = [run EXCEPT !.pc = "last", !.staging = FALSE, !.target = NoFile]
    BY <1>5 DEF Finalize
  <2>2. Target \in Files
    BY <1>0 DEF Target
  <2>3. g.run = Target.run /\ g.complete /\ g.pages = Target.pages
    BY <2>2 DEF Files
  <2> HIDE DEF g
  <2>4. /\ file.run <= g.run /\ g.run <= run.number
        /\ g.run = file.run => \A t \in Tables : file.pages[t] <= g.pages[t]
    <3>1. CASE run.staging = TRUE
      BY <1>0, <2>3, <3>1 DEF Target, SnapshotInv
    <3>2. CASE run.staging = FALSE
      BY <1>0, <2>3, <3>2 DEF Target, SnapshotInv
    <3>. QED
      BY <1>0, <3>1, <3>2
  <2>. QED
    BY <1>0, <2>1, <2>3, <2>4 DEF SnapshotInv, Grows, RunType
<1>6. CASE FinishRun
  BY <1>0, <1>6 DEF FinishRun, SnapshotInv, Grows, RunType
<1>7. CASE FailRun
  BY <1>0, <1>7 DEF FailRun, SnapshotInv, Grows, RunType
<1>. QED
  BY <1>1, <1>2, <1>3, <1>4, <1>5, <1>6, <1>7 DEF RunStep

(* A call under way, and what has been read, outlive a step of a run. *)
LEMMA GrownSnapshots ==
  ASSUME TypeInv, SnapshotsInv, Grows, file' \in Files, UNCHANGED call, status'.complete => file'.complete
  PROVE  ToldInv' /\ SchemaInv'
<1>1. ToldInv'
  BY DEF SnapshotsInv, ToldInv, Grows, PartialIsTold
<1>2. /\ call.schema.run \in Nat /\ file.run \in Nat /\ file'.run \in Nat
      /\ \A t \in Tables : call.schema.pages[t] \in Nat /\ file.pages[t] \in Nat /\ file'.pages[t] \in Nat
  BY LimitAssumption DEF TypeInv, RunType, Calls, Files
<1>3. SchemaInv'
  BY <1>2 DEF SnapshotsInv, SchemaInv, Grows
<1>. QED
  BY <1>1, <1>3

(* What a call may do: it is told what the status says and before it has   *)
(* read anything, and what it reads, it reads of the file in use.          *)
Reads ==
  /\ UNCHANGED <<airtable, file, run, status>>
  /\ \/ ~call'.told
     \/ call'.told = call.told
     \/ call'.told = status.complete /\ call.seen = <<>> /\ call'.seen = <<>>
  /\ call'.schema \in {call.schema, file, NoFile}
  /\ call'.seen \in {<<>>, call.seen, <<file>>, Append(call.seen, file)}

LEMMA CallReads ==
  ASSUME TypeInv, CallStep
  PROVE  Reads
<1>0. call \in Calls /\ CallInv
  BY DEF TypeInv
<1>1. UNCHANGED <<airtable, file, run, status>>
  BY DEF CallStep, Begin, Ready, Status, Fail, Return, ListResolvedSchema, QueryResolvedBase,
         ListSchema, PrepareOperation, PrepareSchemaMutation
<1>2. ASSUME NEW tool, NEW list, Begin(tool, list) PROVE Reads
  BY <1>1, <1>2 DEF Begin, NoCall, Reads
<1>3. CASE Ready
  BY <1>0, <1>1, <1>3 DEF Ready, Calls, Reads
<1>4. CASE Status
  BY <1>0, <1>1, <1>4 DEF Status, Calls, CallInv, Reads
<1>5. CASE Fail
  BY <1>1, <1>5 DEF Fail, NoCall, Reads
<1>6. CASE Return
  BY <1>1, <1>6 DEF Return, NoCall, Reads
<1>7. CASE ListResolvedSchema
  BY <1>0, <1>1, <1>7 DEF ListResolvedSchema, Calls, Reads
<1>8. CASE QueryResolvedBase
  <2>1. PICK todo, label, results :
          call' = [call EXCEPT !.todo = todo, !.pc = label, !.seen = Append(call.seen, file),
                               !.results = results]
    BY <1>0, <1>8 DEF QueryResolvedBase, Calls
  <2>. QED
    BY <1>0, <1>1, <2>1 DEF Calls, Reads
<1>9. CASE ListSchema
  BY <1>0, <1>1, <1>9 DEF ListSchema, Calls, Reads
<1>10. CASE PrepareOperation
  <2> DEFINE seen == Searched(Head(call.todo))
  <2>1. seen \in {call.seen, Append(call.seen, file)}
    BY DEF Searched
  <2> HIDE DEF seen
  <2>2. \E label, todo, answer :
          call' = [call EXCEPT !.pc = label, !.todo = todo, !.answer = answer, !.seen = seen]
    BY <1>0, <1>10, PreparedOrDone DEF seen
  <2>. QED
    BY <1>0, <1>1, <2>1, <2>2 DEF Calls, Reads
<1>11. CASE PrepareSchemaMutation
  BY <1>0, <1>1, <1>11 DEF PrepareSchemaMutation, Calls, Reads
<1>. QED
  BY <1>2, <1>3, <1>4, <1>5, <1>6, <1>7, <1>8, <1>9, <1>10, <1>11 DEF CallStep

LEMMA CallStepSnapshots ==
  ASSUME TypeInv, SnapshotsInv, CallStep
  PROVE  SnapshotsInv'
<1>1. Reads
  BY CallReads
<1>2. /\ call.seen \in Seq(Files) /\ file \in Files /\ file.run \in Nat
      /\ \A t \in Tables : file.pages[t] \in Nat
  BY LimitAssumption DEF TypeInv, RunType, Calls, Files
<1>3. SnapshotInv'
  BY <1>1 DEF Reads, SnapshotsInv, SnapshotInv
<1>4. PartialIsTold'
  <2>1. SUFFICES ASSUME call'.told PROVE \A k \in DOMAIN call'.seen : call'.seen[k].complete
    BY DEF PartialIsTold
  <2>2. CASE call'.seen = <<>>
    BY <2>2
  <2>3. CASE call'.seen # <<>>
    <3>1. call.told /\ file.complete /\ \A k \in DOMAIN call.seen : call.seen[k].complete
      BY <1>1, <2>1, <2>3 DEF Reads, SnapshotsInv, ToldInv, PartialIsTold
    <3>2. CASE call'.seen = call.seen
      BY <3>1, <3>2
    <3>3. CASE call'.seen = <<file>>
      BY <3>1, <3>3
    <3>4. CASE call'.seen = Append(call.seen, file)
      <4>1. \A k \in DOMAIN call'.seen : call'.seen[k] = file \/ (k \in DOMAIN call.seen /\ call'.seen[k] = call.seen[k])
        <5> DEFINE seen == call.seen
        <5>1. seen \in Seq(Files) /\ file \in Files /\ call'.seen = Append(seen, file)
          BY <1>2, <3>4
        <5> HIDE DEF seen
        <5>2. \A k \in DOMAIN Append(seen, file) :
                Append(seen, file)[k] = file \/ (k \in DOMAIN seen /\ Append(seen, file)[k] = seen[k])
          BY <5>1, Appended
        <5>. QED
          BY <5>1, <5>2 DEF seen
      <4>. QED
        BY <3>1, <4>1
    <3>. QED
      BY <1>1, <2>3, <3>2, <3>3, <3>4 DEF Reads
  <2>. QED
    BY <2>2, <2>3
<1>5. ToldInv'
  BY <1>1, <1>4 DEF Reads, SnapshotsInv, ToldInv
<1>6. SchemaInv'
  BY <1>1, <1>2 DEF Reads, SnapshotsInv, SchemaInv, NoFile, NewFile
<1>. QED
  BY <1>3, <1>5, <1>6 DEF SnapshotsInv

LEMMA NextSnapshots == TypeInv /\ SnapshotsInv /\ [Next]_vars => SnapshotsInv'
<1> SUFFICES ASSUME TypeInv, SnapshotsInv, [Next]_vars PROVE SnapshotsInv'
  OBVIOUS
<1>1. CASE RunStep
  <2>1. SnapshotInv' /\ Grows /\ (status'.complete => file'.complete)
    BY <1>1, RunStepSnapshots DEF SnapshotsInv, ToldInv
  <2>2. file' \in Files
    BY <1>1, RunStepType DEF TypeInv, RunType
  <2>3. UNCHANGED call
    BY <1>1 DEF RunStep, StartRun, InitializeSnapshot, HandleProgress, ApplyTablePage, Finalize,
                FinishRun, FailRun
  <2>. QED
    BY <2>1, <2>2, <2>3, GrownSnapshots DEF SnapshotsInv
<1>2. CASE CallStep
  BY <1>2, CallStepSnapshots
<1>3. CASE DeleteRecord \/ UNCHANGED vars
  BY <1>3 DEF DeleteRecord, vars, SnapshotsInv, SnapshotInv, ToldInv, SchemaInv, PartialIsTold
<1>. QED
  BY <1>1, <1>2, <1>3 DEF Next

(* The inductive invariant of runs and calls: who is told that the snapshot *)
(* is complete, and what a mutation knows of the file from its schema.      *)
THEOREM SnapshotsCorrect == Spec => [](TypeInv /\ SnapshotsInv)
BY InitType, NextType, InitSnapshots, NextSnapshots, PTL DEF Spec

(* No answer, however many statements it is from and whatever runs do      *)
(* between them, calls complete what was read from a partial snapshot.     *)
THEOREM PartialAnswersTold == Spec => []PartialIsTold
<1>1. SnapshotsInv => PartialIsTold
  BY DEF SnapshotsInv, ToldInv
<1>. QED
  BY <1>1, SnapshotsCorrect, PTL

-----------------------------------------------------------------------------
(* Answers *)

(* A refusal for a missing record was looked up in the file of the schema, *)
(* which has all pages by then, or in one that has replaced it.            *)
LEMMA SearchedAll ==
  ASSUME TypeInv, SnapshotsInv, PrepareOperation, call'.answer = "not found"
  PROVE  NotFoundIsTrue'
<1> DEFINE op == Head(call.todo)
<1> DEFINE schema == call.schema
<1>0. /\ call \in Calls /\ call.seen \in Seq(Files) /\ file \in Files
      /\ \A t \in Tables : /\ file.pages[t] \in Nat /\ schema.pages[t] \in Nat /\ Pages[t] \in Nat
                           /\ file.pages[t] <= Pages[t]
  BY PagesAssumption DEF TypeInv, RunType, Calls, Files, InBounds
<1>1. /\ "not found" \in Possible(op) /\ call'.todo = call.todo /\ call'.schema = schema
      /\ call'.seen = Searched(op) /\ file' = file
  <2>1. file' = file
    BY DEF PrepareOperation
  <2>2. PICK answer \in Possible(op) :
          \/ /\ Len(call.todo) > 1
             /\ call' = [call EXCEPT !.pc = "read", !.todo = Tail(call.todo), !.answer = "none",
                                     !.seen = Searched(op)]
          \/ call' = [call EXCEPT !.pc = "done", !.todo = call.todo, !.answer = answer,
                                  !.seen = Searched(op)]
    BY <1>0, PreparedOrDone
  <2> HIDE DEF op
  <2>3. call' = [call EXCEPT !.pc = "done", !.todo = call.todo, !.answer = answer, !.seen = Searched(op)]
    BY <1>0, <2>2 DEF Calls
  <2>. QED
    BY <1>0, <2>1, <2>2, <2>3 DEF Calls
<1>2. PICK t \in Meant(op) : "not found" \in OperationAnswers(op, t)
  BY <1>1 DEF Possible
<1>3. schema.pages[t] = Pages[t] /\ op.page # 0
  BY <1>2 DEF OperationAnswers, TableComplete, FieldAnswers, Found
<1>4. Last(call'.seen) = file
  <2>1. call'.seen = Append(call.seen, file)
    BY <1>1, <1>2, <1>3 DEF Searched
  <2> DEFINE seen == call.seen
  <2>2. seen \in Seq(Files) /\ file \in Files
    BY <1>0
  <2> HIDE DEF seen
  <2>3. Last(Append(seen, file)) = file
    BY <2>2, Appended
  <2>. QED
    BY <2>1, <2>3 DEF seen
<1>5. t \in Tables /\ \A s \in Meant(op) : s = t
  BY <1>2, MeansOneTable DEF Meant
<1>6. (file.complete \/ file.run = schema.run) => file.pages[t] = Pages[t]
  <2>1. file.complete => file.pages[t] = Pages[t]
    BY DEF SnapshotsInv, SnapshotInv
  <2>2. file.run = schema.run => schema.pages[t] <= file.pages[t]
    BY <1>5 DEF SnapshotsInv, SchemaInv
  <2>3. file.pages[t] \in Nat /\ Pages[t] \in Nat /\ file.pages[t] <= Pages[t]
    BY <1>0, <1>5
  <2>4. file.run = schema.run => file.pages[t] = Pages[t]
    <3> DEFINE x == file.pages[t]
    <3> DEFINE y == Pages[t]
    <3>1. x \in Nat /\ y \in Nat /\ x <= y /\ (file.run = schema.run => y <= x)
      BY <1>3, <2>2, <2>3
    <3> HIDE DEF x, y, schema
    <3>2. file.run = schema.run => x = y
      BY <3>1, Antisymmetry
    <3>. QED
      BY <3>2 DEF x, y
  <2>. QED
    BY <2>1, <2>4
<1>7. \/ \A s \in Meant(op) : file.pages[s] = Pages[s]
      \/ ~file.complete /\ file.run # schema.run
  BY <1>5, <1>6
<1>8. call'.answer = "not found" => /\ Last(call'.seen) = file /\ call'.schema = schema
                                     /\ Resolve(TableItems(TableNames), Head(call'.todo).table) = Meant(op)
  BY <1>1, <1>4 DEF Meant
<1> HIDE DEF schema, op
<1>. QED
  BY <1>7, <1>8 DEF NotFoundIsTrue

(* What a call has answered stays until it returns, and the answers in     *)
(* between are no refusals.                                                *)
LEMMA CallStepNotFound ==
  ASSUME TypeInv, SnapshotsInv, NotFoundIsTrue, CallStep
  PROVE  NotFoundIsTrue'
<1>0. call \in Calls /\ CallInv
  BY DEF TypeInv
<1>1. CASE call'.answer # "not found"
  BY <1>1 DEF NotFoundIsTrue
<1>2. CASE call'.answer = "not found"
  <2>1. ASSUME NEW tool, NEW list, Begin(tool, list) PROVE FALSE
    BY <1>2, <2>1 DEF Begin, NoCall
  <2>2. ~Ready /\ ~Status /\ ~ListResolvedSchema /\ ~ListSchema
    BY <1>0, <1>2 DEF Ready, Status, ListResolvedSchema, ListSchema, Calls, CallInv
  <2>3. ~Fail /\ ~Return
    <3>1. NoCall.answer = "none" /\ [NoCall EXCEPT !.pc = "done", !.tool = call.tool, !.answer = "failed"].answer = "failed"
      BY DEF NoCall
    <3>. QED
      BY <1>2, <3>1 DEF Fail, Return
  <2>4. ~QueryResolvedBase
    <3>1. SUFFICES ASSUME QueryResolvedBase PROVE FALSE
      OBVIOUS
    <3>2. PICK todo, label, seen, results :
            call' = [call EXCEPT !.todo = todo, !.pc = label, !.seen = seen, !.results = results]
      BY <1>0, <3>1 DEF QueryResolvedBase, Calls
    <3>3. call.pc = "read"
      BY <3>1 DEF QueryResolvedBase
    <3>. QED
      BY <1>0, <1>2, <3>2, <3>3 DEF Calls, CallInv
  <2>5. ~PrepareSchemaMutation
    <3>1. \A op : SchemaAnswer(op) # "not found"
      BY DEF SchemaAnswer
    <3>2. SUFFICES ASSUME PrepareSchemaMutation PROVE FALSE
      OBVIOUS
    <3>3. PICK answer : answer # "not found" /\ call' = [call EXCEPT !.pc = "done", !.schema = file, !.answer = answer]
      BY <3>1, <3>2 DEF PrepareSchemaMutation
    <3>. QED
      BY <1>0, <1>2, <3>3 DEF Calls
  <2>6. PrepareOperation
    BY <2>1, <2>2, <2>3, <2>4, <2>5 DEF CallStep
  <2>. QED
    BY <1>2, <2>6, SearchedAll
<1>. QED
  BY <1>1, <1>2

LEMMA NextNotFound == TypeInv /\ SnapshotsInv /\ NotFoundIsTrue /\ [Next]_vars => NotFoundIsTrue'
<1> SUFFICES ASSUME TypeInv, SnapshotsInv, NotFoundIsTrue, [Next]_vars PROVE NotFoundIsTrue'
  OBVIOUS
<1>1. CASE CallStep
  BY <1>1, CallStepNotFound
<1>2. CASE ~CallStep
  <2>1. UNCHANGED call
    BY <1>2 DEF Next, RunStep, StartRun, InitializeSnapshot, HandleProgress, ApplyTablePage,
                Finalize, FinishRun, FailRun, DeleteRecord, vars
  <2>. QED
    BY <2>1 DEF NotFoundIsTrue
<1>. QED
  BY <1>1, <1>2

(* A record is called missing only where all pages of its table were       *)
(* searched, or where another run has emptied the file meanwhile.          *)
THEOREM MissingRecordsMissing == Spec => []NotFoundIsTrue
<1>1. Init => NotFoundIsTrue
  BY DEF Init, NoCall, NotFoundIsTrue
<1>. QED
  BY <1>1, NextNotFound, SnapshotsCorrect, PTL DEF Spec

LEMMA NextTruncation == TypeInv /\ TruncationIsTrue /\ [Next]_vars => TruncationIsTrue'
<1> SUFFICES ASSUME TypeInv, TruncationIsTrue, [Next]_vars PROVE TruncationIsTrue'
  OBVIOUS
<1>0. call \in Calls
  BY DEF TypeInv
<1>1. CASE QueryResolvedBase
  <2> DEFINE n == Query(Head(call.todo))
  <2> DEFINE of == LimitResult(Head(call.todo), Executed(Head(call.todo), n))
  <2> DEFINE r == [rows |-> n, of |-> of]
  <2>1. n \in Nat
    BY RowsCounted DEF TypeInv, RunType, Files
  <2>2. of.truncated <=> of.shown < n
    <3> HIDE DEF n
    <3>. QED
      BY <2>1, LimitResultTrue
  <2>3. call'.results = call.results \cup {r}
    BY <1>0, <1>1 DEF QueryResolvedBase, Calls
  <2> HIDE DEF n, of
  <2>. QED
    BY <2>2, <2>3 DEF TruncationIsTrue
<1>2. CASE ~QueryResolvedBase
  <2>1. call'.results \in {call.results, {}}
    <3>1. CASE CallStep
      <4>1. ASSUME NEW tool, NEW list, Begin(tool, list) PROVE call'.results = {}
        BY <4>1 DEF Begin, NoCall
      <4>2. CASE Fail \/ Return
        <5>1. /\ NoCall.results = {}
              /\ [NoCall EXCEPT !.pc = "done", !.tool = call.tool, !.answer = "failed"].results = {}
          BY DEF NoCall
        <5>. QED
          BY <4>2, <5>1 DEF Fail, Return
      <4>3. CASE Ready \/ Status \/ ListResolvedSchema \/ ListSchema \/ PrepareSchemaMutation
        BY <1>0, <4>3 DEF Ready, Status, ListResolvedSchema, ListSchema, PrepareSchemaMutation, Calls
      <4>4. CASE PrepareOperation
        BY <1>0, <4>4, PreparedOrDone DEF Calls
      <4>. QED
        BY <1>2, <3>1, <4>1, <4>2, <4>3, <4>4 DEF CallStep
    <3>2. CASE ~CallStep
      BY <3>2 DEF Next, RunStep, StartRun, InitializeSnapshot, HandleProgress, ApplyTablePage,
                  Finalize, FinishRun, FailRun, DeleteRecord, vars
    <3>. QED
      BY <3>1, <3>2
  <2>. QED
    BY <2>1 DEF TruncationIsTrue
<1>. QED
  BY <1>1, <1>2

(* A result is marked as truncated exactly when rows are missing from it.  *)
THEOREM TruncationTold == Spec => []TruncationIsTrue
<1>1. Init => TruncationIsTrue
  BY DEF Init, NoCall, TruncationIsTrue
<1>2. Spec => []TypeInv
  BY InitType, NextType, PTL DEF Spec
<1>. QED
  BY <1>1, <1>2, NextTruncation, PTL DEF Spec


-----------------------------------------------------------------------------
(* Names *)

(* What list_schema calls a table or a field of plain names is enough to   *)
(* mean it, once a run has stored the names (sanitizeIdentifiers against   *)
(* resolveTableSchema and resolveFieldSchema).                             *)
THEOREM EveryOwnNameResolves == Spec => []OwnNameResolves
<1>1. OwnNameResolves
  BY OwnNamesOfAnyHolds DEF OwnNameResolves
<1>. QED
  BY <1>1, PTL
=============================================================================
