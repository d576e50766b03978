------------------------------- MODULE Tools -------------------------------
(***************************************************************************)
(* What the tools that read a base answer: query and list_schema           *)
(* (internal/tools/query.go, sql.go, list_schema.go) and the preparation   *)
(* of a mutate (PrepareMutation, internal/approval/service.go) and of a    *)
(* manage_schema (PrepareSchemaMutation, schema.go), while sync runs       *)
(* replace the content of the base's DuckDB file (internal/duckdb/         *)
(* store.go).  A call looks at the manager's status and at the file in     *)
(* separate steps, each statement under a read lock of its own.            *)
(*                                                                         *)
(* Calls change nothing that another call reads, so one call at a time     *)
(* stands for all.  The status starts without a file; that the file may be *)
(* evicted, that the process may restart and that the disk may fail (so    *)
(* that a run empties a complete file) is in SyncWorker.tla and SyncRun.tla *)
(* and assumed away here.                                                  *)
(***************************************************************************)
EXTENDS Names

CONSTANTS
  TableNames,  \* the names of the base's tables in Airtable, in its order
  FieldNames,  \* the names of the fields of each of them
  Pages,       \* Pages[t]: number of pages of table t, of one record each
  Limit,       \* DEFAULT_QUERY_LIMIT
  Batches,     \* lists of statements that query is called with
  Requests,    \* lists of operations that mutate is called with
  SchemaRequests, \* lists of operations that manage_schema is called with
  Deletable,   \* bound: the records that may be deleted in Airtable
  MaxRuns      \* bound: number of sync runs

Tables == DOMAIN TableNames

ASSUME PagesAssumption == Pages \in [Tables -> Nat \ {0}]
ASSUME LimitAssumption == Limit \in Nat \ {0} /\ MaxRuns \in Nat

(* Empty lists are refused before anything is read. *)
ASSUME ListsAssumption ==
  \A list \in Batches \cup Requests \cup SchemaRequests : list # <<>> /\ list \in Seq(ToSet(list))

ASSUME TablesAssumption == Listed(TableNames) /\ Listed(FieldNames)

VARIABLES
  airtable, \* the records there are in Airtable
  file,     \* the file {base}.db
  run,      \* the sync run: program counter, number, staging and target file
  status,   \* what the manager says of the base
  call      \* the tool call under way

vars == <<airtable, file, run, status, call>>

Records == UNION {{t} \X (1..Pages[t]) : t \in Tables}

(* A DuckDB file: the run that filled it, whether its sync_info says       *)
(* completed, the pages it has of each table and the rows they brought.    *)
Files ==
  [ run : 0..MaxRuns, complete : BOOLEAN,
    pages : [Tables -> Nat], rows : SUBSET Records ]

NewFile(n) ==
  [run |-> n, complete |-> FALSE, pages |-> [t \in Tables |-> 0], rows |-> {}]
NoFile == NewFile(0)

(* What a result says, and how many rows there were for it.                *)
Results == [rows : Nat, of : [shown : Nat, truncated : BOOLEAN]]

Answers == {"none", "unknown table", "not synced", "not found", "unknown field",
            "duplicate field", "table exists", "field exists", "prepared", "failed"}

(* Statements and operations. *)
Elements == UNION {ToSet(list) : list \in Batches \cup Requests \cup SchemaRequests}

Calls ==
  [ pc : {"idle", "wait", "schema", "status", "read", "done"},
    tool : {"none", "query", "list_schema", "mutate", "manage_schema"},
    told : BOOLEAN,       \* sync.read_snapshot of the answer is "complete"
    todo : Seq(Elements),
    schema : Files,       \* mutate: the file when ListSchema read it
    seen : Seq(Files),    \* history: the files that rows were read from
    results : SUBSET Results,
    answer : Answers ]

NoCall ==
  [ pc |-> "idle", tool |-> "none", told |-> FALSE, todo |-> <<>>,
    schema |-> NoFile, seen |-> <<>>, results |-> {}, answer |-> "none" ]

InBounds(f) == \A t \in Tables : f.pages[t] <= Pages[t]

TypeOK ==
  /\ airtable \subseteq Records
  /\ file \in Files /\ InBounds(file)
  /\ run \in [ pc : {"idle", "fetch", "report", "pages", "last"}, number : 0..MaxRuns,
               staging : BOOLEAN, target : Files ]
  /\ InBounds(run.target)
  /\ status \in [readable : BOOLEAN, complete : BOOLEAN, sampled : BOOLEAN]
  /\ call \in Calls

Init ==
  /\ airtable = Records
  /\ file = NoFile
  /\ run = [pc |-> "idle", number |-> 0, staging |-> FALSE, target |-> NoFile]
  /\ status = [readable |-> FALSE, complete |-> FALSE, sampled |-> TRUE]
  /\ call = NoCall

-----------------------------------------------------------------------------
(* A sync run (run() of the worker and runSync) *)

(* The file that the run writes. *)
Target == IF run.staging THEN run.target ELSE file

Write(f) == IF run.staging THEN run' = [run EXCEPT !.pc = "report", !.target = f] /\ UNCHANGED file
                           ELSE run' = [run EXCEPT !.pc = "report"] /\ file' = f

(* The counters are cleared: isSchemaSampled finds no table to wait for.   *)
StartRun ==
  /\ run.pc = "idle" /\ run.number < MaxRuns
  /\ run' = [run EXCEPT !.pc = "fetch", !.number = @ + 1]
  /\ status' = [status EXCEPT !.sampled = TRUE]
  /\ UNCHANGED <<airtable, file, call>>

(* Every run empties the active file. *)
InitializeActive ==
  /\ run.pc = "fetch"
  /\ run' = [run EXCEPT !.pc = "report", !.staging = FALSE]
  /\ file' = NewFile(run.number)
  /\ UNCHANGED <<airtable, status, call>>

(* shouldUseStaging, then initializeSnapshot of the staging file or of the *)
(* active one, whose tables are dropped.                                   *)
InitializeSnapshot ==
  /\ run.pc = "fetch"
  /\ run' = [run EXCEPT !.pc = "report", !.staging = file.complete,
                        !.target = IF file.complete THEN NewFile(run.number) ELSE NoFile]
  /\ file' = IF file.complete THEN file ELSE NewFile(run.number)
  /\ UNCHANGED <<airtable, status, call>>

(* handleProgress after the initialization and after each page. *)
HandleProgress ==
  /\ run.pc = "report"
  /\ run' = [run EXCEPT !.pc = "pages"]
  /\ status' = [readable |-> TRUE, complete |-> run.staging,
                sampled |-> \A t \in Tables : Target.pages[t] > 0]
  /\ UNCHANGED <<airtable, file, call>>

(* The tables that are shorter than the longest are asked once too often.  *)
ApplyPageOfAll(t) ==
  LET next == Target.pages[t] + 1 IN
  /\ run.pc = "pages" /\ \E u \in Tables : next <= Pages[u]
  /\ Write([Target EXCEPT !.pages[t] = next, !.rows = @ \cup (airtable \cap {<<t, next>>})])
  /\ UNCHANGED <<airtable, status, call>>

(* The next page of a table is listed and applyTablePage commits its rows  *)
(* with the state of the table.                                            *)
ApplyTablePage(t) ==
  LET next == Target.pages[t] + 1 IN
  /\ run.pc = "pages" /\ next <= Pages[t]
  /\ Write([Target EXCEPT !.pages[t] = next, !.rows = @ \cup (airtable \cap {<<t, next>>})])
  /\ UNCHANGED <<airtable, status, call>>

(* sync_status of a table: its last page had no offset.                    *)
StartedIsComplete(f, t) == f.pages[t] > 0
TableComplete(f, t) == f.pages[t] = Pages[t]

(* FinalizeSnapshot, and the swap of a staging file. *)
Finalize ==
  /\ run.pc = "pages" /\ Target.pages = Pages
  /\ file' = [Target EXCEPT !.complete = TRUE]
  /\ run' = [run EXCEPT !.pc = "last", !.staging = FALSE, !.target = NoFile]
  /\ UNCHANGED <<airtable, status, call>>

(* handleProgress with status completed, and the end of the run. *)
FinishRun ==
  /\ run.pc = "last"
  /\ run' = [run EXCEPT !.pc = "idle"]
  /\ status' = [readable |-> TRUE, complete |-> TRUE, sampled |-> TRUE]
  /\ UNCHANGED <<airtable, file, call>>

(* An error before, between or after the pages: a staging file is removed, *)
(* the active one stays as it is.                                          *)
FailRun ==
  /\ run.pc \in {"fetch", "pages"}
  /\ run' = [run EXCEPT !.pc = "idle", !.staging = FALSE, !.target = NoFile]
  /\ UNCHANGED <<airtable, file, status, call>>

(* Somebody deletes a record in Airtable. *)
DeleteRecord ==
  /\ \E r \in airtable \cap Deletable : airtable' = airtable \ {r}
  /\ UNCHANGED <<file, run, status, call>>

-----------------------------------------------------------------------------
(* Every call *)

Begin(tool, list) ==
  /\ call.pc = "idle"
  /\ call' = [NoCall EXCEPT !.pc = "wait", !.tool = tool, !.todo = list]
  /\ UNCHANGED <<airtable, file, run, status>>

(* EnsureBaseReadable or EnsureBaseSchemaSampled returns.                  *)
Ready ==
  /\ call.pc = "wait" /\ status.readable
  /\ call.tool = "list_schema" => status.complete \/ status.sampled
  /\ call' = [call EXCEPT !.pc = IF call.tool \in {"mutate", "manage_schema"} THEN "schema"
                                       ELSE "status"]
  /\ UNCHANGED <<airtable, file, run, status>>

(* BaseStatus *)
Status ==
  /\ call.pc = "status"
  /\ call' = [call EXCEPT !.pc = "read", !.told = status.complete]
  /\ UNCHANGED <<airtable, file, run, status>>

(* The wait fails or a read of the file does. *)
Fail ==
  /\ call.pc \in {"wait", "schema", "read"}
  /\ call' = [NoCall EXCEPT !.pc = "done", !.tool = call.tool, !.answer = "failed"]
  /\ UNCHANGED <<airtable, file, run, status>>

Return ==
  /\ call.pc = "done"
  /\ call' = NoCall
  /\ UNCHANGED <<airtable, file, run, status>>

-----------------------------------------------------------------------------
(* list_schema and query *)

(* ListResolvedSchema *)
ListResolvedSchema ==
  /\ call.tool = "list_schema" /\ call.pc = "read"
  /\ call' = [call EXCEPT !.pc = "done", !.seen = <<file>>]
  /\ UNCHANGED <<airtable, file, run, status>>

(* The limit that NormalizeQuery appends to a statement without one: a row *)
(* more than is shown, to tell whether there are more.                     *)
ExactLimit == Limit
ExecutionLimit == Limit + 1

AtMost(n, limit) == IF n < limit THEN n ELSE limit

(* The rows that DuckDB returns of n: a statement with a LIMIT of its own, *)
(* which is long enough here, is not changed, and at the end of one that   *)
(* ends in a line comment the appended limit is part of the comment.       *)
Executed(statement, n) == IF statement.limit = "none" THEN AtMost(n, ExecutionLimit) ELSE n

(* applyQueryResultLimit *)
LimitResult(statement, n) ==
  IF statement.limit = "own" \/ n <= Limit THEN [shown |-> n, truncated |-> FALSE]
                                           ELSE [shown |-> Limit, truncated |-> TRUE]

(* The number of rows that a statement finds: it selects those of a table. *)
Query(statement) == Cardinality({r \in file.rows : r[1] = statement.table})

(* The next statement.  NormalizeQuery has refused every other list of     *)
(* statements before anything is read.                                     *)
QueryResolvedBase ==
  LET statement == Head(call.todo)
      n == Query(statement)
  IN
  /\ call.tool = "query" /\ call.pc = "read"
  /\ call' = [call EXCEPT !.todo = Tail(@),
                          !.pc = IF Len(call.todo) = 1 THEN "done" ELSE "read",
                          !.seen = Append(@, file),
                          !.results = @ \cup {[rows |-> n,
                             of |-> LimitResult(statement, Executed(statement, n))]}]
  /\ UNCHANGED <<airtable, file, run, status>>

-----------------------------------------------------------------------------
(* mutate: PrepareMutation *)

(* ListSchema, which finds a file; BaseStatus comes after it. *)
ListSchema ==
  /\ call.tool = "mutate" /\ call.pc = "schema"
  /\ call' = [call EXCEPT !.pc = "status", !.schema = file]
  /\ UNCHANGED <<airtable, file, run, status>>

(* How the fields of a record resolve: Go gives them in any order.         *)
FieldAnswers(names) ==
  LET means(n) == Resolve(FieldItems(FieldNames), n)
      known == {n \in names : means(n) # {}}
      refused == {answer \in {"unknown field", "duplicate field"} :
                    \/ answer = "unknown field" /\ known # names
                    \/ answer = "duplicate field"
                       /\ Cardinality({means(n) : n \in known}) < Cardinality(known)}
  IN  IF refused = {} THEN {"prepared"} ELSE refused

(* ReadTableRowsByIDs finds the record of an operation, if it names one.   *)
Found(op, t) == op.page = 0 \/ <<t, op.page>> \in file.rows

(* What becomes of an operation in table t: first its record, then its     *)
(* fields are looked up.                                                   *)
OperationAnswers(op, t) ==
  IF Found(op, t) THEN FieldAnswers(op.fields)
  ELSE IF TableComplete(call.schema, t) THEN {"not found"} ELSE {"not synced"}

(* One operation of the request, of one record.  The first that is refused *)
(* refuses the request; after the last one it is stored.                   *)
PrepareOperation ==
  LET op == Head(call.todo)
      table == Resolve(TableItems(TableNames), op.table)
  IN
  /\ call.tool = "mutate" /\ call.pc = "read"
  /\ \E answer \in IF table = {} THEN {"unknown table"}
                   ELSE UNION {OperationAnswers(op, t) : t \in table} :
       LET more == answer = "prepared" /\ Len(call.todo) > 1 IN
       call' = [call EXCEPT
                  !.pc = IF more THEN "read" ELSE "done",
                  !.todo = IF more THEN Tail(@) ELSE @,
                  !.answer = IF more THEN "none" ELSE answer,
                  !.seen = IF table = {} \/ op.page = 0 THEN @ ELSE Append(@, file)]
  /\ UNCHANGED <<airtable, file, run, status>>

-----------------------------------------------------------------------------
(* manage_schema: PrepareSchemaMutation *)

(* What becomes of an operation: what it changes must be there, and what   *)
(* it creates must not be there under any of its names.                    *)
SchemaAnswer(op) ==
  LET isTable(name) == Resolve(TableItems(TableNames), name) # {}
      isField(name) == Resolve(FieldItems(FieldNames), name) # {}
  IN
  IF op.type = "create_table" THEN IF isTable(op.name) THEN "table exists" ELSE "prepared"
  ELSE IF ~isTable(op.table) THEN "unknown table"
  ELSE IF op.type = "create_field" /\ isField(op.name) THEN "field exists"
  ELSE IF op.type = "update_field" /\ ~isField(op.field) THEN "unknown field"
  ELSE "prepared"

(* All operations are looked up in one reading of the schema, none in what *)
(* the ones before it will have made.  The first that is refused refuses   *)
(* the request.                                                            *)
PrepareSchemaMutation ==
  LET answer(k) == SchemaAnswer(call.todo[k])
      refused == {k \in DOMAIN call.todo : answer(k) # "prepared"}
  IN
  /\ call.tool = "manage_schema" /\ call.pc = "schema"
  /\ call' = [call EXCEPT !.pc = "done", !.schema = file,
                          !.answer = IF refused = {} THEN "prepared" ELSE answer(Min(refused))]
  /\ UNCHANGED <<airtable, file, run, status>>

-----------------------------------------------------------------------------

RunStep ==
  \/ StartRun \/ InitializeSnapshot \/ HandleProgress \/ (\E t \in Tables : ApplyTablePage(t))
  \/ Finalize \/ FinishRun \/ FailRun

CallStep ==
  \/ \E list \in Batches : Begin("query", list)
  \/ \E list \in Requests : Begin("mutate", list)
  \/ \E list \in SchemaRequests : Begin("manage_schema", list)
  \/ Begin("list_schema", <<>>)
  \/ Ready \/ Status \/ Fail \/ Return
  \/ ListResolvedSchema \/ QueryResolvedBase \/ ListSchema \/ PrepareOperation
  \/ PrepareSchemaMutation

Next == RunStep \/ CallStep \/ DeleteRecord

Spec == Init /\ [][Next]_vars

-----------------------------------------------------------------------------
(* Properties *)

(* An answer that calls the snapshot complete was not read from a partial  *)
(* one: the status is asked for before the file is read, statement after   *)
(* statement, and runs and their failures come in between (SPEC.md:354).   *)
PartialIsTold ==
  call.told => \A k \in DOMAIN call.seen : call.seen[k].complete

(* A record that is "not found" is not just not synced yet: the file that  *)
(* was searched has all pages of its table.  The exception is a file that  *)
(* another run has emptied since the schema was read, README, Deviations   *)
(* (PrepareMutation; SPEC.md:460).                                         *)
NotFoundIsTrue ==
  call.answer = "not found" =>
    LET searched == Last(call.seen)
        table == Resolve(TableItems(TableNames), Head(call.todo).table)
    IN
    \/ \A t \in table : searched.pages[t] = Pages[t]
    \/ ~searched.complete /\ searched.run # call.schema.run

(* A result is marked as truncated exactly when there were more rows than  *)
(* it shows: at and around the limit, with a limit of the caller's own and *)
(* when the appended one has no effect (NormalizeQuery against             *)
(* applyQueryResultLimit).                                                 *)
TruncationIsTrue ==
  \A r \in call.results : r.of.truncated <=> r.of.shown < r.rows

(* What list_schema calls a table or a field is enough to mean it, in      *)
(* every base of three of SomeNames whose names a run has stored           *)
(* (sanitizeIdentifiers against resolveTableSchema and resolveFieldSchema).*)
OwnNameResolves ==
  file # NoFile => OwnNamesOfAny
=============================================================================
