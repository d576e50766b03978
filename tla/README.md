# Better Airtable MCP: specifications, checks and proofs

TLA+ models of the server in `src/` (Go), the TLC runs that check them on small
instances, and the theorems about them that TLAPS proves for every instance.
Paths below are relative to `src/internal/` unless they start with `src/`.

## 1. The system

The server offers MCP tools over HTTP. It keeps a DuckDB file per Airtable
base, fills it by listing the base's pages, answers SQL queries from it, and
writes to Airtable only after a person has approved the change in a browser.
Postgres holds what must survive a restart.

| Component | State it keeps | Operations | Talks to |
|---|---|---|---|
| Approval service (`approval/service.go`, `schema.go`, `handler.go`) | rows of `pending_operations` (Postgres) | PrepareMutation, PrepareSchemaMutation, GetOperation, Approve, Reject, RunExpiryLoop | Airtable API, sync manager (TriggerSync), token manager |
| Sync manager (`sync/manager.go`) | map of workers, flags of each worker, rows of `sync_state`, the active file of a base | EnsureBaseReadable / SchemaSampled / Ready, RequestSync, TriggerSync, the worker's `run()`, sweep and restore at start | sync run, token manager, Postgres, disk |
| Sync run (`sync/service.go`) | goroutines and channels of one run, staging and active file | runSync, SyncBase, the readers' lock | Airtable client, DuckDB store |
| Airtable client (`sync/airtable.go`) | rate-limit windows per base and per token | requests with retry and backoff | Airtable |
| Token manager (`oauth/token_manager.go`) | in-flight refreshes, rows of `airtable_tokens` | AirtableAccessToken, RunRefreshLoop | Airtable OAuth, Postgres |
| MCP OAuth server (`oauth/handler.go`, `middleware.go`) | authorization requests and codes (memory), MCP tokens and clients (Postgres) | register, authorize, callback, token grants, cleanup loop | Airtable OAuth, Postgres |
| Request limiter, MCP sessions (`oauth/ratelimit.go`, `mcp/session.go`) | windows per key; sessions with idle expiry | allow; create, touch, delete | - |
| Tools (`tools/`) | none | query, list_schema, mutate, manage_schema, sync, check_operation, search_bases; argument checks, SQL limits | all of the above |
| DuckDB store (`duckdb/`) | tables of one file; the names of tables and columns | one transaction per page, schema reads, queries | disk |
| Configuration, health, landing, logging, crypto, JSON helpers | none | - | - |

How they interact: a tool call *touches* the worker of its base (shared flags
under `w.mu`, a wake-up channel), *waits* for a level of the snapshot by polling
the flags, and *reads* the file under a read lock. A worker runs one sync run
after another. A run takes the write lock for each page it writes into the
active file, or builds a staging file and renames it. An approved operation
ends in TriggerSync. At start, `src/cmd/server/main.go` sweeps stale files
(line 98), then restores workers from the rows (105).

### What is hard

- **Interleaving.** Handlers read a row and write it in a later statement;
  `cleanupExpired` acts on a decision made before it released `w.mu`; the
  goroutines of a run share `runtimes[]` with the coordinator and no lock.
- **Crashes and partial failure.** Between the claim of an operation and its
  terminal write; between batches; between removal and rename of a file.
- **Unreliable calls.** A write whose reply is lost may have happened or may
  still happen; Postgres statements whose error is ignored.
- **Time.** Approval expiry, execution deadline and recovery window; TTL,
  interval and backoff of a worker; the deadline of a run.
- **Several reads of what changes.** A tool asks for the status of a base, its
  schema and its rows in separate reads, while runs empty, fill and swap the file.
- **Names.** Airtable's names become DuckDB names, made unique by suffixes that
  may be names of their own, and are found again under several aliases.
- **Waiting.** Calls that poll a worker that has left, a coordinator that waits
  for goroutines which may drop their results.

### What makes each component correct

- Approval: at-most-once execution, results that tell the truth, a recovery
  that never hits a live execution, and no operation that stays open for ever.
- Sync manager: one worker per base, readable means there is a file, follow-ups
  are not lost, complete snapshots are not degraded, a base in use becomes
  fresh, an idle one is evicted.
- Sync run: no table forgotten or in two hands at once, `complete` means all
  pages, each once, a run ends, the active file is replaced atomically.
- Token manager: one refresh at a time per user, no refresh token presented
  twice, a rotated token is stored, a dead one is noticed.
- OAuth server: a login never gets a second chain of tokens, a refresh token the
  client holds works until it expires, a bearer has Airtable tokens.
- Sessions: an open stream keeps its session.
- Tools: what a result says of itself is true of the rows it was made from
  (partial or complete, truncated or not, "not found"), and a name that
  list_schema gave out means the table or field it was given for.
- Airtable client: no window or bucket admits more than its limit, a call is
  carried out at most once and ends.

The hazards, each at its line with the properties that would catch it, are in
`PROJECT.json`.

## 2. Modules

| Module | What it is |
|---|---|
| `Approval` | the approval service: one action per database statement or external call |
| `OperationLifecycle` | what the approval service promises; `Approval` implements it |
| `ApprovalProofs` | theorems about `Approval` |
| `SyncWorker` | the sync manager for one base: worker goroutine, tool calls, server start |
| `SyncWorkerProofs` | theorems about `SyncWorker` |
| `SyncRun` | one sync run: goroutines, channels, coordinator, files, readers |
| `SnapshotRun` | what a run promises about the active file; `SyncRun` implements it |
| `SyncRunProofs` | theorems about `SyncRun` |
| `TokenManager` | the Airtable token manager for one user, and Airtable's rotating tokens |
| `TokenCustody` | what the token manager promises of a user's chain of tokens; `TokenManager` implements it |
| `TokenManagerProofs` | theorems about `TokenManager` |
| `McpOAuth` | the OAuth server for MCP clients: registration, login, grants, cleanup |
| `TokenChain` | what the OAuth server promises of a login; `McpOAuth` implements it |
| `McpSessions` | the session table of the MCP endpoint and its event streams |
| `McpServer` | composes `McpOAuth` and `McpSessions` through RequireBearer |
| `McpServerProofs` | theorems about `McpServer` and the two it composes |
| `AirtableClient` | doJSON: the two waits, the retries, the answers of Airtable |
| `AirtableClientProofs` | theorems about `AirtableClient` |
| `Names` | how names are sanitised, made unique, ordered and found again: operators only |
| `NamesProofs` | theorems about `Names` |
| `Tools` | query, list_schema and the preparation of a mutate or manage_schema against the sync runs; EXTENDS `Names` |
| `ToolsProofs` | theorems about `Tools` |
| `Batches` | how execute cuts the records of an operation into batches; its theorems are in `ApprovalProofs` |
| `MCApproval`, `MCSyncWorker`, `MCSyncRun`, `MCTokenManager`, `MCMcpServer`, `MCAirtableClient`, `MCTools` | instances for TLC |

`PROJECT.json` maps every definition to the lines it models. Definitions that
only exist to be put in place of another one (a mutated form of the code) stand
directly before it, with a comment that says what they get wrong.

### Approval

A request is a slot with a program counter (`pc[r]`); its statements are the
actions: `Read` (GetPendingOperation), `Check` (expiry of the row as it was read),
`Claim` (the compare-and-swap to `executing`), `RejectOperation` and `Expire`
(plain UPDATEs), `BeginExecution`, `SendBatch`/`CallFails`, `Record` (terminal
write). `SweepExpired`, `SweepStale` are the loop's two statements. `Fail` is an
error without effect; a lost reply is the disjunct that performs the effect and
returns. Airtable is `sent`, `applied` and `inflight`: a call whose caller gave
up is decided later, or never. Record mutations (batches of ten) and schema
mutations (one operation per call) have the same control and share the model.
Each `Crash` frees all slots and keeps rows and Airtable.

Left out: the preview, alias resolution and suggestions of a prepared operation,
which are data, and the encryption of the payload, whose failure is `Fail`.

### SyncWorker

`w[s]` is a `workerState` with the program counter of its `run()`; `registered`
is the manager's map for this base; `call[c]` is a tool call. Critical sections
of `w.mu` and `m.mu`, file operations and statements are single actions. A
timestamp is reduced to whether it has passed (`active`, `due`, `backingOff`),
and the environment lets it pass. `file` is absent, partial, sampled (first pages
of all tables) or complete; `fileChange` is the last Airtable change its content
is sure to include, a history variable for freshness. `asked` and `from`
are history variables too: the change at which a follow-up was last asked, and
at which the last run started.

`ChooseFile` is what a run, and a SyncBase, does first: shouldUseStaging reads the
file's `sync_info`, and initializeSnapshot opens a staging file or empties the active
one. With `ReadsMayFail` the read may fail on a file that is there. Then a
complete snapshot is emptied in place (`sync/service.go:695-698`), and a restored
worker (`NewWorkers`) takes the file for one that it knows nothing of. `trouble` is a
history variable: it has `unread` while a sync writes that has emptied a complete
file so, and `overlap` while a SyncBase of a mutation and a run of the
worker write that have met; it is empty again when nobody writes.

A call of kind `mutate` is a tool that prepares a mutation: it waits like a
query and then reads the schema; if the file has gone in between it runs
`SyncBase` in the call, which excludes another SyncBase (lockSync) but no worker.

Assumed here: a run ends (a run that hangs is the subject of `SyncRun`); the TTL
does not elapse while a call that has just touched the worker runs without
waiting; whether a row's `active_until` has passed at boot is open; the rename of the
staging file succeeds or leaves the active file alone (where it does not, see `SyncRun`).
Names of worker objects are used again when nobody holds them, so that a small
`Slots` suffices for ever; a state in which none is free only delays a call.

### SyncRun

The goroutines (`worker[k]`), the two channels with their capacities, the
coordinator (`pc`) and the deadline (`expired`, `cancelled`). Sending and
dropping are both enabled when both cases of a `select` are ready. `written[t]` is
the list of pages applied, so order and multiplicity are visible.
`DiskMayFail` lets `os.Rename` and the read of `sync_info` fail. Runs follow each
other (`NextRun`), so leftovers of a failed run are the start of the next one.

### TokenManager

A caller is the refresh loop (`Background`) or a tool call. `row` is the user's
row, `flight` the entry of `inFlight`; `Lookup`, `Join`, `Load`, then the critical
section `Refreshed`/`Refused`/`RefreshFails`, `Mark`, `Put` under its own deadline,
then `Publish` and `Release`. Refresh tokens are numbered by rotation: Airtable
accepts `good`, and one that comes late revokes the chain. A request whose
caller gave up is in `delayed` and may still `Deliver`. `faulty` is a history
variable: a refresh that had begun was cut short (crash, deadline, lost reply,
failed `Put`), after which a rotated token may be gone for good.

Left out: encryption, the access token apart from its age, other users.

### McpOAuth, McpSessions, McpServer

A login is one passage through Authorize; its number stands for the `state` sent
to Airtable, the code and the user, who is new at each login. Handlers
(`Requests`) walk through the statements of AirtableCallback and issueMCPToken;
each may fail without effect (`Fail`) or take effect unnoticed (`Executed`). The
two tables in memory are lost at a `Crash`, the three in Postgres are not. `held`
and `presented` are what the client application knows. The session table keeps
`owner` and `idle`; each call prunes it; a stream touches its session at
each `Beat`. `McpServer` lets a user call the session table only when
`RequireBearer` finds a row of mcp_tokens, and restarts both at once.

Left out: the expiry of access tokens and the request limiters, which only
refuse requests; the second `Flusher` check of handleGet; the JSON-RPC methods,
which keep no state here.

### AirtableClient

A slot of `Calls` is a call of doJSON: `Begin` takes a place in the user's window
(`Enter`, under `c.mu`), `ReserveBase` one in the base's token bucket, then `Send`,
and `Answered`, `Failed` or `RateLimited` with its `Backoff` and `Retry`, which waits
again. Times are ticks from now. The bucket is `golang.org/x/time/rate`, an
external library: its tokens are the `debt`, the time until it is full;
`CancelAt` gives a reservation back unless a later one depends on it. Entries
that are forgotten after ten minutes are open or full by then, so forgetting them
is no step. `sends` and `hint` are history variables.

One HTTPClient is modelled. The server has two, one for syncs and one for
approvals (`src/cmd/server/main.go:86`, 88), which share no state.

### Names

A name is a sequence of tokens: `Digits`, the numbers 2, 3 and so on, `Words`, an
underscore, white space, `"-"` for every other separator, `"non-ascii"` for letters
that are dropped. The loops of SanitizeIdentifier and sanitizeIdentifiers are recursive
functions, over the tokens of a name and over the names of a list; `Listed` says that
there are numbers enough for a list. An item has the set of those that are listed
earlier: tables are read in the order of their DuckDB names (`Before`), fields in
Airtable's. `Resolve` is the lookup of resolveTableSchema and resolveFieldSchema:
the first item that has the name as its DuckDB or its original name, where white
space around the names compared does not count (`Alias`, normalizedAlias of the
code). Case is folded, as the code does wherever it looks a name up. The third alias, Airtable's id, is never a name here.

### Tools

`run` is a sync run with what its steps do to the file: `InitializeSnapshot` takes a
staging file when the active one is complete and empties the active one
otherwise, `ApplyTablePage` commits a page, `HandleProgress` tells the manager,
`Finalize` swaps or marks, `FailRun` gives up. A page is one record, which may have
been deleted in Airtable before the page was listed. `call` walks through
a tool call: wait, status and reads, in the order of the code: query and
list_schema ask for the status before they read, PrepareMutation reads the schema
first. A query reads once for each statement, a mutate once for each operation that
names a record; PrepareSchemaMutation looks everything up in one reading of the
schema. `seen` is a history variable, the files that rows were read from.

Calls change nothing that another call reads, so one at a time stands for all.
An operation has one record; the rows for linked records, which only
decorate the preview, are left out, and so are eviction and restart, which
`SyncWorker` has. A read that fails, whatever the reason, is `Fail`.

### Batches

The loop of execute as the set of its batch starts. It is pure arithmetic, proved
and not run.

### Abstract specifications

- `OperationLifecycle`: an operation is opened once, claimed at most once, its
  writes are sent in order during that one execution, and what is over stays
  over. Mapping: the phase of an operation is `running` while a request owns
  its execution, whatever the status column says.
- `SnapshotRun`: a complete snapshot is replaced in one step by a newer one, or
  stays; without one the file is emptied and filled in the open. `Lose` is
  the failing fallback of the swap, possible only when the disk may fail.
- `TokenCustody`: the good refresh token of Airtable's chain is in the database, or
  in the hands of the one refresh that will store it; it is lost, and a token is
  presented again, only after a refresh was cut short; only a user whose chain is dead
  is told to connect again, and stays told. Mapping (`WhereKept`): `stored` when the
  row has `good`, `held` when a caller in `put` has it, else `lost`; `cut` is `faulty`.
- `TokenChain`: a login leads to one code, each code and refresh token is redeemed
  once, pairs are issued in order and none twice, and a chain that has ended never
  goes on. Mapping (`StageOf`): where the login's right to its next pair is, be it
  the pending authorization, the code, a handler or the last refresh token.

## 3. Runs

| Run | Instance | Shows |
|---|---|---|
| `Approval_requests` | 1 operation of 2 batches, 2 concurrent requests, times of 1-2 units, clock to 5; 63 thousand states | type, at-most-once, true results, live executions never reaped, refinement of the lifecycle, every operation resolves |
| `Approval_NoApprovalNoChanges` | the same, prepared at time 0 | the promise "no changes made" of SPEC.md fails |
| `SyncWorker_calls` | 2 calls, 2 worker objects, mutations and syncs, reads of `sync_info` that fail; 3 million states up to symmetry | one goroutine per base; readable means a file |
| `SyncWorker_use` | 1 call at a time of all six kinds, 1 change, reads of `sync_info` that fail; 336 thousand states | follow-ups, snapshots kept, freshness, eviction |
| `SyncWorker_QueriesAnswered` | 1 call | a query may wait for ever |
| `SyncWorker_ReadSnapshotTrue` | 1 query, restarts | a partial snapshot is called complete after a restart |
| `SyncRun_pages` | 3 tables of 1, 2, 1 pages, 2 goroutines, 1 reader, failing disk; 22 thousand states | hands, completeness, termination, refinement of SnapshotRun |
| `SyncRun_TimeoutEndsRun` | 1 table | a run may outlive its deadline for ever |
| `TokenManager_flight` | the loop and one tool call, 2 rotations; 13 thousand states | type, rotated token stored, refinement of TokenCustody (no token presented twice, true reauthorization), followers answered, dead token noticed |
| `McpServer_grants` | 2 client ids, 2 logins, 2 handlers, 3 pairs of tokens per login, 1 session with 1 stream; 131 thousand states up to symmetry | one chain per login, refinement of TokenChain, held tokens work, bearers and owners of sessions have Airtable tokens, a stream keeps its session |
| `AirtableClient_calls` | 2 calls of 1 user, 1 base or none, bucket of 1 token per 2 ticks, Retry-After below and above the cap; 39 thousand states | true answers, distance in the window, rate of the bucket, Retry-After kept, calls end |
| `Tools_calls` | tables of 1 and 2 pages, 3 runs, 2 deletions, 2 batches of statements, 4 mutate and 4 manage_schema requests; 741 thousand states; every three of 24 plain names | true completeness, true "not found", true truncation, names that are given out resolve |

Bounds, and why they are enough to see the cases. Two requests are two
approvals, an approval against a rejection or an expiry, or one against the loop
(a third actor). Two batches give a first, a last and a failing second one. The
clock passes expiry, deadline and recovery window, with every order of them that
`TimingAssumption` admits at that scale. The theorems hold for any number of
requests, batches and times. Two calls and two worker objects are the successor
of a dying worker and a call that still holds the old one. Two changes cannot be
told from one as far as "newer than the run's start" goes. Three tables on
two goroutines make a queue longer than the set of goroutines; one table with
two pages makes a second page compete with a first one of another table.
Two callers of the token manager are a leader and a follower, or one that has
read the row before the other's refresh ended; two rotations make the first
token reusable after the second is there. Two handlers present one code or
refresh token at once; with three pairs a chain is two refreshes long. Client ids and
handlers are symmetric there, logins are not, since one of them is chosen as
a default value; the properties of the run need no liveness, so the symmetry is sound. Two slots
of calls that never stop make a queue of more than two reservations, because a
cancelled place stays taken and `MaxQueue` lets the next call queue behind it;
it also bounds windows and buckets, since calls that are begun and cancelled for
ever without time passing would let both grow for ever.
A table of one page and one of two make first pages of all tables with one table
incomplete; three runs are one that fails in the open, one that completes there
and one with a staging file. A limit of one puts the four batches' statements below,
at and above it; statements come without a limit, with their own and with a comment at
the end. Three names at a time are a name, another of the same base and one that
is called like the suffixed form of the second; the list has every kind of token
at every place where the code treats it differently.
Deadlock is checked in all passing runs; only `SyncRun_TimeoutEndsRun`, whose
point is a run that hangs, turns it off.

### Fairness

- `Approval`: a request that was started goes on (WF; the net/http goroutine
  runs), the clock advances, and each statement of the expiry loop succeeds
  eventually if it can be tried again and again (SF: the loop retries on each
  tick, and Postgres does not fail every time). Clients, Airtable and the
  execution itself are not assumed to succeed.
- `SyncWorker`: goroutines and calls go on, times pass; the steps of a run that
  need Airtable and the disk succeed eventually if retried for ever (SF). No
  call ever has to be made, and the client may give up at any time.
- `SyncRun`: the goroutines go on, HTTP calls return (they have a timeout), reads
  end. The coordinator is strongly fair, since Go's `RWMutex` lets a waiting
  writer in before later readers.
- `TokenManager`: calls go on, the loop ticks and the tokens age; what is tried
  again and again (a statement, a call of Airtable) does not fail for ever (SF: the
  loop retries each minute). `<>[][~Crash]_vars`: the process stops crashing at
  some time; without it every attempt could be cut short.
- `McpServer`, `Tools`: none, their properties are about safety only.
- `AirtableClient`: timers fire, and Airtable answers or the client's timeout of
  30 s passes. Other calls are free to crowd the window; no call need be made.

## 4. Proofs

Every safety property that a run checks is also a theorem, for all values of the
constants that satisfy the named assumptions. So are the four refinements. In each
proof module one lemma takes each action, or each group of actions, through the parts of the inductive invariant it can disturb, and the
temporal steps come last. The properties are hardly ever inductive alone; what
follows says what was missing.

**Approval** (`OpsAssumption`, `TimingAssumption`). `AtMostOnce`, `TrueResults`
and `NeverReaped` follow from `ApprovalInv` (`InvCorrect`), which adds
`OwnershipInv` (at most one request executes an operation, and only after it has
left `pending_approval`), `ProgressInv` (what was sent follows from the executor's
position), `ResultInv` (a result is recorded only when nobody executes) and
`TimingInv` (an execution starts at most `ClaimLag` after `expires_at`, hence ends
before the recovery window does). Truth of results needs `ResultInv` because
a rejection or expiry that lands late clears the result. In the code StaleWindow
is `staleExecutingWindow`, chosen larger than the timeout; ClaimLag is not a constant
of the code but the few statements between check and claim, and `NeverReaped`
says how much slack there is. `ServiceImplementsLifecycle`: with the
phase of an operation `running` exactly while a request owns its execution, each
action is a step of `OperationLifecycle` or a stutter; ownership and progress
are what makes a send the next one in order.

**Sync manager.** `OneWorkerPerBase`, `ReadableFile` and `FollowUps` follow from
`TypeInv` (type, a call under way holds a worker object, nothing runs before the
restore) and `WorkerInv`: a worker whose flags or program counter say so has a
file, and a follow-up that was asked for is flagged, or the run under way has
begun after it, wherever in `run()` the worker is. `SnapshotsKept` is the action
property that a complete snapshot is only replaced by a complete one that is not
older. It holds of every kind of call and has no hypothesis; where the code does not
keep to it, the property says so, through `trouble`: while a sync writes that has
emptied a complete file because it could not read its `sync_info`, and while a mutation's SyncBase and a run of
the worker write one file (the worker's first page may then land in the file that SyncBase
has finished). Both are deviations, section 5. Its invariant is `SourceInv` (nobody
includes a mutation that has not been made, one SyncBase runs at a time) and `CalmInv`:
without trouble a run and a SyncBase never write together, and neither writes
into a complete file unless it has it staged. Two writers without trouble cannot come
about, because whoever begins second finds the first and the trouble begins there.

**Sync run.** `PagesInOneHand` and `CompleteSnapshots` follow from `RunInv`:
`TypeInv` has the shape of a goroutine's state and the capacity of the channels,
`FileInv` relates staging, active file and the coordinator's position, `PagesInv` counts
places: the rest of a table that is not finished is with one goroutine, in one
channel, or with the coordinator. That neither channel overflows is this count
again, one page per table. `RunImplementsSnapshotRun` needs only type and `FileInv`.

**Token manager.** `RotatedStored`, `NoReuse` and `TrueReauth` follow from
`TokenInv`, which adds `FlightInv` (whoever leads is the leader in `inFlight`, so at
most one caller is in the critical section) and `SectionInv` (the leader refreshes
the token in the row, a caller in `mark` was refused because the chain is revoked,
one in `put` holds Airtable's last token, no stored token is newer than Airtable's, and requests are on their way unnoticed
only after a fault). A refused token was then never the good one of a faultless
history, and a second rotation cannot start before the first is stored.
`ManagerImplementsCustody` (with `TokenCustody`) says where the good token is at every
step, after faults too. It needs `CustodyInv`: what a caller in `put` has is newer than
the row, so that storing it never puts an older token over a good one; a request that is
on its way unnoticed has no newer token than the row, so that what it does to the
chain is a loss or a second presentation; and whoever is marked has a dead chain.

**MCP server** (`LoginsAssumption`: there is a login). The composition is proved
as a whole: `LoginHasOneChain`, `HeldTokensWork`, `BearersHaveAirtableTokens` and
`StreamsKeepSessions` follow from `ServerInv`. `ChainInv`: the right to obtain a
login's next pair is in one place, be it the pending authorization, the code, the
handler that has consumed either, or the last refresh token; consuming before issuing
is what keeps it there. `HeldInv`: a handler that is about to reply has its pair
stored, expired or used already. `OwnersKnown`: the rows of users and of
airtable_tokens precede everything that leads to a bearer, and a session has an
owner who passed RequireBearer. `SessionsInv`: a stream's session was touched
less than a heartbeat ago, and ids of sessions are not given out twice.
`ServerImplementsTokenChain` takes each action to a step of `TokenChain`: the action of
a handler moves the login that it works for, and by `ChainInv` no other place
has a claim on that login, so that the stage of each other login stays. That a new
pair is the next one, which no earlier handler has issued, is `NumbersInv`
(`NumbersCorrect`): the pairs that were issued for a login before a given one are those
with smaller numbers, whatever handlers failed in between.

**Airtable client** (`CallsAssumption`, `BasesAssumption`, `LimitsAssumption`,
`ScaledAssumption`). `CallsTrue`, `PlacesApart` and `RetryAfterIsKept` follow from
`CallsInv`: a call that may be sent again has not been carried out, a place in the
window that somebody waits for lies an interval before the next free one, and
what is left of Retry-After is no longer than the sleep. `TypeCorrect` has the
bound on windows and buckets: each attempt that is yet to come takes one place, so
`window[u]` plus an interval for each of them stays below `MaxWindow`, and the
same for buckets; cancelled calls leave their places taken and give up their
attempts. `ScaledAssumption` says that the scaled delay is a natural number: the
provers do not know powers, and nothing else about it matters.

`RateKept` follows from `RateInv`, one conjunction per base. Counting what was sent is
not enough: a token given back by a cancelled call may be taken again at
once. `SoonInv` bounds what was sent together with the calls that will be sent within
x ticks, for every x, and `LaterInv` the calls that are due between any two times; time
passing turns the second into the first. Both hold for a new reservation because
every request sent or waiting is covered by the debt of the bucket (`SpentInv`, `LateInv`).
`ApartInv` says why CancelAt is safe: reservations that are waited for are a token
apart, and the last one waits for `lastEvent`, so only that one is given back and
nobody else needs its token. `sends[b][a]` counts the requests of the last a ticks,
so that the rate is stated without a sum.

**Tools** (`PagesAssumption`, `LimitAssumption`, `ListsAssumption`,
`TablesAssumption`). `PartialAnswersTold` follows from `SnapshotsInv`: a file that
is complete stays so, or is replaced by one that is; status and staging
presuppose a complete file; who was told so has read nothing before. For
`MissingRecordsMissing` it says how the file may differ from the schema that was
read of it: with the same run's number it only has more pages, and every run
that empties or swaps the file has a larger number. `LimitResultTrue` has limit and
truncation, for every count.

**Names** (`AlphabetAssumption`: the tokens differ; `NamesAssumption`).
`OwnNameResolves` needs no state: `PlainNamesResolve` has it of every list
of names that do not begin or end with an underscore, white space apart, of any length and over any alphabet. Each DuckDB name
is clean: tokens of the alphabet, no two underscores together, no number in front.
Sanitising makes any name clean (`SanitizeIdentifierDuck`), makes of a name whose alias
is clean and keeps its ends that alias (`SanitizeIdentifierKeeps`: the white space before and behind
becomes one underscore each, which the trim takes away), and the suffix loop ends with a name
that nobody has (`EmitProperties`; more candidates than names emitted). So whoever is
called in Airtable like another one's DuckDB name has got a suffix because of that
one; it comes later, and its own DuckDB name is that name and more, which the
collation puts behind (`OwnerFirst`, `BeforeLonger`). `NamesApart` and `MeansAtMostOne`
are the two other facts: no two DuckDB names are the same, and a name means one table
and one field at most, because the order of the tables is total on them.

What a recursive function computes is an induction over its domain. The theorem on
induction takes a predicate, which the provers cannot instantiate; the lemma
`Induction` has the same of a set, and is proved by counting: a set of numbers that
has 0 and is closed under the successor, but lacks a number m, would be mapped one to
one into a smaller set.

**Batches.** For any number of records, no batch of execute is empty or longer
than ten (`BatchSize`) and every record is in exactly one
(`EveryRecordInOneBatch`): two starts that are multiples of ten and reach the
same record are less than ten apart.

Only model-checked: every liveness property (`EveryOperationResolves`, `EventuallyFresh`,
`EvictedWhenIdle`, `RunEnds`, `FollowersAnswered`, `DeadTokenNoticed`, `CallsEnd`):
liveness under fairness is out of the prover's reach.

The run of `SnapshotKept` has one call at a time, of every kind; that the two
writers may meet with more calls is covered by the theorem alone.

`EventuallyFresh` and `EvictedWhenIdle` state their exceptions too. A base in use gets
fresh once syncs have ceased to empty a complete file that they could not read: a
disk that fails so for ever keeps it from that. An idle base always loses its
worker; it loses its file if each SyncBase that a mutation ran for itself is
followed by the expiry of a worker. A file that SyncBase fills while or after the
last worker leaves has nobody to remove it (section 5), and one mutate is enough for
that: it waits, the TTL runs out, the worker removes the file, and SyncBase makes another.

## 5. Deviations

Where code and documents disagree. The first four have a run that shows it.

- **Rejected or expired, yet changed.** Reject (`approval/service.go:605`) and
  expireOperation (790) overwrite the status without comparing it; SPEC.md:810-816
  promises "No changes made". `Approval_NoApprovalNoChanges`.
- **A query may wait for ever.** It polls a worker that has left
  (`sync/manager.go:766`) after the TTL ran out between activation and wait, or
  before the first touch of a new worker; SPEC.md:1224. `SyncWorker_QueriesAnswered`.
- **A partial snapshot is called complete after a restart.** restoreFromState
  (`sync/manager.go:671`) goes by the row's `last_synced_at` and the existence of the file,
  which a run may have left half full; SPEC.md:354. `SyncWorker_ReadSnapshotTrue`.
- **A run may hang past its deadline.** All goroutines may drop their results
  when it passes and the coordinator's receive (`sync/service.go:481`) has no
  case for it; comment at `sync/manager.go:520-522`. `SyncRun_TimeoutEndsRun`.

Seen while modelling, without a run of their own:

- The terminal status is written under the execution's own deadline
  (`approval/service.go:560`): after a timeout a partial success ends as `failed`,
  against SPEC.md:1229.
- A row may enter `executing` after `expires_at` (528), which the comment at
  `db/postgres.go:557` excludes; the recovery window covers it (`NeverReaped`).
- A touch between the decision to leave and the removal loses the file of a
  base in use (`sync/manager.go:551`), against SPEC.md:633-635.
- A call that asks for a sync may get the error of the previous run, because
  `lastError` stays set until the next run starts (776), although a manual
  request "always runs immediately" (472).
- The counters that mean "sampled" are reset at the start of a second run on an
  incomplete file (414), so list_schema does not wait for first pages then;
  compare `sync/manager_test.go:322`.
- Two syncs of one base: SyncBase takes lockSync (`sync/service.go:160`), the run of a
  worker does not, so a mutate that finds no file and a new worker write the same
  file; SPEC.md:648. With two mutations TLC finds the worker's first page landing in
  the snapshot that SyncBase has completed (25 steps). It is `overlap`, an exception in
  `SnapshotKept`.
- A sync that cannot read the `sync_info` of a complete snapshot does not stage: it
  empties the snapshot in place (`sync/service.go:695-698`), against SPEC.md:671. It is
  `unread`, an exception in `SnapshotKept` and `EventuallyFresh`, and a `direct` run of
  `SnapshotRun`, which `DiskMayFail` allows. `Tools` assumes it away: a query may be told
  "complete" and read such a file.
- More than five requests per second and base: the bucket of `sync/airtable.go:31-32`
  holds four tokens and gains four each second, up to seven requests within one
  second. SPEC.md:1193 promises "5 requests/sec per base" by "a global rate limiter";
  there are two clients besides, each with its own. What does hold is `BaseRate`.
- A file created by SyncBase (`sync/service.go:219`) has no worker and stays until
  a restart; SPEC.md:635. It is the exception in `EvictedWhenIdle`.
- When the first rename of the swap fails the active file is removed before the
  second (721), which may fail too: the complete snapshot is lost, against
  SPEC.md:672-673 and 1223.
- markActiveSyncFailed writes the active file without the write lock (703);
  comment at 376-377.
- SPEC.md has restore before sweep; the code sweeps first.
- A refresh of MCP tokens is not atomic: the old token is deleted in one statement
  and the new pair stored in two others (`oauth/handler.go:531`, 570), and the client id
  is compared after the deletion. A failure in between logs the client out;
  SPEC.md:107 says "atomically deletes ... and issues".
- Before its critical section a refresh runs under the context of the caller that
  leads it (`oauth/token_manager.go:140`): when that client goes away, all followers
  get its cancellation error, although their own calls are alive.
- A call passes the user's window before it waits for its base
  (`sync/airtable.go:625`), so calls released by several bases at once may exceed
  the "50 requests/sec per user token" of SPEC.md:1194.
- An answer 429 delays only the call that got it; other calls for the base go on,
  against SPEC.md:1196.
- A mutate may call a record "not found" that is merely not synced: TableComplete is
  from the schema, and when the run after a failed one empties the file before the rows
  are read, a complete table has none (`approval/service.go:263`, 312). SPEC.md:460 has
  this answer for complete tables only. It is the exception in `NotFoundIsTrue`.
- An answer `records_not_synced_yet` may carry a status that says complete: the status
  is asked for after the schema was read (`approval/service.go:267`).
- Names with an underscore at an end: tables "T_" and "é" are called `t` and `t_`, and
  `t_` then means the first; a field "_airtable_id" (column `airtable_id`) is found
  under the column name that a field "ID" has got. White space around such a name
  changes nothing ("T_ "). `OwnNameResolves` excludes them (`Plain`).
- A name that means two tables or fields gets the first of them
  (`approval/service.go:1009`, 1026), where SPEC.md:420 has an error with suggestions. The
  same line has fields sent by their Airtable ids; the code sends their names (349).
- A statement that ends in a line comment swallows the appended LIMIT
  (`tools/sql.go:149`): all rows are computed, and then cut to the limit.

## 6. Not modelled, and the plan

Not modelled because nothing changes state or only text is produced:
configuration, health, landing page, logging, rendering of results, the frontend.
SQL execution inside DuckDB is one step.

The previews, suggestions and the scanner of SQL are text; the request limiter only
refuses. Old file formats and the conversion of values are data of the DuckDB store.

Planned, in this order:

1. Composition: an approved mutation, its follow-up sync and a query that then
   sees it.
2. The request limiter, the expiry of access tokens, two HTTPClients sharing one
   base, and graceful shutdown.
