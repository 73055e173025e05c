# Verification of nestjs-audit-log

TLA+ models of the parts of `@nestarc/audit-log` whose correctness depends on the order in which
things happen: the durable audit stream, the manual transaction helper, automatic tracking in both
consistency modes and the request it runs in, the maintenance of the audit table on PostgreSQL and
SQL Server and its paged queries. TLC checks them on small instances; TLAPS proves every safety and
action property the passing runs check for every value of the constants, and two refinements. Paths
below are relative to the repository's `src/` directory.

## 1. Inventory of the system

| Component | State it keeps | Operations | Interacts with |
|---|---|---|---|
| Durable stream runner `stream/audit-stream.ts`, `postgres-store.ts`, `http-sink.ts`, `provider-sinks.ts` | rows of `audit_log_stream_checkpoints` and `audit_log_stream_dead_letters`; per run: checkpoint, high watermark, page, attempt | `runOnce`, `load`, `save`, `deliver`, `write` | scan (async generator), sink (HTTP, object store), retention through `requiredCheckpoints` |
| Forward scan `services/audit-scan.service.ts` | cursor and high watermark of one generator | `scan`, `exportCsv` | `audit_logs`; concurrent commits and prunes |
| Retention `services/audit-maintenance.service.ts` | none of its own; removes rows or partitions | `prune` | stream checkpoints, the append-only trigger or rule |
| Manual transaction helper `services/manual-audit-transaction.ts` | `active`, `acceptingWrites`, pending calls, first failures | `withManualTransaction`, `scope.log` | Prisma `$transaction`, `AuditService.log` |
| Automatic tracking `prisma/audit-extension.ts`, `prisma/audit-extension/` | async-local scope (`client`, `failed`), lifecycle suppression tokens, warn-once sets | `withAuditTransaction`, `withAuditLifecycle`, hooks for the single, bulk, returning and nested operations | PostgreSQL row locks, the caller's query, audit INSERT, request context |
| Query service, CSV, cursors | none | `query`, `getById`, `exportCsv` | `audit_logs` |
| Schema and partitions `sql/` | database catalog | `applyAuditTableSchema`, `ensurePartitions` | retention |
| SQL Server `sql/sqlserver.ts`, `sql/sqlserver-maintenance.ts` | database catalog | `applyAuditTableSchema`, `applySqlServerAuditReadIndexes`, `inspectSqlServerAuditStorage` | whoever else may change the catalog |
| Request context `middleware/`, `services/audit-context.ts`, `interceptors/` | async-local actor, `noAudit`, metadata, reason | actor extraction, decorators, `runAs` | every write |
| Diff, redaction, validation, configuration | none | pure functions | every write |

What is hard, and what makes each part correct:

* **Stream.** Rows become visible in commit order but are scanned by `(created_at, id)`. A run may
  crash at any `await`, two runs may overlap, a sink may store a body and fail to say so, a batch
  may be rejected for good, retention may run at any time. Correct: nothing at or below the durable
  checkpoint is lost, except rows committed behind the read frontier (the limit README line 371
  states); a durable window is finished; retention never removes what is still to be delivered.
* **Manual helper.** Log calls may be unawaited, caught or late; Prisma may roll back on a timeout
  while the callback runs. Correct: a transaction commits with the evidence of every accepted call
  or not at all; nothing outlives a reported success; nothing is accepted after the helper settled.
* **Automatic tracking.** The preimage is read, locked and read again while other transactions
  change the row; an audit failure may be caught by the callback. Correct: writes and audit rows
  commit together; the trail of a row is an exact history of it.
* **Hook policies.** A hook passes up to five places where auditing may fail, before and after the
  caller's query; in one mode each must reject the operation, in the other none may. Operations run
  in guards, handlers, `runAs` and lifecycle callbacks, each with its own store. Correct: in
  `atomic-required` nothing changes for good without its records; in `best-effort` nothing fails for
  the sake of auditing and no gap is silent.
* **Request context.** The store is created before the guards, the actor may be known only behind
  them, the interceptor may be bound to a route never, once or twice. Correct: a handler starts with
  its actor known, a row names the actor its operation was called with, `@NoAudit()` silences its
  route and nothing else.
* **Schema, partitions and retention.** Every statement of `applyAuditTableSchema` commits by
  itself; two installations, two prunes or an installation and a prune may interleave; a prune may
  fail between partitions; the guard trigger is looked up outside the transaction that disables it.
  Correct: no row above the cutoff goes, enforcement is on once the calls are over, reports are
  true, a month that was ensured has its partition.
* **SQL Server storage.** Each statement is a look at the catalog and, if it says so, DDL, with no
  lock in between; two installers and an administrator may interleave; the inspection is one query
  whose subqueries see different moments. Correct: a call that resolves was effective, a table that
  does not fit is left alone, a clean report is true.
* **Queries.** A walk is many calls; between them rows commit, retention runs and the tenant
  context changes; a page and its total are two statements. Correct: nothing twice, nothing
  skipped, nothing of another tenant, a total that was true at some time of the call.

`PROJECT.json` lists every component with its status, and under `hazards` each place where one of
these things bites.

## 2. Modules

| Module | Models |
|---|---|
| `AuditStream` | `runOnce`, the scan, checkpoint and dead-letter tables, sinks, committing applications, guarded `prune` |
| `AtLeastOnceFeed` | abstract specification: what a durable at-least-once tailer promises over an ordered source |
| `AuditStreamProofs` | theorems about `AuditStream`, its windows and its refinement of `AtLeastOnceFeed` |
| `ManualTransaction` | `runManualAuditTransaction` and the Prisma transaction around it |
| `ManualTransactionProofs` | theorems about `ManualTransaction` |
| `TrackedWrites` | `withAuditTransaction` and the `create`, `update`, `upsert`, `delete`, `deleteMany` hooks over READ COMMITTED transactions |
| `AuditTrail` | sequences of audit rows: which are an operation's, which account for a row's value |
| `AuditedTable` | abstract specification: a table and a trail that only change together |
| `TrackedWritesProofs` | theorems about `TrackedWrites` and its refinement of `AuditedTable` |
| `RequestContext` | middleware, guards and interceptors of one request, actor extraction, `@NoAudit()` |
| `AuditedRequest` | `RequestContext` with the policy of every hook in both consistency modes, lifecycle callbacks and `AuditService.log` |
| `AuditedRequestProofs` | theorems about `AuditedRequest` |
| `AuditTable` | `applyAuditTableSchema`, `ensurePartitions` and `prune`, statement by statement, on one table |
| `AuditTableProofs` | theorems about `AuditTable` |
| `AuditPages` | `AuditService.query` and `getById` as a caller uses them, on PostgreSQL and SQL Server |
| `AuditPagesProofs` | theorems about `AuditPages` |
| `SqlServerStorage` | the two SQL Server installers, an administrator and the storage inspection |
| `SqlServerStorageProofs` | theorems about `SqlServerStorage` |
| `MCAuditStream`, `MCManualTransaction`, `MCTrackedWrites`, `MCAuditedRequest`, `MCAuditTable`, `MCAuditPages`, `MCSqlServerStorage` | constants for TLC |

`AuditStream` composes five things that interact through shared tables: any number of runners, the
scan inside each of them, the sink, the application's commits and retention. The other modules stand
beside it. `AuditedRequest` extends `RequestContext`, so the two run as one system: operations read
the store that middleware and interceptor write. `ManualTransaction` and `TrackedWrites` write the
rows it reads, which is its action `Commit`; `AuditTable` opens up its action `Prune`, which is one
step there, and `AuditPages` reads the same table in the other direction.

### AuditStream

A row is its rank in the scan order, a number in `1..NPos`; `TsOf` gives its `created_at`, which
several rows share. `0` is a null cursor. `log` holds the visible rows. `stored` is the checkpoint
row, `sink` and `dlq` map a batch id (first and last row) to the rows kept under it.

`pc[r]` names the `await` a run is suspended in, so every point where a process may die or another
actor may step in is a state:

| Action | Code |
|---|---|
| `Load`, `ResetWindow` | `load()`, the normalisation of an equal checkpoint and high watermark, and its save |
| `ResolveWatermark`, `ResolveEmpty` | the one query for the upper bound of the run |
| `ReadPage`, `ReadEmpty` | the page query with `LIMIT batchSize + 1` |
| `PersistWindow` | the save before the first delivery of a new window |
| `DeliverAck`, `DeliverRetry`, `DeliverExhausted`, `DeliverTerminal` | the outcomes of one attempt; a retryable failure may have reached the sink |
| `DeadLetter` | `INSERT ... ON CONFLICT DO NOTHING` |
| `Advance` | the state after the acknowledgement, its save, and the next page or the end of the run |
| `Interrupt` | any rejection, an abort, or the death of the process |
| `Commit`, `Prune` | the environment |

`late` is a history variable: the rows committed behind the stored checkpoint or behind what some
run has already read, until a run delivers them after all. It is exactly the exemption the
README grants; with `InOrder` (an ordered source) it stays empty, which `NothingLate` in the
proof module establishes. A zombie, a run that its host believes dead, is one more element of
`Runners`.

### ManualTransaction

`host` is the promise the helper returned, `body` the function given to `$transaction`, `tx` the
database transaction, `call` the progress of each `scope.log()`; `active` and `accepting` are the
two flags of the scope. Three clocks that the code does not synchronise are separate actions:
the callback (`CallbackEnds`, `Drain`), the database (`Commit`, `RollBack` at any time) and the
helper (`Settle`, which may report a failure although COMMIT succeeded). A log call made by work
that outlives its callback is `Log` with `body[s] # "callback"`. Failures are sets of scopes, not
values, because JavaScript may throw `null`; the mutant of `ObserveFailure` keeps the value.

### TrackedWrites

`table` holds the committed rows, `newest` the newest version of each, `lock` the owner of a row. A
statement sees the committed rows and those of its own transaction (`View`). A hook is a sequence of
statements: `PreReadOne` or `PreReadMany`, `LockRow`, `RefreshRow` (per row for `deleteMany`),
`SnapshotStmt` and `ApplyStmt` for the caller's query, `PostRead`, `InsertRecord` per record.
`ApplyStmt` is PostgreSQL at READ COMMITTED: the rows are those the statement's snapshot selected,
and the predicate is evaluated again on the newest version once the row is locked. `AuditFails` is
`reportAuditError`: it marks the scope, and the callback may catch it; `Return` is the check of the
mark after the callback. A failed statement aborts the transaction until its end.

`Sequential` says whether the callback awaits each operation before it goes on, `OuterClient`
whether it may call the outer audited client instead of its `tx`. The passing run has the first and
not the second, the usage the documentation recommends; `tracked_outer_client` shows what the second
does. With `Sequential` FALSE a write still in flight when the callback returns may commit without
its audit row, because the helper waits for the callback only; the repository promises nothing for
that usage, so no run is spent on it. Rows are keys with opaque contents. All locks a statement
needs are taken together; deadlocks, which PostgreSQL ends by failing one statement, are covered by
`QueryFails`, and a blocked `LockRow` may always end in `AuditFails` or `RollBack`.

`AuditedTable` is what this promises an outsider. Its variables are the committed rows, their
history, and the rows still known to be `exact`; one step is one transaction, which adds to the
history what leads, for every exact row, from the value it found to the value it leaves.
`TrackedWrites` implements it with `rows` its `table`, `history` its `trail`, and `exact` the keys
that were never changed without their lock (`ChangedUnderLock`: a `create`, the creating branch of
an `upsert`, and an update by other rows than were captured leave that set). A commit is a step,
all that hooks and statements do before it is a stutter.

### RequestContext and AuditedRequest

A `setup` is one configuration: the stage of the extraction, whether the route is excluded from the
middleware, whether the execution context is HTTP, how often the interceptor is bound to the route,
the decorators and the options of the extension. `store` is the `AuditContextStore` of the request.

| Action | Code |
|---|---|
| `Use`, `ActorExtracted` | `AuditActorMiddleware.use`; `actorExtractor` answers, or throws and is reported |
| `GuardsPass`, `GuardsReject`, `Intercept`, `ActorReady`, `Handle` | NestJS and `AuditInterceptor.intercept`, which shares one extraction between its bindings |
| `StartBestEffort`, `StartAtomic`, `StartLog` | what a hook or `log()` checks before it does anything: `shouldSkip`, nested writes, the actor, the transaction, unsupported operations |
| `PreRead`, `Overflow`, `QuerySucceeds`, `QueryFails`, `PostRead`, `InsertRow` | the steps of the hooks; rows and locks are the subject of `TrackedWrites` |
| `AuditFails` | `reportAuditError` at any of them: `Tolerate` in best-effort, rejected and marked in `atomic-required` |
| `StartCycle`, `EndCycle` | `withAuditLifecycle`, alone or from within the query of an outer delete, whose record it may suppress |
| `Begin`, `Commit`, `RollBack` | `withAuditTransaction` or any other interactive transaction |

`op[o]` records what an operation was called with (`call`, `from`), the snapshots it took (`caller`,
`silent`, `guard`) and how far it has come; `left` counts the rows still to be written, from the
last to the first. `told` says that `onAuditError` was called for it. A nested payload is the path
of relations to the change, because the walk of `nestedWriteRelationsInData` either meets a tracked
model on the path or does not.

### AuditTable

The committed catalog is `layout`, `trigger`, `rule`, `attached` (months that have a partition) and
`archived` (months whose partition was detached and still exists under its name). Time is counted
in half months and a row is the instant it is stamped with: that is enough to tell a row's month,
to put a cutoff inside a month, and to let a transaction begin in one month and commit in the next.

| Action | Code |
|---|---|
| `StartInstall`, `CheckRelkind`, `ExecStatement`, `InstallFails` | the statement list, the `relkind` check, one statement at a time, each its own transaction |
| `StartEnsure`, `LookPartition`, `CreatePartition`, `EnsureFails` | the plan made from the clock, `to_regclass`, `CREATE TABLE ... PARTITION OF` with a tolerated duplicate |
| `StartPrune`, `ListPartitions`, `RemovePartition`, `RemoveFails` | the layout, the list of partitions, one `DROP` or `DETACH` at a time, failed or unanswered |
| `LookTrigger`, `LookRule`, `Disable`, `Delete`, `Enable`, `CommitPrune`, `PruneFails` | the two look-ups outside and the statements inside the transaction of a flat prune |
| `Insert`, `AppDelete`, `Tick` | requests, the application, the clock |

A flat prune sees the committed catalog and its own DDL (`RuleOn`, `TriggerOn`): what it has
switched off is off for itself alone, and its lock keeps every writer out until it ends (`DdlFree`,
`DmlFree`). The mutant `DisableOutside` shows what the transaction is for. `PruneComplete` leaves
out schedules with an installer of rule enforcement: a rule created between a prune's look-up and
its `DELETE` turns the `DELETE` into nothing, and the prune succeeds having removed no row.

### SqlServerStorage

`storage.part` gives the state of each catalog entry the code looks at: absent, as documented
(`good`), disabled or untrusted (`off`), another definition under the name (`foreign`), and for
triggers and columns the few states in between. `storage.unsound` are the columns that hold text
that is not JSON. The two programs are the statement lists of `getSqlServerAuditTableStatements` and
`getSqlServerAuditReadIndexStatements`; `Look` is the `IF` of a statement (`Wanted`, `Throws`),
`Act` its DDL (`Accepts`, `Results`), with room for everyone else in between. `Lose` is a lost
connection. An administrator may `Change` a part, `Drop` the table or write an unsound row.
`Inspect` is the beginning of the inspection, `Read` each subquery in any order. `clean` and `fit`
of a call, `faulty` and `sound` of a report are history variables: what the call found at its start,
what has been true all along.

Two things the inspection does are worth knowing. `FOR JSON PATH` over no rows is NULL, which
`parseRows` rejects (`sql/sqlserver-maintenance.ts:179-184`, `251-255`), so a table without a single
trigger, check or index is reported as `INSPECTION_FAILED` and not by its missing parts (`NoRows`).
And columns beyond the documented ones and the bodies of triggers are not compared (`Passes`), which
the report says itself with `enforcementVerified: false`.

### AuditPages

`table` holds the rows by id, `Stamp` their `created_at` with ties. `walk` is a caller that asks for
page after page, by cursor or by offset; `ReadEntries` and `ReadCount` are the two statements of one
call, in either order, with commits and prunes between them. `Below` is the cursor condition of the
provider, which `config` picks. The tenant resolver may give another answer, or none, at every call;
`Resolve` has the cases of `resolveQueryTenantId`. `first`, `scopes`, `before` and `past` are
history variables: what was there at the first page and when the call began, and the scopes used so
far.

## 3. What TLC checks

| Run | Result | Shows |
|---|---|---|
| `stream_late` (`AuditStreamLate.cfg`) | pass | one runner, rows in any commit order, no dead-letter store, retries, restarts, prunes: `NoSilentLoss`, `PruneKeepsUndelivered`, `WindowPersistedBeforeDelivery`, `WindowResumable`, `CheckpointMonotone`, and, under `FairSpec`, `EveryRowHandled` and `WindowCloses` |
| `stream_ordered` | pass | two overlapping runs, conditional-create sink and dead-letter store over an ordered source: whole batches, and the refinement of `AtLeastOnceFeed`, a checkpoint with everything below it delivered |
| `stream_dead_letter` | violation | a late row inside a dead-lettered batch is dropped by `ON CONFLICT DO NOTHING` |
| `stream_overlap` | violation | two overlapping runs and a prune leave a window that can never be closed |
| `manual_transaction` | pass | all six properties of the helper, one of them liveness |
| `tracked_writes` | pass | `CommittedTogether`, `TrailReplays` and the refinement of `AuditedTable` with two transactions and three operations of all kinds |
| `audited_request` | pass | `AtomicEvidence`, `NoSilentGap`, `BestEffortUnobstructed`, `RowsHonourRequest` for two operations and a lifecycle callback under six configurations |
| `audit_table` | pass | `EnforcementInstalled`, `AppendOnly`, `PruneComplete`, `ReportHonest`, `InsertsRouted` with three maintenance calls of any kind, mode and layout, and prunes of up to two partitions |
| `sqlserver_storage` | pass | `InstallEffective`, `IncompatibleUntouched`, `InspectionHonest` with two installers, one change by an administrator and an inspection |
| `audit_pages` | pass | `PageScoped`, `NoRepeat`, `NothingSkipped`, `TotalBracketed` for a walk through four rows |
| `tracked_outer_client` | violation | a write through the outer client commits although its audit row rolls back |
| `tracked_filter` | violation | `deleteMany` compares counts, not rows |

Each violated run states what a line of the repository's documentation says; `findings` in
`PROJECT.json` quotes it. They are statements about usage as well: with sequential, awaited
operations on the helper's own client the same property holds (`tracked_writes`), and with one run
at a time the window is always resumable (`stream_late`).

**Bounds.** `NPos` is 3 or 4: with `BatchSize` 2 there is a full page, a partial page, a page that
ends on the high watermark and a row that is committed behind each of them; `TsOf` pairs the
positions, so that a prune cutoff can fall between two rows but never between two rows of one
timestamp. `MaxRetries` 1 has a retry and an exhausted budget; the ordered run uses 0 because a
retry there only repeats `Receive`. Two runners are enough for a stale save to follow a newer one; a
third only adds one more stale save. The dead-letter violation needs a batch of three rows, one
committed between the ends. In `ManualTransaction` two scopes give a nested helper and two calls an
awaited one and one in flight. In `TrackedWrites` three operations let one transaction change a row
twice while another changes it in between; three keys exceed `MaxBatch` 2 and give an overflow, one
row is absent at the start for `create` and the creating `upsert`. In `AuditedRequest` two
operations let one fail while the other commits, or one be called from the lifecycle callback that
stands in for the other; six configurations cover both modes and stages, an excluded route, a
`@NoAudit()` route, interceptors bound once and twice, and both answers to an overflow; nine calls
cover every kind of hook, a nested write below an untracked model and beside it, and a write outside
the transaction; `MaxRecords` 2 gives a bulk delete of no row, one row and several. In
`SqlServerStorage` two installers give every race of two calls of either kind; an installer calls
again and again, so lost calls are followed by repeated ones; one change by an administrator
(`MaxChanges`) puts the storage into every state a call may find and falls between any two steps;
`Touched` takes one part of each sort that the code treats differently; `MaxBeside` 1 leaves one
installer running beside an inspection. In `AuditTable` the three calls are drawn from one pool, so
three installers, two prunes and an `ensurePartitions`, and every other mixture occur. `Start` 3 and
`MaxTime` 4 are the end of the second month and the start of the third: a table set up before has
the partitions of months 0 and 1, whose upper bounds are the instants 2 and 4. So a prune that
begins before the month is over removes one partition, and one that begins after it up to two, where
it can fail at the second with the first gone (`ReportHonest` and its mutant are about that), while
the month that `ensurePartitions` or an installer has prepared comes into use. `Cutoffs` are one
inside a month and one at the end of a month. `MaxRows` 1 suffices because no action and no property
relates two rows. Cutoffs are never in the future (section 5). In `AuditPages` four rows with two
timestamps and two tenants give ties across a page boundary, pages of one and two rows, and a row of
another tenant between two of the caller's. The runners, transactions, operations and installers are
symmetric in the runs that declare symmetry, none of which checks liveness.

`CHECK_DEADLOCK FALSE` stands where the calls are bounded and the system really stops when all are
used: `ManualTransaction`, `TrackedWrites`, `AuditedRequest`, `AuditTable`, `SqlServerStorage` and,
when the walk is over and all rows are committed, `AuditPages`. The stream never stops: an idle run
can always load.

**Fairness.** The stream is host-scheduled, one `runOnce` after another, so `Load` is weakly fair.
Every other step of a run is strongly fair: an `await` may reject or the process may die any number
of times, but a step that is reached again and again at last succeeds. That is the assumption under
which at-least-once delivery means anything; a sink that refuses for ever is not covered. Liveness
is checked without a dead-letter store; with one, a refused batch ends there and the run goes on.
The environment (`Commit`, `Prune`) and the faults (`Interrupt`, `DeliverRetry`, `DeliverTerminal`,
`DeliverExhausted`) have no fairness. In `ManualTransaction` only Prisma is fair: it answers within
`maxWait`, ends a transaction within `timeout` and then settles its promise. Nothing is assumed
about the callback or its log calls, which may hang; `HelperSettles` therefore rests on the helper
not waiting for them, and its mutant, which waits, fails.

## 4. What is proved

`AuditStreamProofs`, for any number of runners, rows, batch size and retry budget, any assignment of
timestamps that respects the scan order:

* `TypeCorrect`: types, with no further assumption.
* `Delivery`, `Retention`, `WholeBatch`: `NoSilentLoss`, `PruneKeepsUndelivered` and
  `WholeBatchHandledBeforeAdvance`, under `SafeMode`: the source is ordered, or no store drops a
  body because of its batch id (no dead-letter store and no conditional-create sink). The
  `stream_dead_letter` run shows that the condition cannot be dropped.
* `Refinement`: with an ordered source, `Spec` implements `AtLeastOnceFeed`: `Advance` and the two
  other saves map to `MoveCheckpoint`, the deliveries and dead letters to `Deliver`, everything
  else to a stutter or a `Commit`.

`NoSilentLoss` speaks of the durable checkpoint only and is not inductive: a runner carries a cursor
and a page in memory and will save them later, perhaps after another runner has moved the durable
state. The invariant `IInv` therefore says of every cursor, durable or in memory, that all rows up
to it are handed over or excused (`Cursors`), of a page in flight that the rows up to its end are
on the page or already handed over (`Pages`), and of visible rows that whatever retention has
removed was handed over (`Rows`). With an ordered source, `Exact` adds that a page is exactly the
interval between its ends, that retention removes a prefix, and that a store keeps under a batch
id exactly that interval. That is why dropping a second body under the same id is harmless there
and not in general. `CursorsName` says that a cursor is a committed row, so an ordered commit
always lands above it.

With one run at a time on a stream (`OneRunner`; `stream_overlap` shows that it is needed) and no
condition on the source or the stores: `WindowIsPersisted` (`WindowPersistedBeforeDelivery`),
`WindowIsResumable` (`WindowResumable`) and the action property `CheckpointNeverBack`
(`CheckpointMonotone`). Their invariant `WindowInv` has two parts. `WindowOpen`: the durable pair
has no window, is the equal pair of a finished deployment, or ends at a row that is still in the
log beyond the checkpoint, because a guarded prune stops at the checkpoint. `InStep`: what the run
has in memory is that pair, or is about to become it.

`ManualTransactionProofs`, for any sets of scopes and calls: `TypeCorrect`, `Evidence`,
`NothingOutlives`, `NoNesting` and the action property `NoLateWrite`, all from one inductive
invariant. `ScopeInv` ties the flags to the promise and to the callback, `NestingInv` says a scope
opened inside another waits or runs only after that one has settled, `CallInv` ties a staged row to
its call, `DrainInv` says that a function that has returned has no unsettled call and no failure.

`AuditedRequestProofs`, for any set of configurations, of calls (with payloads of any depth), of
operations and of lifecycle calls, and any `MaxRecords`: `TypeCorrect`,
`AtomicRequiredLeavesEvidence`, `BestEffortTellsOfGaps`, `BestEffortNeverObstructs` and
`RequestIsHonoured`, the four properties of the run. The assumptions are those the modules name: the
names of the places differ, a payload belongs to a single create or update and passes only through
operators that carry data. The properties speak of operations that are over and transactions that
have ended, so `IInv` has to say what is true on the way. `Admission` keeps what the checks at the
start established (an audited hook is on the transaction, has the actor it needs, and runs where
`@NoAudit()` does not reach); `Stage` says what is still outstanding at each `pc`; `Evidence` says
that of the rows `1..Quota` exactly those above `left` exist, staged or committed; `AtomicPolicy`
and `LenientPolicy` say which failures each mode lets through and that an atomic one has marked the
scope, which `TxInv` ties to the commit; `RowInv` says that a row belongs to an audited operation
whose query is over. `ContextInv` and `CycleInv` carry the request's part. That the walk over a
payload finds a tracked model wherever one is (`WalkFinds`) is proved by well-founded induction on
positions.

`AuditPagesProofs`, for any rows, time stamps (equal ones included), tenants, page sizes and
resolver answers, and walks of any length: `TypeCorrect`, `PagesAreScoped`, `NoRowTwice`,
`NoRowSkipped` and `TotalOfTheCall`. Two groups of lemmas carry the proof. The first is about the
order: `created_at` with the id as tie-break is a strict total order (`NewerOrder`), both databases'
cursor conditions are that order (`BelowIsOlder`), the first `n` rows are at most `n` and newer than
every row left out (`FirstRows`), and a row is left out only if the others are `n` (`RowsLeftOut`).
The second is the invariant: a request for a page (`Asked`) carries a cursor that nothing shown is
below, and every row of the first page's time at or above it has been shown; rows that were read
(`Found`) are below the cursor, and what they lack is older than all of them; a returned page
(`Shown`) gives both again with the new cursor. Because a row that has gone never comes back,
commits and prunes keep all of it (`TableStep`).

`TrackedWritesProofs`, for any transactions, operations, values, requests and `MaxBatch` and any
finite set of keys: `TypeCorrect` without a condition, and, when callbacks await their operations on
the client they are given (`Disciplined`; `tracked_outer_client` shows that the second half is
needed), `TogetherForAll` (`CommittedTogether`), `ReplaysForAll` (`TrailReplays`) and `Refinement`
(`ImplementsAuditedTable`). The first of these relates numbers of rows and needs the progress of
every hook: `ScopeInv` (one unsettled operation per transaction, none in one that has returned),
`LockInv`, `StageInv` and `MemoryInv` (what a hook has captured, what its query has changed and what
it is going to record agree at each `pc`, row by row), `RowsInv` and `CountInv` (rows staged and
rows still to be inserted make up the rows changed). The second adds `ChainInv`: in an open
transaction the staged rows of a key lead from its committed value to the value the transaction
sees, or to the preimage of the one operation that has not recorded its change yet. Both hold
because a preimage taken under the lock is the newest version, and stays so until the transaction's
own query. The proof corrected the property: `ChangedUnderLock` must ask of every audit row of a key
that its operation did change that key, since a `deleteMany` whose content filter spares a row
records it if another row makes up the count; three operations were too few for TLC to reach a state
where that breaks the chain.

`AuditTableProofs`, for any calls, modes, layouts, months planned ahead, `Cutoffs`, `Start`,
`MaxTime` and `MaxRows`, with no further condition: `TypeCorrect`, `EnforcementStays`
(`EnforcementInstalled`), `PruneIsComplete`, `ReportsAreHonest`, `InsertsAreRouted` and the action
property `OnlyRetentionRemoves` (`AppendOnly`). `IInv` says of the catalog that no committed state
has the trigger disabled or a row without its partition (`TableInv`); of an installation that each
`DROP` still to come is followed by the `CREATE` that replaces it, and the rule is dropped before
the trigger is created (`InstallInv`), so that deletion is blocked or somebody is about to block it
or has failed (`EnforcementInv`); of a prune what its lock, its own DDL and its lists amount to at
each `pc` (`PruneShape`), that all it will remove is older than a cutoff in the past (`PruneTime`),
that what was there when it began is gone or still on its list (`PruneRows`), and that a flat one
finds it all unless a rule was put in its way (`PruneFinds`, with `RuleGone` for tables whose
installers only use triggers); and that `ensurePartitions` has its months unless they are over
(`EnsureInv`).

`SqlServerStorageProofs`, for any installers, `MaxChanges`, `MaxBeside` and parts an administrator
may touch, with no further condition: `TypeCorrect`, `InstallsForAll` (`InstallEffective`),
`InspectionIsHonest` (`InspectionHonest`) and the action property `IncompatibleIsUntouched`
(`IncompatibleUntouched`). Each statement of a program establishes a fact about the catalog
(`Established`). The argument that any interleaving is harmless is that every DDL of every installer
only `Repairs` the catalog: it makes no part worse, so it undoes no fact another call has
established (`RepairsKeep`) and does not turn a table that must not be modified into one that may be
(`RepairsUnfit`). `Knows` says what a call may rely on after its first statements; a call that began
on an unfit table never gets past the checks at the head of its program (`ChecksFirst`,
`FitAfterChecks`); `ReportInv` says that what an inspection has passed and what is still faulty do
not overlap.

Only model-checked: liveness, that is `EveryRowHandled`, `WindowCloses` and `HelperSettles`.
Fairness and `ENABLED` are beyond the proof system. Every other property of the passing runs is the
statement of a theorem. The four violated runs have none, of course; what they show is where the
conditions `SafeMode`, `OneRunner` and `Disciplined` come from, and that `deleteMany` has no theorem
of evidence per record.

## 5. What is not modelled, and why

* Payloads, redaction, diffs, wire formats, option validation, SQL text: pure functions; a row or a
  batch is a value here.
* Metrics, error hooks and loggers: the code isolates their failures and they change no state.
* The length of a backoff and of a timeout: any delay is an interleaving.
* Of the hooks: metadata, reason, correlation id and the override of the action (carried along,
  never decided upon); the value of the tenant, whose failure is one cause of `AuditFails`;
  `ignoreTimestampOnlyUpdates`; the wording of warnings. In `AuditedRequest` an `upsert` has the
  policy of `update`, a `deleteMany` in best-effort removes what it captured, and the database does
  not abort a transaction by itself beyond `RollBack`; `TrackedWrites` has rows and aborted
  transactions. `onTx` FALSE stands for a call outside the helper's async scope.
* Of the lifecycle calls: one inside another, and one that its caller does not await; the actor that
  application code puts in place of the store's.
* Of SQL Server: object names, the text of definitions, session options other than as one value, the
  safe-integer check of a total. Only the objects an installer names count when a section of the
  inspection is empty.
* Of the schema: enforcement against `UPDATE`, the trigger function and the indexes, which are
  installed by the same loop; object names; direct writes to a partition, which the code warns of.
* Of retention: a cutoff in the future. `prune` accepts any valid date; the model assumes that
  retention is about the past. With a later cutoff a prune may take a partition that is in use, and
  `InsertsRouted` would say nothing of its month.
* Of the queries: filters other than the tenant (conjuncts that do not change between pages) and the
  once-only warning of an unscoped query.

## 6. Plan

Done: every module of section 2 is model-checked, and its safety and action properties are proved;
`AuditStream` and `TrackedWrites` each implement an abstract specification. What remains:

1. `TrackedWrites`, more of the code: requests for a single row by its value and by a unique column
   other than the primary key (`operation-handlers/update.ts`), and an upsert that races a creation
   (`operation-handlers/upsert.ts`).
2. `PerRecordEvidence` of `deleteMany`, which `tracked_filter` refutes by a content filter: for
   which requests and schedules it does hold. Neither the run nor a theorem says; schedules in which
   other transactions delete, create and delete again a captured row need more than its three
   operations.
