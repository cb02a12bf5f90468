# A specification of go-tidb

go-tidb is a typed ORM for TiDB (`orm/`), a deployment tool for SQL migrations
(`migrate/`, `cmd/tidbgo/`) and a set of offline checks. This directory models
the parts of it that have state and actors (invocations of the migration runner
against one database, goroutines that run statements and transactions through
one connection pool, typed mutations and paged reads of one table, relation
reads beside relation writes, measurements on pinned connections) and the pure
rules whose answers people rely on (the form of a relation query, the analysis of
captures, index and schema checks). TLC checks the models on small instances;
TLAPS proves for every instance the safety of the migration runner, that it
implements an abstract ledger, the safety of statements and transactions on a pool,
of comparisons and preparation calls, and the central facts of bulk and relation
mutations.

Paths in this file are relative to the repository (`migrate/apply.go:65`).

## 1. The system

### 1.1 Components

| Component | State it keeps | Operations | Modelled in |
|---|---|---|---|
| Migration runner (`migrate/runner.go`, `apply.go`, `history.go`, `plan.go`, `event.go`) | none in the process beyond one call; the version table, the advisory lock and `schema.sql` outside; the session of its connection | `Apply` up/down, `Baseline`, `Init`, `Dump`, `Status`, `Plan`, `session` | `MigratePlan`, `MigrateRunner`; `Sessions` |
| Migration files and snapshot (`files.go`, `snapshot.go`, `sql.go`) | the SQL directory | load, create the initial file, capture, write | partly, in `MigratePlan` and `MigrateRunner` |
| `tidbgo migrate` (`cmd/tidbgo/migrate*.go`) | the recovery log of one invocation | choose the operation, persist events | partly, in `MigrateRunner` |
| Transactions (`orm/transaction.go`) | the `sql.Tx` of a call | BEGIN, callback, COMMIT or ROLLBACK | `Statements` |
| Statement observation and diagnostics (`orm/statement_*.go`, `server_ru*.go`, `warnings.go`) | the pinned connection and the two observations of a statement | begin, prepare, collect, release, notify | `Statements` |
| Runtime capture and analysis (`orm/runtime_capture*.go`, `internal/runtimecapture`) | scope sequences, the sticky error, the artifact; the accumulators of an analysis | observe; analyse, save a baseline, compare with one | `Statements`; `Captures` |
| Row terminals (`orm/all.go`, `terminal.go`, `scan*.go`, `raw.go`, ...) | open `sql.Rows` | query, scan, close; First, Only, Count, Exists | partly, in `Statements`, `Rows` and `RelationQueries` |
| Single-row, bulk and conditional mutations (`orm/mutation*.go`, `bulk_*.go`, `upsert.go`, `conditional_update.go`, `soft_delete.go`) | the loop over batches, the caller's model | Insert, Upsert, Update, Delete, their bulk forms, UpdateWhere, DeleteWhere | `Mutations` |
| Relation mutations (`orm/relation_mutation.go`) | none beyond one statement | add, remove and clear pairs of a pure junction | `RelationMutations` |
| Preload (`orm/preload*.go`, `inline_preload.go`) | the plan tree; keys, batches and hydrated objects of one call | compile, select, hydrate | `Preload` |
| Relation-first SELECT and COUNT (`orm/relation_topn.go`, `relation_count.go`, `internal/relationtopn`) | none | decide the form, render it | `RelationQueries` |
| Keyset pagination (`orm/keyset.go`) | none; the caller keeps the cursor | validate and render a seek condition | `Keyset`, `Rows` |
| SELECT and predicate compilers | none | render | what the above need; aggregates, windows and aggregate joins are not |
| Aggregate comparison (`orm/aggregate_compare*.go`) | one pinned session, the report under way, the observations still to be delivered | compare, export samples | `Comparisons` |
| TiFlash readiness (`tiflash/`) | the polling loop and its last good observation | inspect, wait, probe capabilities | `Readiness` |
| Schema checks (`check/schema.go`, `internal/schemacompat`, parts of `schema`) | none | compare a descriptor with a catalog | `SchemaChecks` |
| Query checks (`internal/querycheck`) | none | match the access of a query with the indexes of a table | `IndexChecks` |
| Model description (`model/`) | a cache of immutable descriptors | describe | what `SchemaChecks` reads of a descriptor |
| `tidbgo analyze`, `baseline` | none | refuse inputs, compare, report | partly, in `Captures` |
| Migration lint, source checker, SQL schema parser, plan diagnostics, vectors, logging, redaction, examples | none, or the Go syntax tree | analyse, format | not modelled, see section 7 |

### 1.2 How they interact

- Invocations of the runner share nothing in memory. They meet in the database
  (objects, version table), in `GET_LOCK`, and in the file system (SQL
  directory, `schema.sql`), where people edit too. Each emits events through a
  callback; the command line writes them to a log before and after every
  statement, and a failing log write makes the runner stop.
- A statement of the ORM goes through `beginStatementObservation...`, an
  optional pinned connection, the executor, the rows, `collectDiagnostics`,
  `RuntimeCapture.observe` and the observer. Goroutines meet in the connection
  pool, in the sequence numbers of a capture scope and in the capture's writer.
  A session of the server keeps diagnostics of its latest statement, which the
  next user of the connection overwrites.
- `Transaction` runs the same path for BEGIN, COMMIT and ROLLBACK, with the
  application's callback in between, a deferred rollback behind it, and
  `database/sql`'s own goroutine that ends the transaction when its context does.
- A mutation compiles a whole model to statements; between two batches of a bulk
  call the rest of the system runs. A paging caller's only state is the last
  model it decoded.
- A preload is a sequence of statements: each collection is asked for by the keys
  of objects hydrated before, and other goroutines write between them. Hydrated
  objects are shared, because a copy of a scanned target is shallow.
- The runner's session, a comparison and the TiFlash calls each use connections of
  the same pool as the application. A comparison keeps one for all its rounds and
  delivers its observations, whose observers may use the pool, after releasing it.
- A capture is written by one process and analysed by another, against a baseline
  saved from an earlier capture and a schema file that the database may not match.

### 1.3 What is hard, and what makes it correct

- *Migration.* DDL is not transactional and not atomic with its record; a
  statement whose reply is lost can land after the session is gone; the lock
  belongs to a session that can die while the process goes on; the version
  table's order is not the filename order. Correct means: one worker at a time;
  a record only after its SQL; Down in reverse registration order; the logs name
  every version whose objects and record may disagree; a stale `schema.sql` never
  goes unreported; the lock is always freed; the pool gets back what it lent.
- *Statements.* Every way out of a terminal (success, error, failing close,
  panic of a scanner or observer, a context that ends) must release what it
  holds, record once, notify once, in that order. A diagnostic must be about the
  statement it is attached to. A transaction commits exactly when its callback
  returned nil and COMMIT succeeded.
- *Rows.* Batches must partition the input within the placeholder limit; the
  count of a call that fails half-way must be that of its completed batches; a
  bulk UPDATE must not depend on an order of its rows; predicates joined as text
  must not widen; logically deleted rows must stay untouched; pages must continue
  one another with NULLs in either direction.
- *Relations.* Every parent gets the rows of its key, as often as they were
  returned and in their order, whatever the batches and whoever writes meanwhile.
  A page or a count of a rewritten query is that of the query as written. Relation
  mutations touch the named pairs only, and their counts add up.
- *Measurements.* A report is complete only when every round was, and a sample's
  RU is that of its SELECT; a wait answers with the last thing it saw; every call
  returns even on a pool of one. Verdicts of an analysis follow from the raw
  records: repetitions stay within a scope, a success was measured, a capture is
  no regression from its own baseline. An accepted index serves the access; an
  accepted model's statements work.

`PROJECT.json` lists 40 hazards with the line where each bites; each is covered by
a property of some run.

## 2. Modules

| Module | Contents |
|---|---|
| `MigratePlan` | pure part of package migrate: directories, version table, effect of a statement, `buildPlan` |
| `MigrateRunner` | invocations, server, file system; all properties of the runner |
| `MigrationLedger` | abstract specification: what the runner does to the database, without runners |
| `MigrateRefinesLedger` | the refinement mapping from `MigrateRunner` to `MigrationLedger` |
| `Sessions` | the connection pool, and what `Runner.session` does to one of its connections |
| `MigrateRunnerProofs`, `MigrateLedgerProofs`, `MigrateReportProofs` | theorems about `MigrateRunner`: lock and types; the version table and the refinement; snapshot file and logs |
| `StatementsProofs`, `MeasurementsProofs` | theorems about `Statements`; about `Sessions`, `Measurements`, `Captures`, `IndexChecks` and `SchemaChecks` |
| `RelationsProofs`, `MutationsProofs` | theorems about `RelationMutations` and `Preload`; about `Mutations`, `Keyset` and `Rows` |
| `FoldTheorems` | what `FoldLeft`, sums over sets and recursive functions over sequences compute, without induction rules |
| `Statements` | statements, diagnostics, capture and transactions on a pool |
| `Keyset` | three-valued logic, cursor validation, seek condition, and TiDB's order as reference |
| `Mutations` | typed mutations of one table by several goroutines |
| `Rows` | `Mutations` composed with a caller that pages through the table |
| `Relations` | relation mappings and what SQL associates by them |
| `RelationMutations` | pairs of a junction added, removed and cleared by several goroutines |
| `Preload` | compilation, batches and hydration of preloads on a heap; extends `RelationMutations` |
| `RelationQueries` | predicates, forms and terminals of a SELECT over relation predicates |
| `RelationReads` | `Preload` composed with the writers, and `RelationQueries`, over one database |
| `Readiness` | inspection, waiting and capability probes of TiFlash; extends `Sessions` |
| `Captures` | capture files, analysis, baselines, comparison, the verdicts of `tidbgo` |
| `Comparisons` | `AggregateQuery.Compare` and `WriteCapture`; extends `Readiness` and `Captures` |
| `IndexChecks`, `SchemaChecks` | the rules of `querycheck` and of `check.SchemaType`, with references computed from rows |
| `Measurements` | the composition of `Sessions`, `Readiness`, `Comparisons` and `Captures`: each a task of a behaviour |
| `LibraryTasks` | `Measurements` with one task more, the checks of `IndexChecks` and `SchemaChecks` |
| `MCMigrateRunner`, `MCStatements`, `MCRows`, `MCRelations`, `MCQueries`, `MCMeasurements` | instances for TLC |

Operators whose comment begins with *Mutant* are deliberate errors that no
specification uses; replacing the named definition by one of them makes the
corresponding property fail, which shows that the property speaks about the code.

### 2.1 The migration runner

A *runner* of the model is one invocation: it draws an operation and a step
count, runs and ends in `done` or `crashed`. `pc` follows the code:

| `pc` | code |
|---|---|
| `start`, `load` | `runMigrate`, `Runner.load` (`runner.go:190`): the files are read before the lock |
| `connect` | `session()` up to the lock: connection, inspection of the session, time zone, in one step |
| `lock` | `GET_LOCK`: `AcquireLock`, `LockTimesOut`, `LockFails` |
| `inspect` | reading the records, then `buildPlan` or the checks of Baseline and Init: `InspectApply`, `InspectBaseline`, `InspectInit`, `InspectRead` |
| `emit`, `exec`, `ack` | `operation()`: the *started* event, the statement, its outcome event, for the history table, each SQL statement and the record |
| `flush` | the deferred report of unexecuted statements (`apply.go:39-46`) |
| `capture`, `output` | capture of the schema and the writing of `schema.sql` |
| `create` | `createInitialMigration` with `O_EXCL` |
| `release` | `RELEASE_LOCK` and its answer |

The server is external: a session can die (`SessionDies`), be noticed late
(`Reap`), and an operation sent over a broken connection can be lost or land
later (`Land`, `orphan`). Versions are numbers that carry the filename order;
objects stand for tables, columns and indexes; a statement creates or drops one,
guarded by IF [NOT] EXISTS or not.

`MigrationLedger` has no runner: attempts start, run statements in order,
register, or are abandoned leaving effects behind. `ImplementsLedger` maps the
working runner's remaining plan to the attempt and orphans to strays. An attempt
runs the section of some file of its version; which files a version can ever have
(`Contents`) are those people write, those the directory starts with, and the one
that Init writes for the schema it captured.

### 2.2 Statements

A *worker* is a goroutine whose calls come one after another: a terminal that
reads rows, one that does not, or a `Transaction` whose callback makes such
calls. `pc` is the function that runs: `prepare` (`prepareDiagnosticExecutor`),
`execute`, `rows` (scan and close), `collect` (`collectDiagnostics`), `release`,
`record` (`RuntimeCapture.observe`), `notify` (the observer), and for
transactions `body`, `unwind` and `deferred`. A statement is named by worker and
number; a session's `tidb_last_query_info` and warnings are the name of the
statement they describe, and a probe replaces them. `free` is the pool: every
action that takes a connection removes it there and every Close puts it back, so
that a connection nobody put back is in nobody's hands and not in the pool
(`Lost`). `AwaitDone` and `Closed` are the goroutine of `database/sql` behind a transaction's context.

### 2.3 Rows

A row has a primary key `id`, a nullable `rank` and a nullable deletion time
`del`; a Go model is a record of what the code branches on: soft deletion,
AUTO_RANDOM, width of the key, largest id the field holds, which fields are
pointers. `Accepted` is everything a call checks before its first statement;
`Effects` is the statement with every answer TiDB can compute; a call then takes
`Succeeds`, `EffectUnreported` (the statement took effect, the call fails: lost
answer, unreadable count, generated key that overflows the field) or `Fails`.
A WHERE text is what TiDB parses it into, a disjunction of conjunctions of
parenthesised factors, so that a missing parenthesis changes its meaning.

`Rows` adds a caller that reads pages with `OrderBy`, `SeekAfter` and `Limit`.
`Keyset` computes the truth of the rendered condition in SQL's three-valued
logic and separately the order TiDB sorts by; the pages must agree with the
latter. The cursor is taken from the decoded Go model, not from the row.

### 2.4 Relations

Rows are functions from fields to values, keys sequences of values, and NULL
equals nothing. `Associated` is the statement of a collection: the target rows
under their own key, or junction rows joined to their target, each hop within its
soft-delete scope unless the request lifts it.

`Preload` follows `preload.go`: `NodeList` turns the paths into plans, to-one
relations are joined into the statement above (`Inlined`), `CompileFails` holds the
refusals; `work` is the depth-first list of collections; `run` is the one whose
batches are executed, with the deduplicated keys of its parents and the batch
count the code computes before the first batch. `heap` numbers the hydrated
objects. `Assign` (`assignPreloadedTarget`) gives one parent the scanned target and
every other parent of the key a copy, whose inlined pointers it shares: with a
model of values instead of objects, finding 4 would not exist. `read` remembers
what each statement returned, and `ChildrenAreTheRowsRead` compares the relation
fields with it. `Trees` gives the rows a base row is joined with as functions on the
joined plans (`Joined`), `NoRow` where a LEFT JOIN found none, and `Hydrate` makes the
objects of one of them at once.

`RelationQueries` holds predicates as trees, their truth in a row (`Holds`), the
decision for a form (`Structural`, `Metadata`, `TopN`, `RelationCount`), and the two
forms: `ExistsPage` filters roots, `RelationFirstPage` limits association keys
before the root is joined. `All`, `First` and `Only` answer with the chosen form,
`Count` with the count the code compiles, `Exists` never relation first.

`RelationMutations` keeps of each call whether it `returned`, `failed` or is
`unknown` (a lost answer), with the affected rows TiDB reports.

### 2.5 Measurements

`Sessions` has the pool: `idle` connections, `others` that belong to other
goroutines, the zone each session has and had when it was dialled, the holder of
the named lock. `run` is the session of a migration command, one action per
statement of `migrate/runner.go:125-188` and one for its failure; a connection the
code discards (`gone`) comes back dialled anew.

`Readiness` adds the replica as other sessions see it, the wait (`wait`, with what
`WaitReplicaReady` returns as `last`) and the probes. `Comparisons` follows
`Compare` through `pin`, rounds of SELECT and probe in rotated order, plans, release
and delivery; every statement on the session overwrites its query info, data
changes between rounds, and the context is asked after each plan, the last one
included. `Captures` has the file as a sequence of records, a saved
baseline and a report; what an analysis accumulates is a fold over the records.

`IndexChecks` decides about indexes as the code does and, separately, what the rows
a table may hold say about the access: the rows that match an equality prefix, in
the index's order, must be those the query asks for. A predicate is the number of its
node in `Nodes`, and the nodes below it have smaller numbers: the recursive functions of
`querycheck` (`mutationPredicateConstant`, `mutationPredicateBoundsColumn`) and the truth
of a predicate for a row are functions on these numbers. `SchemaChecks` computes the
diagnostic codes of `SchemaType`; its reference asks whether the statements the
ORM sends for the model execute, whether scanned values convert, and what the
relations assume of keys and pairs.

`Measurements` composes the tasks that use the pool with the analysis of captures,
and is the module most theorems are about; `LibraryTasks` adds the offline checks, which
use nothing of the others, and is what TLC runs.

## 3. Runs

Each run asks one group of questions. `CHECK_DEADLOCK FALSE` is set throughout:
an invocation, a worker and a call end, so a state without a successor is a
finished behaviour; that nothing stops *before* its end is what the liveness
properties `Termination`, `CallsReturn` and `CallsEnd` check.

| Run | Instance | Shows |
|---|---|---|
| `migrate` | 2 invocations (up/down, 0 or 1 step), a file of two statements and one of one; crash, loss of the session, failing queries, lost replies; fair | `LockHeldByWorker`, `LogsNameEveryDivergence`, `StaleSnapshotIsReported`, that the system implements the ledger (`ImplementsLedger`), and `Termination` |
| `migrate_adopt` | 3 invocations of every operation on an unmanaged database with one table and its reviewed file; two edits of the directory, which can add an earlier-named file, make the adopted one reversible or remove it; failing log and disk writes | `TypeOK`, `ResultIsRecordedState`, `RecordAfterSQL`, `LogAccountsForPlan`, `AdoptionHolds`, `DownReversesRegistration` |
| `migrate_reload` | 2 invocations, one edit | *violation* of `AppliesFilesUnderLock` (finding 1) |
| `statement_observe` | 2 goroutines with one terminal each, 2 connections, one capture scope, mixed requests for diagnostics; failing pin, statement, probe, release, writer; panicking observer | `ArtifactReadable`, `ProbesDescribeTheirStatement`, `PoolRestored`, `CaptureComplete`, `ObserverSeesEachOnce` |
| `statement_transaction` | a transaction of up to 3 statements against another user of the only connection; panics of scanner and observer, lost commit answers, failing probes and releases, contexts that end; observers that use the pool; fair | `TransactionOutcome`, `TransactionsAreBracketed`, `CallsReturn` |
| `statement_scan` | measured SELECTs with panicking scanners | *violation* of `NoConnectionIsLost` (finding 2) |
| `rows` | 2 goroutines with one call each, of every typed operation, on models that differ in deletion time and key; 4 tables of at most 3 rows; a paging reader with pages of one row; refused statements, lost answers, unreadable counts | `BatchesCoverInput`, `CountMatchesChanges`, `RowsAssignedOnce`, `ModelNamesItsRow`, `PagesFollowTheOrder`, `DeletedRowsAreLeftAlone`, `OnlyMatchingRowsChange` |
| `rows_by_deletion` | the paging reader in descending order of a value-form deletion time | *violation* of `PagesFollowTheOrder` (finding 3) |
| `relations` | a SELECT with one of 10 sets of preloads beside 2 goroutines that add, remove and clear pairs, and one other write; or one of 75 queries with any terminal, over every small content of each association table that keeps the data contract | `ChildrenAreTheRowsRead`, `CollectionsKeepTheirOrder`, `BatchesMatchTheirMetadata`, `AffectedAccountsForJunction`, `OnlyNamedPairsChange`, `PageIsTheQuery`, `CountIsTheQuery` |
| `preload_shared` | one SELECT with a collection below a to-one relation of a collection whose parents share a key | *violation* of `ChildrenAreTheRowsRead` (finding 4) |
| `relation_null` | a has_many relation with a nullable foreign key | *violation* of `PageIsTheQuery` (finding 5) |
| `measurements` | 6 tasks: the runner's session, the wait, the probes and a comparison (two executors, two samples) on a pool of 1 or 2 connections, with a failure at every statement and a context that ends anywhere; captures of up to 3 records and a later capture of up to 3; index and schema checks of every descriptor and table of the instance; fair | `SessionsComeBackClean`, `PreparationAnswersWhatItSaw`, `SamplesAreTheirSelects`, `CompleteReportIsWhole`, `VerdictsFollowTheRecords`, `AcceptedIsServed`, `CallsEnd` |

### Bounds, and why they are enough

- *Invocations, 2 or 3.* Two interfere in every way the lock can be misused; the
  third is needed where one invocation's record must outlive another's (order)
  or where baseline, up and down have to follow each other (adoption).
- *Versions 1..2, two statements per section.* The loops of `Apply` distinguish
  the first, an inner and the last statement and step; two of each reach every
  branch, including a phase change between steps. `TwoStatements` ends with a
  guarded statement in both directions.
- *`Times` 0..5* bounds the clock of the version table, `MaxEdits` (0 to 2) the
  edits of the directory. `ClockSteps = {1}`: registrations get distinct,
  increasing times. Equal or decreasing `created_at` values are possible on a
  real server; `RegistrationOrder` then breaks ties as the query does, and
  `ResultIsRecordedState` is claimed for advancing clocks only.
- *Statements.* `MaxStatements` is the number of statements of a worker; 3 is
  BEGIN, one statement and an end. One connection for two workers makes the pool
  the bottleneck; two let sessions be swapped between them.
- *Rows.* The placeholder limit is scaled from 65535 to 6, so that three rows
  make two batches in the models with two or three written columns and one row
  exceeds the limit in the model with a wide key (`Broad`). Three keys are the
  smallest number at which the narrow key field overflows after a successful
  insert. Pages of one row put every pair of neighbours on a page boundary.
- *Relations.* `KeyBudget = 2` (5000 in the code) splits three parents into a full
  and a short batch, and a composite key into batches of one; `ParameterLimit = 6`
  admits two pairs of one and two columns and refuses three. The tags have a key
  of two columns, neither of which is a key by itself, so a DELETE that names two
  of them is the OR of conjunctions beside the source key. `MaxChanges = 1`: one write between
  statements already makes one collection newer than another. An association table
  holds at most two rows (four pairs for a pure junction), the smallest number with
  a duplicate, a NULL beside a value, and a deleted edge beside an active one; one
  of the two articles is deleted.
- *Measurements.* `Warmup = 1` and `Samples = 2` (2 and 5 by default) leave a round
  of each kind in every position of the rotation of two variants; the costs differ
  in the last round only, so that a misattributed probe is visible. Three records
  are the smallest capture in which the code speaks of a repetition and a record of
  another scope can stand between two of one. Tables of the checks hold rows over a
  domain of two or three values with up to three columns.
- *Symmetry* is used over invocations in the safety runs, over connections in
  `statement_observe` and over goroutines in `rows` and `relations`; never where
  liveness is checked, and only on sets whose members the configurations treat
  alike.

### Fairness

- `WF(Proceed(r))` for an invocation: the process is scheduled and every call it
  makes returns, because each has a deadline: the command runs under a context
  with a timeout, `GET_LOCK` waits at most `LockTimeout`, and the release has a
  context of its own of five seconds. `Proceed` includes the failing outcomes.
- `WF(Reap(r))`: the server notices a vanished client and ends its session,
  which frees the lock. Late DDL (`Land`), crashes and edits are not fair.
- `WF(Proceed(w))`, `WF(AwaitDone(w))`, `WF(Closed(w))` for goroutines: the Go
  scheduler runs them, a statement is answered or fails, and `database/sql`'s
  goroutine ends a transaction whose context is done. Cancellation is not fair.
- `SF(CallStep)` for a measurement: `database/sql` serves the requests for a
  connection in the order they came, so a call is not passed over for ever while
  others take and return the last connection. `WF(PoolReturned)`: other goroutines
  return what they took. `WF(ContextEnds)` in the task of a wait only:
  `WaitReplicaReady` refuses a context without a deadline
  (`tiflash/replica.go:110-112`), so there the end of the context is certain.
  Neither the replica's progress nor the lock's release by others is assumed.
- The runs of rows and relations check safety only.

## 4. Findings

1. *`Plan`'s comment promises a reload under the lock.* `migrate/plan.go:14`
   says that Apply reloads files under the lock; `migrate/apply.go:17` loads them
   before `session()` waits for it. `migrate_reload` shows a file that changes in
   between and is applied as it was.
2. *A panicking scanner keeps a pinned connection.* The release is only reached
   through `finish()` (`orm/statement_diagnostics.go:61`);
   `docs/observability.md:557-559` says that the connection returns to the pool.
3. *Value-form deletion times cannot be paged over.* `cursorFieldCanBeNull`
   (`orm/keyset.go:114-127`) answers false for a field whose NULL decodes to the
   zero time; `docs/queries.md:458-460` promises TiDB's NULL order, and
   `docs/schema-checks.md:125-126` treats the field as nullable. With
   `Desc("DeletedAt")` the page after an active row is empty.
4. *A collection below a shared object is filled once per occurrence.*
   `assignPreloadedTarget` (`orm/preload.go:1005-1031`) copies a target struct for
   each further parent of its key, and the copies share the inlined to-one object.
   `collectPreloadedTargets` (`1033-1061`) collects that object once per copy, and
   each row of the collection below it is appended once per occurrence.
   `docs/queries.md:705-706` promises one target value per returned row.
   `preload_shared` loads `User.Posts.User.Posts` for two posts of one user.
5. *A NULL foreign key takes a place of the page.* The relation-first form excludes
   NULL keys before its limit only for `via` edges
   (`orm/relation_topn.go:405-421`); a has_many row whose key is NULL consumes the
   limit and joins no root. `docs/models.md:213-215` demands a row for non-NULL
   keys only, and `docs/queries.md:756` says that the join excludes NULL keys.

Three more disagreements were met and have no run of their own. `collectDiagnostics`
(`orm/statement_diagnostics.go:88`) probes `tidb_last_query_info` even for a
statement that was refused before it was sent, and reports the RU of the session's
previous statement, against `docs/observability.md:574-575`; the fault `reject` of
`Statements` produces it (add it to `StatementObserve.cfg`), and
`ProbesDescribeTheirStatement` is claimed without that fault.
`tableHasAccessIndex` (`internal/querycheck/index.go:185`) takes a unique index
whose key contains the nullable soft-delete column for a single-row lookup,
although NULLs are not unique in it (compare `docs/queries.md:157-159`);
`AcceptedIsServed` leaves unique indexes on that column out. And `PrimaryKeyColumns`
(`schema/catalog.go:82`) leaves out the parts of the key that are expressions or have a
prefix length, so that a model keyed by `a` passes CMP007 with `PRIMARY KEY (a, b(5))`,
against `docs/schema-checks.md:74-75`; the claim is made for primary keys of whole columns
(`TableType`).

## 5. Proofs

### Migration: lock, types, records

`MigrateRunnerProofs` holds four theorems about `MigrateRunner!Spec`, for every
set of invocations, versions, bodies, edits and faults. They rest on the ASSUMEs
of `MigratePlan` and `MigrateRunner` (the free lock is no invocation; operations,
step counts, files, schema, bounds and faults have their types) and on nothing
else.

- `LockSafety` (`LockHeldByWorker`): inductive invariant `LockInv`, which adds to
  the property only the types of `pc` and `sess`. The property is almost
  inductive: an invocation enters `Working` only by an action that sets
  `lockOwner` to it, and whatever takes the lock away from it ends its session.
- `Serialised` (`OneWorker`): a consequence, two owners would be equal.
- `TypeCorrect` (`TypeOK`): the invariant is `Shape`, which adds to `TypeOK`
  `CursorInv` (at an operation the cursor is inside the plan), `PlanInv` (every
  step of an Apply has SQL), `AnswerInv` (after an operation its answer is known)
  and `CreateInv` (Init writes a file only for a database with tables). They are
  needed because the cursor indexes `plan[r]` and its statements, and because a
  confirmed Down pops a registration from its stack. `TypeStep` has one case per
  action, `ControlStep` re-establishes the four additions.
- `RecordSafety` (`RecordAfterSQL`): the invariant is `Shape /\ AckedInv`, where
  `AckedInv` says that for an invocation at an operation every statement of the
  current step *before the cursor* is acknowledged in its log. `RecordAfterSQL`
  is the case in which the phase is `record` and the cursor behind the last one.

### Migration: the version table and the refinement

`MigrateLedgerProofs` rests on one inductive invariant (`LedgerInvariant`),
`LedgerInv == Shape /\ PlaceInv /\ FilesInv /\ KnowsInv`:

- `PlaceInv` says where things are: an operation on its way is the one at the cursor
  of an invocation that has ended (`OrphanOf`), *and a record on its way still has the
  lock* behind its broken session; that is why no other invocation can read a
  version table that a lost record is about to change.
- `FilesInv`: a plan's statements are a section of a file the version can have, and
  no version is planned twice.
- `KnowsInv`: what an invocation read under the lock, changed by its own records,
  stays what the version table says (`StackOf`), and what is left of its plan is what
  `buildPlan` would select now (`AheadOf`): for Down, the next version is the last
  one registered.

From it follow `DownReverses` (`DownReversesRegistration`), `AdoptionIsKept`
(`AdoptionHolds`), `ResultRecorded` (`ResultIsRecordedState`) and
`RefinesLedger` (`ImplementsLedger`). `AdoptionIsKept` has two halves. What Init saw
under the lock holds when it writes the initial file: `InitSees` says so of every
invocation that is about to write, and is inductive because only the lock's owner
changes the database, unless DDL of an invocation that crashed or lost its reply lands
late (`Initialises` excludes those two faults, and a session lost in between).
And a record goes only by a Down that read a Down section for it and had each of
its statements acknowledged (`RevertedByDown`): `AckedInv` knows the acknowledgements of
an invocation that still runs, `StrayAcked` those of one whose record is on its way
alone. For the refinement, initial states map to initial states of
`MigrationLedger`, and every step to a step of the ledger or a stutter. The last two
assume `ClockAdvances`, that registrations get increasing times. With equal
`created_at` values the version table breaks ties by filename, an Up can register a
version that sorts before the previous one, and then neither the returned stack nor
the latest registration is what the invocation believes; Down re-reads the table, so
the first two theorems need no such assumption. `RegistrationOrder` is shown to be
unique (`OneOrder`) and stable under appending and popping, by counting: the
position of a version is its `Rank`.

### Migration: what the operator is told

`MigrateReportProofs` has three theorems.

- `StaleIsReported` (`StaleSnapshotIsReported`). The property speaks of quiet states.
  `SnapshotInv` says of all states that either the operator has been told, or will be
  (`Told`: a crash, a lost session, an error), or the file shows the schema, or the
  owner of the lock will write it. `OrphanTells`: what lands late belongs to an
  invocation that told.
- `LogAccounts` (`LogAccountsForPlan`). `ReportInv` ties `sent` to the cursor
  (`SentOf`) and the fates in the log to `sent` (`FateOf`): a statement has exactly
  one fate once it is settled and none before, so the events of the loop and of the
  deferred flush neither overlap nor leave a gap.
- `LogsNameDivergence` (`LogsNameEveryDivergence`). The hypothesis `FilesCorrespond`
  says what the property needs of the SQL files and no code enforces: Up creates the
  objects of its version, Down drops them, and versions share none (and Init, which
  writes a file of whatever it finds, is not among the operations). `migrate`
  satisfies it. `DivergenceInv`: a version that no log leaves `Open` has its record and
  objects in agreement (`AgreeInv`); SQL is logged before it is sent (`BeganOf`), so
  whatever can still take effect is open (`InFlightIsOpen`); the statements behind the
  cursor have taken effect *unless another log leaves the version open*
  (`EffectOf`), the exception being late DDL of a crashed predecessor.

### Statements

`StatementsProofs` is about `Statements!Spec`, for every set of workers, connections
and scopes, every assignment of requests, and every fault. A worker moves by itself:
`PlaceInv`, `TxInv`, `HeldInv`, `DiagInv` and `DeliveryInv` speak of one worker each and
are kept by the steps of others for free (`Same`), as is `HandsInv`, which connections
the rows of a statement may be on. Shared are the pool (`Disjoint`: no connection in two
hands; `Ledger`: none both in a hand and in the pool, and each in one of them unless a
Scanner may panic), the artifact (`FileInv`), the sequence numbers
(`Accounted`: each drawn number is on a line or in flight, and in one place only) and,
for the lines of a transaction, `Alternate` (beginnings and ends take turns).
`StatementInv` joins them (`StatementInvariant`).

- For all faults: `TypesHold` (`TypeOK`), `PoolIsRestored` (`PoolRestored`), `ArtifactIsReadable`
  (`ArtifactReadable`), `TransactionsEnd` (`TransactionOutcome`), `LinesAreBracketed`
  (`TransactionsAreBracketed`).
- When scanners return (`ScannersReturn`, a fault less): `CaptureIsComplete`
  (`CaptureComplete`), `EachSeenOnce` (`ObserverSeesEachOnce`) and
  `OnlyScannersLoseConnections` (`NoConnectionIsLost`). A panicking scanner skips the
  release, the record and the notification; that is finding 2. The third theorem is
  about everything else: `Lost` is whatever is neither in the pool (`free`) nor in a
  worker's hands, every action takes from `free` and puts back into it what the code
  does (`Takes`, `Returns` and `Moves` are the three ways), and `Ledger` is the invariant
  that no path, in order or failing, breaks.
- When no statement is refused before it is sent (`NothingRejected`):
  `DiagnosticsAreOwn` (`ProbesDescribeTheirStatement`); with such a statement the code
  reads the session's previous one (section 4).

### Pool, comparison, preparation

`MeasurementsProofs` begins with one theorem about `SessionsSpec`, for every pool, every set of
time zones and every failure, from `SessionsAssumption` (UTC is a zone; the markers
for no connection and for the lock's other holders are no connections).

- `SessionsAreReturnedClean` (`SessionsComeBackClean`): the property speaks of idle
  connections only, so it says nothing of the one that a command holds and is not
  inductive. `SessionsInv` adds the types (a command's connection is in nobody
  else's hands), `ZoneIsKnown` (from the first change of the zone on, `saved` is the
  connection's own zone; before `close` a connection that is not discarded has it
  again), `OnlyTheWorkerHolds` (a pooled session has the lock only between `GET_LOCK`
  and `RELEASE_LOCK`) and the same for connections of other goroutines.

The rest of it is about `MeasureSpec`, the composition of the session, the wait,
the probes, the comparison and the analysis on one pool, for any number of rounds,
connections and data changes. It rests on `SessionsAssumption`, `ReadinessAssumption`,
`ComparisonsAssumption` and `CapturesAssumption` (types of the constants; a call runs on
a pool or on a borrowed connection; a warm-up round, and no fewer samples than the
analysis asks for). `MeasureInv` (`MeasureInvariant`)
is `SessionsInv` with, for the comparison, `CompareInv`: its connection is in nobody
else's hands, so the last statement of its session before the probe is the SELECT
(`ConnInv`); the arithmetic of rounds (`StepInv`, `SampleInv`: a variant has a sample for
each measured round it had); observations are numbered in the order of the statements
(`Numbered`, `Counted`); the result buffers hold every value seen (`AnswerInv`); and no
accepted plan was refused (`PlanInv`). From it: `SamplesAreOwn`
(`SamplesAreTheirSelects`), `ReportsAreWhole` (`CompleteReportIsWhole`),
`PreparationIsTruthful` (`PreparationAnswersWhatItSaw`, from `WaitInv` and `ProbeInv`)
and `PoolStaysClean` (`SessionsComeBackClean` beside all the other tasks).

`VerdictsFollow` (`VerdictsFollowTheRecords`) is about the offline analysis: for any
captures, requests and saved baselines, what `tidbgo analyze` answers is owed to the
records of the file. The analysis is a fold over the records, and `Reads(G, rs, n, schema)`
says that `G` is what it has gathered after each of them (`AnalysisSteps`). From there an
induction per part, put together in `Gathered`: counters count the records of their
fingerprint (`CountsOwn`) and of their repetition (`CountsRepeats`); samples, errors, total
and maximum of a fingerprint account for its records (`RuAccounts`); so do the counters of
a scope for the records of the scope (`ScopesCover`). Three arguments rest on it. A repetition found is two
records with one key, and a key holds the scope (`InvKeepsScopes`). Where samples equal
statements and no failure was counted, every record was measured, so a comparison without
a finding says so of each (`InvMeasuresSuccess`, `InvMeasuresWorkload`). Compared with a
baseline made from it, a capture has the totals and counts of the baseline, and a limit of
1.3 times a mean is no less than the mean (`InvPassesOwnBaseline`). `CaptureInv` carries this
through a behaviour: `fresh` means that the saved baseline is what `BaselineOf` makes of
`log`, and the last answer is `TheReport` of the log, the baseline and the request, as
every step that changes the log or the baseline forgets the answer. The record exported by a comparison has its RU from a statement of
the rounds (`Sent`), so that it is a number. Used of the constants: the Go types of records and baselines, a cost for each
statement, and that the codes a record carries (warnings, shape of the statement, index)
are not those of the analysis (`AnalysisCodes`), which holds in the source, where
`RUN...` and `RU...` are declared by `internal/runtimecapture` alone.

`ChecksAccept` (`AcceptedIsServed`) is about `LibraryTasks!Spec`. What is checked changes
in one step and never again, so the invariant (`AuditInv`) only says that the answer kept is
the one the checks give; the work is in the lemmas, one for each kind of statement.
The recursive checks of a predicate are functions chosen by their equation, and
`RecursionExists` gives that there is one; `PredicateInduction` then goes from the nodes
below a predicate to the predicate. So `ConstantIsTheValue` (what `mutationPredicateConstant`
decides is the truth of the predicate for every row, NULLs included) and `BoundsAreTrue`
(where a predicate that bounds a column is true, one of the conditions on the column below
it is), and an accepted write changes nothing or what such a condition leaves in a range of
an index (`WriteIsBounded`). For a SELECT, `FreeOrderKeeps` says which columns of the wanted order are
left and after which others; rows that agree on the columns of one value are
then in the index's order if they are in the wanted one, and a row between two of them
agrees with both (`OrderIsTheIndexs`, `BetweenAgrees`), so `PrefixServes`. For a model, each
code left out gives its part: `InsertsAreAccepted`, `RowsAreDecoded`, `TargetAccepted`,
`JunctionAccepted`; that the first columns of an index are those of a key in some order is
a count of elements (`SameElements`). Assumed of the constants (`IndexChecksAssumption`,
`SchemaChecksAssumption`, `PairsAreStored`): values are numbers and NULL is the least of
them; a NOT has one predicate below it, as the builders give it; mappings repeat no field and no column, as
`model/relation_parse.go:175-288` demands; a primary key is unique in its columns; and the
pair of a junction is stored columns, which no check verifies. `ChecksLeaveTheRest` says
that every behaviour of `LibraryTasks!Spec` is one of `MeasureSpec`, so what is proved of
`MeasureSpec` holds of the specification TLC runs.

### Rows and relations

`RelationsProofs` is about `WriteSpec`, the relation mutations and the other
clients by themselves (`RelationReads!Spec` lets nothing else touch their variables),
and about `LoadSpec`, one SELECT with preloads beside them (its queries leave the
SELECT alone), for every mapping, database, request and interleaving.

- `OnlyNamedPairs` (`OnlyNamedPairsChange`) rests on `JunctionAssumption`, what
  `model/relation_parse.go:255-300` makes sure of: a junction column for every key
  field and no column twice. `PairKey` derives from it that the columns of an inserted
  row read back as the pair; `EffectIsNamed` splits on the operation. Without distinct
  columns, source and target of a row could overwrite each other.
- `AffectedAccounts` (`AffectedAccountsForJunction`) is about all clients at once: the
  answers of the adds, less those of the removes and clears, are the growth of a
  junction that only they write. `AccountsInv` adds that tables stay finite and that an
  answer's count is a number once its call compiled. `EffectCounts` is the heart of it:
  what one statement reports is the change of the table's size, repeated targets and
  existing pairs counted once. `TotalOneMore` and `TotalSame` say what one more answer
  does to a total; they need finitely many writers and tables
  (`RelationMutationsAssumption`).
- `BatchesMatch` (`BatchesMatchTheirMetadata`): what the code computes before the first
  statement of a collection, the number of batches and of keys, is what its captured
  batches add up to afterwards. `LoadInv` is inductive. Its half about batches
  (`BatchesInv`) says of the collection being read (`Reading`) that the keys read are
  those up to `start`, that its batches hold `start` keys, and that `start` is as many
  full batches as there are; `CeilingIs` turns that into the rounded-up quotient when the
  last key is read (`FinishKeeps`). Of the work list (`Waiting`) it says that no task is
  above another and that nothing at or below a task was started: without it a collection
  could be read twice and its batches counted together. That rests on a tree listing
  each plan once (`NodesAreDistinct`). Its half about objects (`HeapInv`) says
  that a relation field refers to objects of its own plan (`WellFormed`), so that the
  parents handed to the next collection have its field; `HydrateAdds` and `AssignAdds`
  show it of the hydration of one row, `HydrateRowsAdds` of all rows of a statement. What a
  statement returns has to be finite for there to be an order of it (`TablesAreFinite`,
  `TreesAreFinite`, `AssociatedIsFinite`). Assumed of the constants: paths
  are sequences of names (`RequestAssumption`); a relation has at least one key field and
  no more than a statement has placeholders, as `compilePreloadPlan` demands
  (`KeyWidthAssumption`); and a database with the table of the SELECT's model has the
  tables of its relations (`TablesAssumption`).
- `OrderIsKept` (`CollectionsKeepTheirOrder`): parents that share a key, copies that share
  their fields and collections read in several statements leave each parent's children in
  the order of `PreloadOrderBy`. The invariant adds two facts to `LoadInv` (`OrderInv`):
  every field of an ordered relation is in order, whether or not the result leads to it
  (`Tidy`), and a parent whose key was not read yet has none of the collection being read
  (`Unread`). The second is what the first needs: the rows of a statement arrive in order,
  but they are appended, and behind the rows of another statement they would not be.
  `NextKeysAreNew` says that no key is asked for twice, so that a parent is appended to by
  one statement only. `Given` is what the rows of a statement make of the heap: it is
  shown row by row (`OneRow`, `GivenOn`), `SortedOn` being the step from one row to the
  next. `HeldAreAbove` follows a requested path from the roots to show that the parents in
  the result are among the objects the invariant is about. The order itself is not assumed
  to be total or transitive (`NotAfter`): rows of one statement compare as it sorted them.

`MutationsProofs` is about `Mutations!Spec`, for every set of calls, every table, every
model and every placeholder limit, and for any interleaving and any failure.
`PagingOnlyReads` adds that `RowsSpec`, the composition with a paging caller that the
run checks, implements it, so that everything holds of that too. It rests on
`MutationsAssumption` (a model writes a key of at least one column; keys are finitely
many positive numbers, NULL is no number, the limit is positive), on `CallsAssumption`
(a call is built from model values or nil pointers, fields, predicates and assignments;
a call on one model has one; a deletion has neither fields nor `WithDeleted`, which its
builder does not offer) and on `TablesAssumption` (the rows at the beginning have their
types).

- `Batches` (`BatchesCoverInput`) and `AssignedOnce` (`RowsAssignedOnce`) follow
  from one inductive invariant, `BatchInv`. It says of every bulk call that the
  ranges sent form a chain ending at `start` (`Chain`), each at most
  `RowsPerStatement` long, and that nothing was ever sent for a call that was
  refused (`Progress`): only then are the keys distinct and the rows narrow enough
  for the limit. `BatchFits` is the arithmetic: a batch holds at least one row and
  what it binds is within the limit, although one row of a bulk UPDATE binds fewer
  placeholders than its share of a batch. `StartStep` and `SendStep` are the two
  ways a call moves.
- `StatementEffect` says what one statement of a call does to any table: it leaves a
  table of the same type; its count is the number of rows that differ, between that
  number and twice the rows sent for an upsert (`Counts`); of the logically deleted rows
  it changes those only that the call may (`LeavesDeleted`), and with predicates only
  rows that satisfy each group (`ChangesMatching`). Below it is one lemma for each kind
  of statement. `TextIsConjunction` is where the WHERE text is decided: after any number
  of `AppendGroup`s the text is still one conjunction with one factor for every group,
  so no disjunction opens a second alternative. `UpsertRowsEffect` follows an upsert row
  by row, since a later row of a statement may meet a key that an earlier one inserted;
  `AssignedRow` follows the assignments of an UpdateWhere.
- `CountsItsChanges` (`CountMatchesChanges`) needs `CountInv` beside `BatchInv`: the
  total is the sum of `changed`, or for an upsert between that sum and twice `start`,
  and a call that runs was accepted (`Ready`), without which a statement could meet a
  nil pointer. The bound has to be by `start`, not by the length of the input: only then
  does the next batch preserve it.
- `LeavesDeletedRows` (`DeletedRowsAreLeftAlone`) and `ChangesMatchingRows`
  (`OnlyMatchingRowsChange`) are properties of steps. `StepEffect` derives them from the
  invariant: the one call whose `sent` grows is the one whose statement changed the table.
- `NamesItsRow` (`ModelNamesItsRow`): `MemoryInv` adds that the model of a call that
  still runs has no generated id, since only the one statement of an INSERT reads it.
- `TypesHold` (`Mutations!TypeOK`) is a consequence of the three invariants. A row's
  type (`RowType`) has a NULL only where the model's Go field can hold one, which
  paging depends on.
- `SeekIsBefore` is about `Keyset` alone: for any number of terms in any directions,
  the condition that `SeekAfter` renders is true of a row exactly when ORDER BY, for
  which NULL is below every value, puts it after the cursor's row. The condition is built from the last term
  outwards; the proof goes down the levels together with the order's prefixes
  (`UpTo` again), and keeps three values apart, since an "unknown" below an OR must not
  be read as "false" too early.
- `PagesContinue` (`PagesFollowTheOrder`) composes that with the writers. The property
  speaks of the end of paging; `PagesInv` says of a reader halfway that each row it owes
  (`Awaited`) is still there unchanged and has been delivered or *comes after the last
  row delivered*. `ReadPageStep` then uses that the order is total on rows with
  different keys (`Keyed`), so a page that ends short has left nothing behind. Other
  calls may insert, change and delete rows between pages: a changed row is no longer
  owed. The theorem's hypothesis `DeletionTimesArePointers` is what finding 3 is about:
  where a deletion time is held by value, the cursor of a NULL is the zero time, and
  the property is false (`rows_by_deletion`). The `rows` run satisfies the hypothesis.

The properties above speak of folds and recursive functions over sequences of any
length. The library's induction rules take an operator and cannot be used here;
`FoldTheorems` does the induction with sets instead. A set of numbers without a least
element is empty (`LeastNumber`, from the well-foundedness of `<` on the naturals), so
that a set with 0 and with the successor of each member below a bound has everything up
to it (`UpTo`). From it follow the existence of the function that `FoldLeft` chooses
(`FoldExists`, on the subsets of an initial segment), that of a function defined step by
step (`StepsExist`), and what a sum over a sequence (`SumIsPartialSums`, `SumOfAppend`)
or over a finite set is, whichever element the fold picks first (`SumExists`,
`SumTakesOff`, `SumsEitherWay`).

### What stays with TLC

- Liveness (`Termination`, `CallsReturn`, `CallsEnd`) and everything about fairness:
  out of the prover's reach.
- What rests on recursive operators, which the prover does not accept in a module with
  theorems or below one: rewritten queries (`PageIsTheQuery`, `CountIsTheQuery`,
  in `RelationQueries`).
- Of preloads, `ChildrenAreTheRowsRead`. It is not true of every request (finding 4); the
  run checks it of requests in which no object is a parent of a collection twice.

## 6. Abstractions

- SQL text, identifiers, formatting, logging and JSON are left out. A migration
  statement is the object it creates or drops; the scanner that splits a file
  and the normalisation of `SHOW CREATE TABLE` are not modelled.
- `Connect` takes the connection, inspects it and sets the time zone in one step;
  `CreateInitial` checks and creates the initial file atomically, which `O_EXCL`
  gives the code; the check of the directory before it is a step of its own.
- `RuntimeCapture.observe` is one step: it holds its mutex throughout. A failing
  write may leave a torn line.
- A context, once ended, stays ended for its worker. Rows that a panicking
  scanner leaves open outside a measured statement are closed by their context's end:
  their connection goes back with the panic or stays outside the pool (`Lost`) for the
  rest of the behaviour.
- Capture scopes: the sequence number is drawn atomically, as `atomic.Uint64`
  does.
- Rows: TiDB executes a statement atomically; `affected` is the number of changed
  rows, as without `clientFoundRows`; an upsert conflicts on the primary key
  only; a primary key is not NULL, so an INSERT of an unset one that TiDB does not
  generate fails; keys are native, since the code cannot compare `driver.Valuer` keys
  either; a width of the primary key counts placeholders but one number stands
  for the whole key; predicates are comparisons, IS NULL, NOT and OR groups;
  the error of a Valuer in the middle of a bulk call is a `Fails`. A model holds
  only what its Go types can hold (`Representable`), and a table only what the
  model can decode.
- Paging: the caller takes the cursor from the last model it received and stops
  at a page shorter than the limit. `rows` sorts by a deletion time in the
  pointer form only; the value form is the subject of `rows_by_deletion`.

- Relations: TiDB executes a statement atomically; rows come in the order of the
  request's `PreloadOrderBy`, otherwise in any one order; the exact-bytes grouping of
  keys is equality; scanning cannot fail. A relation query is one statement, so
  nothing runs beside it. The contents of the association tables keep the data
  contract of `docs/models.md:213-221`; what happens outside it is not claimed.
- Measurements: durations, medians and ratios of a report are left out; values of
  ServerRU are small integers, so the rounding of floats is not modelled, nor are the
  saturating sums. A JSON file is a sequence of records of which the last may be
  torn. The text, the severity and the order of diagnostics are left out: a finding
  is its code and what it is about.
- Checks: a type is a name of a family, a model has at most two fields and one
  relation. `SchemaType` does not require the pair columns of a junction to be stored
  columns; the instances have stored ones.

## 7. Not modelled, and why

- *Aggregate and window compilers, aggregate joins* (`orm/aggregate.go`,
  `aggregate_window.go`, ...): a builder rendered to text, without state between
  calls; what matters is the SQL text itself.
- *Scan plans and typed raw rows*: reflection over the caller's Go types.
- *Model description* (`model/`): parsing of struct tags by reflection. The
  descriptors of the models here are inputs.
- *SQL scanners and parsers* (`migrate/sql.go`, `schema/parse.go`, `migrate/lint*.go`):
  functions of character sequences; a model of them would be their transliteration.
- *Source checker*: a `go/ast` and type analysis of user programs.
- *Plan diagnostics, vectors*: classification of EXPLAIN operators and encoding of
  vectors, pure and shallow.
- *Logging, redaction, flags, printing, examples*: formatting and demonstration.

## 8. Where to go on

Theorems: `RelationQueries` without recursive operators, as `IndexChecks` has its
predicates. Models: `ObservationContext`
in `Statements`; several comparisons at once on one pool.
