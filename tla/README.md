# Formal model of fact_inventory

`fact_inventory` is an HTTP service that stores the facts hosts submit, keeps its
table small with two periodic clean-up jobs and offers SQL views over what is
stored. Several server processes ("workers") share one database; a lock table
with heartbeats is meant to let only one of them run a given job at a time. This
directory models these parts in TLA+, checks them with TLC and proves their
safety properties with TLAPS. Source paths below are relative to the repository.

## 1. The system

| Component | Source | State | Operations |
| --- | --- | --- | --- |
| lock table | `infrastructure/db/models/background_job_lock.py`, `infrastructure/db/repositories/background_job_lock.py` | one row per job name: `owner_token`, `acquired_at` | `acquire` (INSERT, then a conditional UPDATE), `refresh`, `release` |
| exclusive job runner | `server/background_job/lock.py` | the token, the work task, the heartbeat task, `stop_event`, `lease_lost_event`, `last_successful_refresh` | `run_exclusive_background_job`, `_heartbeat` |
| periodic plugin | `server/background_job/plugin.py` | one task per application | `lifespan` (startup, shutdown), `run_forever` |
| clean-up jobs | `server/background_job/{retain,history}_cleanup.py`, `application/services/fact.py` | none beyond a run | `purge_facts_older_than`, `purge_fact_history_more_than` |
| fact table | `infrastructure/db/repositories/fact_inventory.py`, `infrastructure/db/models/fact_inventory.py` | rows `(id, client_address, updated_at, JSON)` | `insert_record`, `_delete_in_batches` over two key queries |
| policies | `domain/retention/` | a number | range check, `cutoff_datetime` |
| submission endpoint | `presentation/api/`, `domain/validation/` | rate-limit counters of the middleware, the connection pool | `POST /api/v1/facts` and the mapping of exceptions to status codes |
| settings | `lib/settings.py` | the cached settings of a process | validators, defaults |
| migrations | `migrations/env.py`, `migrations/versions/` | the relations and `alembic_version` | upgrade, downgrade |
| startup gate | `infrastructure/db/db_migrations.py`, `server/app.py`, `__init__.py` | none beyond a start | application assembly, revision check on startup |
| operational endpoints | `presentation/{root,health,ready,metrics}.py` | none | probes |
| observability | `lib/{logging,otel}.py`, `server/middleware/traceparent.py` | none that others read | logs, spans, a header |
| Ansible role | `client/.../roles/gather/tasks/` | facts of a host | collect, POST once, audit log, verdict on the status |
| views | `migrations/versions/add_cmdb_views_*.py` | none (SQL views) | queries over the stored rows |

(Python paths are under `src/fact_inventory/`.)

Interactions: a host's role run posts once; the request passes the middleware,
the request model, the validators, the pool and one transaction, and its answer
decides the verdict of the run. A process builds its application from its
settings and serves only after the schema check; migrations and installations
happen beside it. The plugin awaits the job callback inside its periodic task; the
callback calls the runner; the runner opens short sessions on the lock table and
starts the work as a task of its own; the work opens a session on the fact table;
submissions insert into the fact table at any time. Shutdown reaches all of this
as one `task.cancel()` on the periodic task.

What is hard: three asyncio tasks of one worker interleave at their awaits and
share two events; workers interleave at every SQL statement; a statement may be
committed although its caller saw an error; a process may die between any two
steps; cancellation arrives at whatever await is current and means something
different at each; ages in the lock row are compared with a `now` that was read
some time ago; the keys of a clean-up batch are stale when they are deleted. An
answer is lost after the commit, a commit fails after taking effect, a pool is
held by others. A migration is killed halfway or runs beside another; a schema is
checked once and changed later. One stored record can fail a view for everybody.
`PROJECT.json` lists the hazards line by line.

What makes each part correct: a lock row is taken only from someone who has had
his time (lease), a superseded worker does no harm (fencing), stops (stand-down)
and cannot block the job (recovery); the periodic task outlives every failure of
its job and ends when cancelled; a clean-up deletes only what it may, all it
should, and ends; a client is told nothing false about its submission and gets
an answer; the version table tells the truth about the schema and a process
serves only with the schema of its release, unless it changed later; a view
lists every interface, and a failing one can be healed.

## 2. Modules

| Module | Models | Extends |
| --- | --- | --- |
| `BackgroundJobLockRepository` | the lock row and the transactions on it | |
| `ExclusiveJob` | the runner, heartbeat and work of every worker | the repository |
| `MCExclusiveJob` | clocks and symmetry for its runs | `ExclusiveJob` |
| `JobLease` | what the lock promises the workers (abstract) | |
| `JobLeaseProofs` | that a lease excludes | `JobLease` |
| `ExclusiveJobProofs` | inductive invariant, theorems, refinement of `JobLease` | `ExclusiveJob`; instantiates `JobLeaseProofs` |
| `BackgroundJobPlugin` | `lifespan` and `run_forever` over `ExclusiveJob` | `ExclusiveJob` |
| `MCBackgroundJobPlugin` | the clock for its runs | `BackgroundJobPlugin` |
| `BackgroundJobPluginProofs` | refinement and task survival | `BackgroundJobPlugin`, `ExclusiveJobProofs` |
| `FactRetention` | what the fact table promises its readers (abstract) | |
| `FactStore` | the fact table, submissions and clean-ups | |
| `FactStoreProofs` | safety of the clean-ups, refinement of `FactRetention` | `FactStore` |
| `FactLog` | what the submission endpoint promises (abstract) | |
| `FactSubmission` | clients, the role, the request path and the pool | |
| `MCFactSubmission` | values for its runs | `FactSubmission` |
| `FactSubmissionProofs` | invariant and refinement of `FactLog` | `FactSubmission` |
| `CmdbViews` | the seven views over a changing table | |
| `MCCmdbViews` | the records of its runs | `CmdbViews` |
| `CmdbViewsProofs` | what holds for all records | `CmdbViews` |
| `SchemaMigration` | the migration scripts and their transactions | |
| `Deployment` | settings, start, schema check and restart of processes | `SchemaMigration` |
| `MCDeployment` | the configurations of its run | `Deployment` |
| `DeploymentProofs` | invariants of both | `Deployment` |

Definitions whose comment begins with `Mutant:` are plausible mistakes in the
code. They belong to no specification; each shows that a property can fail.

### BackgroundJobLockRepository

The unique index on `name` leaves at most one row per job, so the table is
`rowToken` (`NoToken`: no row) and `acquiredAt`. `InsertRow` is enabled when there
is no row, which is what the index decides; `TakeOverRow` has the WHERE of the
conditional UPDATE; `RefreshRow` and `DeleteRow` do nothing unless the token
matches. Time is counted in half seconds, so `interval_seconds / 2` is `Interval`
ticks and the stale-lock window is `4 * Interval`.

### ExclusiveJob

`pc` says at which await an invocation is, `work` and `hb` where its two tasks
are. `acquire` is split where it commits: `Insert`, or `InsertConflict` followed
by `TakeOver` or `Skip`; each uses `startedAt`, the `now` read on entry. The
repository base class reports every statement error of the INSERT as its
`IntegrityError`, which `acquire` takes for a conflict: `InsertError` therefore goes
on to the UPDATE as well, with or without a row in the table. A refresh
is sent (`HeartbeatWakes`, which reads the time it will write), committed
(`RefreshCommits`) and answered (`HeartbeatSucceeds`, `HeartbeatSuperseded`), and
`HeartbeatError` may replace the answer at any of these points, so an error says
nothing about the commit; the same holds for `AcquireError` and `Finish`.

`Cancel` is the shutdown's `task.cancel()`, split by the await it hits:
`CancelOutside` (the task ends and a row may stay behind), `CancelWait`
(`asyncio.wait` does not cancel what it waits for: the work runs on while the
finally block releases the row) and `CancelSuppressed` (the three
`contextlib.suppress` blocks). `Crash` loses everything but the row; `Restart`
starts with an empty worker. Work that an invocation left behind stays in `work`
until it ends, also when `pc` is idle again or the task has stopped.

Abstracted: tokens are model values, drawn fresh among those nobody remembers;
the work is a task that may end at any time; the five seconds of the heartbeat
join are a choice at any time; an exception raised by the work takes the same path
as its result.

`clock` is time as `time.monotonic()` measures it, which every host agrees on;
`datetime.now(UTC)` is `Now(w, t)`, ahead of it by `Ahead[w]`, at most `MaxSkew`.
So `acquired_at` is written by the owner's clock and judged by the challenger's,
while the heartbeat's `last_successful_refresh` and the timers are not skewed. The
offset of a host is a constant: a wall clock that is stepped is not modelled.

`MaxDelay` is the assumption on timing: how late a timer fires and how long a
statement takes. The safety properties about the lease are stated in terms of it,
and it may be as large as one likes.

### JobLease

`JobLease` is the promise: one owner at most, and a worker that has heard from the
database may rely on being the only one until `Window` ticks later. `ExclusiveJob`
implements it (`ImplementsJobLease`) with the worker whose token is in the row as
`owner` and, for a supervised worker, `refreshedAt` plus `LeaseWindow` as `until`.
`LeaseWindow` is the stale-lock window less `MaxDelay` and `MaxSkew`: how much of
`2 * interval_seconds` a deployment can count on.

### BackgroundJobPlugin

The scheduler adds the application's state (`app`: off, running, stopping,
closed) and the end of each sleep (`wakeAt`). `pc[w] = "idle"` is the sleep of
`run_forever`, so its `try`/`except` is the way `JobStep` returns there: the
outcomes that are `Exception`s go back to sleep, `CancelledError` stops the task.
`RunJob` awaits the job, which is why there is never a second invocation beside
one in progress; the refinement `ImplementsExclusiveJob` says so.

### FactRetention and FactStore

`FactRetention` is the promise: a record is readable from when it is recorded
until it leaves the retention window or `Keep` newer records of its client have
been recorded; from then on it may be forgotten, at any time but for good. Batches,
jobs and statements do not occur in it. `FactStore` implements it
(`ImplementsFactRetention`) with `stored` as what was recorded and `facts` as what
is readable.

Rows have an id, a client and an `updated_at` set by the application, not at
commit; the JSON columns decide nothing and are left out. `SelectBatch` takes any
`BatchSize` of the eligible rows (`LIMIT` without `ORDER BY`), `DeleteBatch`
deletes those that still exist and commits. `OverLimit` and `NewerRows` are the
subquery and the window function of the history query. Several instances of each
job may be active, since `ExclusiveJob` shows that workers can overlap. `stored`
is a history variable: all rows ever committed. One tick is a day.

### FactLog and FactSubmission

`FactLog` is the promise: a request is recorded at most once, "stored" is told
only of what is recorded, "refused" only of what never will be, "unknown" at any
time. `FactSubmission` implements it (`ImplementsFactLog`) with `recorded` as the
committed rows and `refused` as the requests answered with a 4xx.

A request goes through the stages `received` (rate limit), `admitted` (request
model, body limit, `submit` and the two validators), `connecting`, `inserting`,
`committing`, `answering` and `done`; each stage but the last two can end it. An
exception is answered as the code does it: `Mro` has the base classes,
`exception_handlers` the router's table, `StatusOf` the framework's choice of the
nearest registered class, and `Wrapped` what the repository base class makes of
an SQLAlchemy error: a `StatementError`, which includes the `OperationalError` of a
connection the driver loses or is refused, becomes the repository's
`IntegrityError` and is answered 409; any other, such as the timeout of the pool,
becomes `RepositoryError` and is answered 500; what is no SQLAlchemy error (a
refused socket, a socket timeout) passes unchanged. Errors of the INSERT are
wrapped, those of the COMMIT are not, because the context manager of the
transaction is the service's. A failing COMMIT may have taken effect.

The connection pool of a worker is a set of the requests and job sessions that
hold a connection. The role (`Run`) is the client the code ships: any task before
the POST may fail it, the POST never does (`failed_when: false`), and the verdict
is made from the registered status, `-1` when there was no response. `GiveUp` is
the timeout or a broken connection; the server goes on with the request. Other
clients (`Other`) send whatever they like and are never obliged to do anything.

Abstracted: a payload is one of six kinds, told apart by what the code tests; the
rate limit's window is fixed and its counter is updated in one step; the role's
expected status is 201, its default.

### CmdbViews

`facts` is a set of records with distinct contents; a view is an operator from
records to rows, translated clause by clause: `OrNull` is a LEFT JOIN, `Listed4`
and `Listed6` the WHERE clauses, `Number`, `Macaddr`, `ObjectAddress` and
`TextAddress` the CASE and NULLIF chains with their casts. A cast that PostgreSQL
refuses gives `Error`, and a query fails if any of its rows has one (`Fails`).
Texts stand for classes: valid, empty, missing, junk, loopback with and without a
prefix. An address has its family, since `<<` and `=` are false across families:
`Listed4` hides only IPv4 loopback and `Listed6` only `::1`, whichever array the
text was submitted in. The test for an array in the lateral subqueries is a
qualification on outer columns, which gates the scan of the array. Columns that
only copy a text, and `is_active`, which has no cast, cannot fail and are left out.

### SchemaMigration and Deployment

A migration is a transaction of its own (`migration[m]`): it begins at the
revision it reads, executes the statements of the scripts between there and its
goal one by one (`Statement`), stamps each revision (`Stamp`) and commits them
all (`Commit`), as PostgreSQL's transactional DDL and `begin_transaction` in
`env.py` have it. `CanCreate` and `CanDrop` are when the database refuses a
statement. `Abort` kills a run. A run that another one has overtaken
(`Overtaken`) cannot commit: it meets a relation that exists by now or does not
find the version row it wants to update. The eight indexes and the partitions are
one relation each with their table.

A process of `Deployment` imports the package (`Import`: settings are validated,
cached, and a first application is built), calls the factory (`Factory`), reads
the revision (`get_database_revision`) and compares it with the head of the
scripts on disk (`check_migrations_up_to_date`). `Configure`, `Install` and
`Migrate` happen at any time. `Validates` has the field ranges and the validators
in their order, each on what `_expand_env_vars` left. `outdated` is a history
variable: whether a schema or a release came after the start of the process.

## 3. What is checked

| Run | Properties | Bounds | Shows |
| --- | --- | --- | --- |
| `lease` | `TypeOK`, `LeaseHonoured`, `StandsDown`, `Exclusion`, `ReleasedAfterWork`, `Fencing`, `AcquiredAtAdvances`, `OwnerlessRowYields`, `ImplementsJobLease` | 2 workers, 3 tokens, `Interval` 1, `MaxDelay` 1, `MaxSkew` 1 with one clock ahead, clock to 10 | the lease holds when timers and calls are at most a tick late and clocks a tick apart, and tokens fence |
| `recovery` | `LeaseLossEndsInvocation`, `AbandonedLockRecovers` | 2 workers, 2 tokens, one clock ahead, clock to 4 | invocations end, abandoned rows are taken over |
| `plugin` | `PluginTypeOK`, `TaskSurvives`, `WorkWatched`, `ImplementsExclusiveJob`, `InterruptedJobCloses` | 1 worker, `Jitter` 1, clock to 9 | the scheduler uses the lock as intended and leaves no work behind while it runs |
| `cleanup` | `TypeOK`, `NewestKept`, `CleanupComplete`, `ImplementsFactRetention`, `JobEnds`, `ExpiredPurged` | 1 client, 3 ids, limit 1, batch 1, 1 retention and 2 history jobs | stale batches are harmless, clean-ups are complete and end |
| `submission` | `TypeOK`, `ConnectionsAccounted`, `VerdictHonest`, `StatusTellsStage`, `ImplementsFactLog`, `RequestEnds`, `RunEnds` | one role run and one other request behind one address, 1 worker, 1 job session, limit 1, pool of 1 | clients are told the truth, a status tells how far the request got, connections are accounted for, requests and role runs end |
| `views` | `InterfacesAudited`, `LoopbackAloneHidden`, `MissingIsNull`, `PrefixKept`, `HealedByPurgeOnly` | any two of the 80 records of `MCSystemFacts` | what the views list, when they fail and what heals them |
| `deployment` | `TypeOK`, `SchemaMatchesRevision`, `ScriptsApply`, `DriftExplained`, `UsableSettings`, `ServesAgain` | 1 process, 1 migrator, 4 configurations, all revisions | starts, restarts, migrations and releases in any order |
| `shutdown_overlap` | `OneInstance` violated | clock to 5 | section 5, A |
| `takeover_overlap` | `OldWorkerStopped` violated | `MaxDelay` 0 | section 5, B |
| `plugin_shutdown` | `CancelEndsLoop` violated | 1 worker | section 5, C |
| `pool_timeout` | `PoolTimeoutIs504` violated | as `submission` | section 5, D |
| `views_robust` | `AddressViewsRobust` violated | as `views` | section 5, E |

Why the bounds are enough. A takeover needs the row to age four ticks; a lost
lease, its stand-down and a second takeover fit in ten. Two workers are an owner
and a challenger; a third token is the one drawn by the worker that comes back.
With `Interval` 1 the heartbeat fires four times within the window. The bounds in
`LeaseHonoured`, `StandsDown` and `OwnerlessRowYields` are tight: one tick less in any and TLC finds
a counterexample; without the `MaxSkew` in the first it is one in which the
challenger is the host whose clock is ahead. In `recovery` a single worker's window must elapse once, so the
clock reaches 4. In `plugin` the first sleep takes two to four ticks and a
takeover needs four more. In `cleanup` three rows of one client and a limit of one
make two excess rows, so two history jobs hold different stale batches; a clock of
two lets rows expire. Clients are independent in both queries, so one suffices for
TLC; the proofs are for any number. In `submission` two requests share an address,
a pool of one and a limit of one, so each can exhaust what the other needs, and
the job session can hold the whole pool. In `views` two records are what it takes
to see one fail the other; each record is an ordinary host changed in one place,
so that every clause is reached by a value of every class, and every address
class occurs in the arrays of both families. In `deployment` a migrator goes between
all three revisions, killed at any statement. A second one beside the process and
its four configurations is too large for a run, so `deployment` does not exercise a
migration that another has overtaken. For that there are the theorems
`SchemaSafety` and `ScriptSafety`, which are for any number of migrators, and a
check made by hand of `SchemaMigration` alone with three (318,000 states). `CHECK_DEADLOCK` is off because the clock's
bound stops every run in the end, and in `submission` because clients send a
bounded number of requests; `deployment` and the views never stop and check it.

Fairness. `ExclusiveJob`: a live event loop gets to its next ready step
(`WF Progress`), which includes the answer or the failure of a statement, since
the engine's timeouts end it; work that was cancelled ends; time passes; a process
that exited is restarted. Strong fairness on `Begin`, `InsertConflict` and
`TakeOver`, for some worker, says that errors and crashes do not defeat every
attempt for ever; without it nothing could recover. Work that is not cancelled is
never obliged to end. `BackgroundJobPlugin`: the same without restarts; nothing
obliges an application to shut down. `FactStore`: every job is started again, and
its statements do not fail every time; submissions are not obliged to commit, and
they are finitely many because the ids are, so `JobEnds` says that a job ends once
submissions do. `FactSubmission`: weak fairness for the steps of a role run, whose
`uri` task has a timeout, and for a request on a live worker, whose waits are
ended by `pool_timeout` and the statement timeout; nothing obliges a job to return
its connection, a worker to stay up or another client to send. `Deployment`: a
supervisor restarts what ended and a process that refused does end; strong
fairness for the steps of a start says that not every start is killed at the same
step. Nobody is obliged to migrate, so `ServesAgain` assumes that configuration
and schema are in place for good.

## 4. What is proved

All proofs are for every set of workers and tokens, every positive interval and
any `MaxDelay`, `MaxSkew`, offsets of clocks, `Jitter`, batch size and policy value
in range.

`ExclusiveJobProofs`. The inductive invariant `IInv` is `TypeOK` and seven parts.
`TokenInv`: an invocation in progress has a token, and no two have the same, so a
row has one owner. `RowInv`: the row is not dated in the future of its owner's
clock. `PhaseInv`: which tasks exist in which phase of the invocation. `TimeInv`:
how old the times a worker has captured can be. `OwnerInv`: a worker that still
owns the row has confirmed its refresh at most `MaxDelay` after the time in the
row. `SupersededInv`: for one that no longer owns it, the stale-lock window has
passed since that confirmation, less `MaxDelay` and `MaxSkew`. `WorkInv`: there is
work only while its invocation waits for it or for its cancellation, or when
shutdown has orphaned it, and an invocation that cancels its work has lost the
lease. `OwnerInv` and `SupersededInv` are what the lease properties rest on, and
neither is inductive without the others: that a row cannot be taken early needs
the age of the `now` that a takeover carries (`TimeInv`, `RowInv`), and that the
row was this worker's needs `TokenInv`. From `IInv` follow `LeaseSafety`,
`StandDownSafety`, `ExclusionSafety` (one row, `OwnerInv` and `SupersededInv` for
supervised work, and `RunningExplained`, from `WorkInv`, for work that runs
without supervision), `ReleaseSafety`, and the action properties `FencingSafety`,
`AcquiredAtSafety` and `RecoverySafety`, the safety half of
`AbandonedLockRecovers`: an ownerless row is left alone until a challenger takes
it, and `TimeInv` bounds the age up to which one can be turned away. The
assumptions are `TokenAssumption` (`NoToken` is no UUID), `IntervalAssumption`
(the runner refuses other intervals), `TimeAssumption` and `SkewAssumption`. TLC
confirmed `IInv` on the instance of `lease`. `FencingSafety` and
`AcquiredAtSafety` hold whatever `MaxDelay` and `MaxSkew` are: tokens fence
without any timeliness or agreement of clocks.

`LeaseRefinement`: a step of `ExclusiveJob` is a step of `JobLease` or leaves it
alone. Inserts and takeovers are `Grant`: `LeaseHonoured` after the step says that
nobody relied on the lease before it. The start of the work and a successful
refresh are `Confirm`, which for a worker that has lost its row needs a window of
zero or less: `LeaseHonoured` after the step again. Whatever ends supervision or
forgets a token is `GiveUp`, a release because the row it deletes is its own.
`LeaseExclusive` (`JobLeaseProofs`) shows what this is good for: whoever relies on
the lease owns the job alone. `LeasePromise` puts the two together: it
instantiates `JobLeaseProofs` with the refinement mapping, so the theorem about the
abstract lease holds of the invocations.

`BackgroundJobPluginProofs`. `PluginRefinement`: every step of the scheduler is a
step of `ExclusiveJob` or leaves its variables alone, so all the theorems above
carry over; `PluginExclusion`, `PluginFencing` and `PluginLease` state those that
matter most to a deployment. `TaskSurvival` needs two facts of the invariant: only
an application that is not running has a cancelled task, and only a cancelled task
has the outcome "cancelled". `WorkIsWatched` combines the first of them with
`WorkInv`: work outside the two waits belongs to a cancelled invocation, hence to
an application that is stopping or closed.

`FactStoreProofs`. A row is `Doomed` when it is outside the retention window or
has `max_entries` newer rows among all rows ever stored. Doomed rows stay doomed,
rows selected for deletion are doomed when selected (a live row's rank among live
rows is at most its rank among all), hence also when deleted: `NewestKeptSafety`.
`CleanupCompleteness` shows that an empty select of the history query means that
no client exceeds the limit: of a client's rows one is ranked last, because ids
are unique, and its rank is the number of the others. `PolicyAssumption` is the
range check of the two policies.

`RetentionRefinement`: a commit of a submission is `Record`, a batch is `Forget`
because what it deletes is doomed, and everything else leaves the table alone.
That `Record` happens once and with a date that has come needs `PendingInv`: a row
that is about to be committed has not been, and is not dated in the future. `NoResurrection` is proved of `FactRetention`'s
steps alone (nothing is recorded twice) and holds of the table by the refinement.

`PluginTypes` and `StoreTypes` are the type invariants of these two modules.

`FactSubmissionProofs`. The invariant ties a request's stage to the worker that
has it, to its status and its row, and a role run's phase to what it has seen:
only a committed request is past `committing` without an error, a 4xx is decided
only before the transaction or by a statement that failed in it, and a client has
seen a status only if the server decided on it. `ConnectionSafety` needs the
bijection of open transactions and handed-out connections; `LogRefinement` shows
that every step is a step of `FactLog` or a stutter, where `CommitFails` with an
effect is `Record` and the statuses it can answer with are never refusals; that
is a fact about the exception table, computed in the lemmas about `StatusOf`.
`AnswersAreTrue` says what clients have from it, other clients than the role
included: 201 means a row and 4xx means none, in every state, and no client sees a
second answer. Its invariant (`LogHonest`) is one of `FactLog`'s steps.
`StatusSafety` is `StatusTellsStage`: each exception a stage can raise is followed
through `Wrapped` and the table of handlers (`FailureStatuses`), and no other step
decides on a status (`Decides`).
Assumptions: the request and limit assumptions of the module.

`CmdbViewsProofs`, for all sets of records. `OneRecordFails`: a query
over a set fails exactly when it fails for one record of it, as each clause maps
rows one by one; `HealingByPurge` follows, because only a clean-up removes records.
`NoInterfaceEscapes` and `PrefixesKept` follow an interface through the LEFT JOIN:
without an address it keeps a row with NULL (`SomeAddressListed`), with one that is not
hidden it has that row. `HiddenLoopback` is the converse for loopback, per family:
the two texts the WHERE clauses are written for have no row (`HostCasts`,
`HostAddresses`) and every other valid address that was submitted has one.
`MissingNeverFails` shows for each cast that a tidy text
does not reach it or casts (`NumberGood`, `MacaddrGood`, `InetGood`,
`TextAddressGood`, `ObjectAddressGood`).

`DeploymentProofs`. `SchemaInv`: the committed relations are those of the
revision, and a running migration has those of the revision it is at, changed by
the statements it has executed (`done`). `ScriptApplies` says that the next
statement is then accepted and `ScriptComplete` that the last one leaves the
relations of the next revision, for each of the four scripts; together they give
`SchemaSafety` and `ScriptSafety` for any number of migrators. `DriftInv` carries
what the process has read and loaded through the start, `SettingsInv` what was
validated; from them follow `DriftSafety` and `SettingsSafety`. The only assumption is that `NoConfig` is no configuration.

Every safety invariant, action property and refinement that a passing run checks is
a theorem. Only model-checked are the liveness properties (`LeaseLossEndsInvocation`,
`AbandonedLockRecovers`, `InterruptedJobCloses`, `JobEnds`, `ExpiredPurged`,
`RequestEnds`, `RunEnds`, `ServesAgain`): they rest on fairness and so on ENABLED,
which is out of the proof system's reach. The theorems are about `Spec`, so they
hold of the fair specifications as well. Nothing here is proved by induction over
data: sets of rows are reasoned about through cardinalities, the scripts of the
migrations statement by statement.

## 5. Where the code and its documentation disagree

A. `lock.py:3-5` and `DESIGN.md:237-240` promise a single running instance. A
shutdown that cancels the invocation in `asyncio.wait` (`lock.py:210`) leaves the
work task running while the finally block deletes the row; another worker may
acquire it at once. Run `shutdown_overlap`.

B. `DESIGN.md:268-271` says that cancelling the work prevents the old worker from
continuing after a takeover. The old worker measures its expiry from its last
successful refresh, strictly, and only when a refresh fails; the row may be taken
over earlier. `Exclusion` and `StandsDown` say what holds instead: of two workers that
work one is at the end of its lease, and supervised overlap is limited to one
heartbeat and two delays. Run `takeover_overlap`.

C. `plugin.py:208-209` says that cancellation is raised again at once. The runner
suppresses `CancelledError` around its own awaits, so a cancellation that arrives
there is lost; the loop sleeps again and the lifespan's `await task` hangs. Run
`plugin_shutdown`. `InterruptedJobCloses` is what holds: a cancellation that
arrives while the invocation waits for its work does close the application.

D. `presentation/api/v1/router.py:49-53` says that an exhausted pool is answered
504. The session checks a connection out at its first statement, inside
`repository.add`, and the repository base class turns the timeout into
`RepositoryError`, so the answer is 500. Run `pool_timeout`. `StatusTellsStage`
is what holds: a request that fails to get a connection is answered 409, 500 or 504.

E. The docstrings of the address views (`add_cmdb_views_000000000001.py:238-240`,
`377-379`) promise NULLs for invalid addresses; a single stored record with one
fails the view for every host until a clean-up deletes it. Run `views_robust`.
`MissingIsNull` and `HealedByPurgeOnly` are what holds.

Smaller ones, met while modelling and without a run of their own:
- The IPv4 view excludes "127.0.0.0/8 addresses" (docstring 242-243,
  `docs/VIEWS.md:54`) with the strict `<<` (line 309): `127.0.0.1/8`, which is
  not strictly inside the network, is listed. No property claims it is
  right; `LoopbackAloneHidden` says what is hidden. The filters go by family: `::1`
  in the `ipv4` array and `127.0.0.1` in the `ipv6` array are listed.
- A COMMIT that fails with `OperationalError` is answered 503, which the OpenAPI
  document of the endpoint does not list (`factcontroller.py:47-221`).
- `docs/DESIGN.md:90` says 409 for connection errors. That is so for those the driver
  reports as statement errors; a refused socket and the timeout of the pool are
  answered 500, a socket timeout 504, and a connection lost at COMMIT 500 or 503.
- `lib/settings.py:88` and `:105` give ">=1" as valid; the policies refuse more
  than 3650 days and 1000 entries, and then every run of the job fails.
- `fact_inventory/__init__.py:12-17` says that importing the module for
  `app_factory` needs no configuration; line 35 builds `app` at import.
- `db_migrations.py:82-84` says that the lexicographically last revision is
  reported; `ORDER BY version_num` with `fetchone()` reports the first. There is
  one head, so it makes no difference today.

`FactStore` does not depend on exclusivity: `NewestKept` and `CleanupComplete`
hold for any number of overlapping clean-ups, so A and B cost duplicated work, not
data.

## 6. Not modelled, and the plan

Not modelled: logs, spans and headers, and the operational endpoints, which keep
no state that other parts read; the resolution of the version string; other
databases than PostgreSQL (on them the views do not exist and the migrations may
not be transactional); the contents of what is stored beyond what the views cast.
The rate-limit store, the exception dispatch, the wrapping of SQLAlchemy errors,
PostgreSQL and Alembic are libraries, modelled from how the code uses them. That a
duplicate row appears when a client repeats a submission whose answer was lost is
the documented append-only behaviour, not an error of the model.

The lock and the fact table are not composed into one machine. A clean-up touches
the lock only before its first batch and after its last, and nothing in the table
depends on the lock: `FactStore` lets any number of instances start and be
interrupted at any time, so whatever the lock, the heartbeat and the scheduler
make the jobs do is one of its behaviours, and its theorems hold of it.

Left to do: a wall clock that is stepped while an invocation runs, and the policy
ranges that `Settings` does not enforce, as part of `Deployment`. To prove: an
abstract schema history that `SchemaMigration` implements, and safety halves of the
other liveness properties, such as what a clean-up's batches have removed for good
when `JobEnds` counts on progress.
