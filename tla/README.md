# backfill in TLA+

`backfill` is a Rust library around `graphile_worker` (a PostgreSQL job queue). It adds a dead
letter queue (DLQ), the clean-up of locks left by crashed workers, a runner that ties both to the
worker's life, error classification, and an admin API. This directory models that logic, checks it
with TLC on small instances, and proves its central safety properties with TLAPS for every size.

Paths below are relative to `src/` of the crate unless they start with `docs/`, `tests/`,
`README.md` or `CHANGELOG.md`.

## 1. The system

| Component | State it keeps | Operations | Meets |
|---|---|---|---|
| DLQ client, `client/dlq.rs` | table `backfill_dlq` (id, `original_job_id`, `job_key` unique if not NULL, payload, `failure_count`, `requeued_count`, `failed_at`) | `process_failed_jobs` (scan and move), `add_to_dlq`, `requeue_dlq_job`, `delete_dlq_job`, `delete_dlq_by_job_key`, listings, statistics | `_private_jobs`, which it deletes from and requeues into |
| DLQ processor, `start_dlq_processor` | consecutive errors, next wait | scan, wait, stop | cancellation token |
| Cleanup, `client/cleanup.rs` | `locked_at`/`locked_by` of jobs and queues | release stale queue locks, release stale job locks, delete exhausted jobs; at startup and periodically | the worker that owns the locks; the DLQ, whose rows the purge must not precede |
| Enqueue client, `client/enqueue.rs`, `lib.rs` | rows of `_private_jobs` | `enqueue`, `remove_job`, `complete_jobs`, `fail_jobs`; conversion of `JobSpec` | graphile's `add_job`, key replacement |
| Plugins, `dlq_cleanup_plugin.rs`, `permanent_failure_plugin.rs` | none | a statement after `complete_job`; a statement after `fail_job` | DLQ rows by key; job rows by id |
| `WorkerRunner`, `worker.rs` | background tasks, detached worker, gauge `backfill_worker_active` | builder (connect, `init_dlq` twice), `run_until_cancelled` and `spawn_background` (startup, select, joins with timeouts, ways out), `process_available_jobs` | all of the above |
| Admin API, `admin.rs` | none | batches over a listing, paging, `/locks/status`, `/locks/cleanup`, `POST /jobs`, statistics (queue names, three counts for each queue, reads of the DLQ) | DLQ client, cleanup |
| Cleanup health, `metrics.rs` | a timestamp | set by a periodic sweep that succeeded | periodic cleanup |
| Error classification, `errors.rs` | none | text to variant to retryable or not | PermanentFailurePlugin |

What is hard here is that **no operation of the library spans a transaction of more than one
statement**, while several runners, their background tasks, the plugins of other workers and
operators write to the same two tables:

* a scan reads rows and later deletes them by id, without the predicate it read them by;
* a startup scans, releases locks and purges in separate statements;
* a requeue reads a DLQ row, enqueues, and then books;
* an answer of the admin API is put together from reads of tables that move underneath;
* plugins act on a row or a key they remember from before the statement that released it;
* a process may die between any two of these, leaving locks that only their age reveals as stale;
* waits end by a timer, a token or a task, in any order.

PROJECT.json lists every such hazard at its line, and the properties that watch it.

What makes each component correct:

* DLQ client: a job is in one table or the other, captures happen once and only to exhausted jobs,
  a payload is never lost, counters tell the truth.
* Processor: bounded silence, recovery after an outage, stop on cancellation.
* Cleanup: no live lock released, no lock left for ever, nothing purged that the DLQ should keep, and
  no health timestamp after a sweep that failed.
* Specs and classification: values survive their conversions, errors end retries when they should.
* Runner: returns when cancelled, leaves nothing behind, finds its table ready, reports itself truthfully.
* Admin batches: counts add up, limits hold, answers come, pages show every row.
* Admin reads: a verdict, a dry run or a statistic says what is so, as far as separate reads can.

## 2. Modules

| Module | Models | Composes |
|---|---|---|
| `DeadLetter` | both tables, runners (startup, scan, periodic release, execution, plugins, crash), operators | the core: dlq.rs, cleanup.rs, enqueue.rs, both plugins, the startup of worker.rs, `/locks/cleanup` |
| `DurableJobs` | abstract: where each payload is, and the steps between places | - |
| `DeadLetterDurable` | the refinement mapping from `DeadLetter` to `DurableJobs` | both |
| `DeadLetterMC` | instances | |
| `DeadLetterProofs`, `DeadLetterDurableProofs` | theorems about `DeadLetter` and about the refinement | |
| `StaleLocks`, `StaleLocksMC` | job and queue locks with their age, sweeps, timeouts; its theorems are in `LocksAdminProofs` | |
| `LocksAdmin`, `LocksAdminMC`, `LocksAdminProofs` | `/locks/status`, `/locks/cleanup`, the cleanup health timestamp | extends `StaleLocks` |
| `DlqProcessor` | the scan loop, its backoff and cancellation | its scan is `ScanTick` of `DeadLetter` |
| `WorkerRunner`, `WorkerRunnerProofs` | the builder, `run_until_cancelled`, `process_available_jobs` and their background tasks | its startup statements are in `DeadLetter` |
| `RunnerWithProcessor`, `RunnerWithProcessorProofs` | a call with the real scan loop as its DLQ task | `WorkerRunner` and `DlqProcessor`; implements `WorkerRunner` |
| `JobLife`, `JobLifeMC`, `JobLifeProofs` | one job's values: conversions, attempts, error text, capture, requeue | |
| `DlqAdmin`, `DlqAdminMC`, `DlqAdminProofs` | the batch endpoints and the pages of a listing over a changing DLQ | |
| `QueueStats`, `QueueStatsProofs` | the statistics endpoints over changing queues | |

### DeadLetter

`jobs` and `dlq` are functions from row ids to rows; ids come from sequences (`nextJob`,
`nextDlq`) and are not reused. A payload is an *item*, numbered by its `enqueue`; key, attempts and
lock owner are the other columns of a job row that control depends on. `done`, `settled` and
`spawned` are history variables: no guard reads them.

Each action is one SQL statement or one handler outcome:

| Action | Code |
|---|---|
| `StartRunner`, `MoveRow`, `StartupRelease`, `StartupPurge` | `run_until_cancelled`: pre-move, then `startup_cleanup_with_timeouts` |
| `ScanTick`, `MoveRow`, `MoveRowFails` | `process_failed_jobs`: the SELECT, then one CTE per row; an error on a row goes on with the next |
| `ReleaseTick` | a tick of `start_stale_lock_cleanup` |
| `Fetch`, `HandlerSucceeds`, `HandlerFails` | graphile's `get_job`, `complete_job`, `fail_job` (external) |
| `CompleteHook`, `FailHook` | the statements of the two plugins |
| `Enqueue` | `enqueue` with graphile's `add_job` in mode Replace (external): an available row is replaced in place, an unavailable one loses its key and a new row is inserted (the test at `tests/integration_tests_clean.rs:373-377` describes it) |
| `RequeueRead`, `RequeueEnqueue` or `RequeueRefused`, `RequeueBook` | `requeue_dlq_job`; the reply of an enqueue that was applied may be lost |
| `DeleteDlqJob`, `RemoveJob`, `FailJobs`, `AddToDlq` | the client calls of those names. `RemoveJob` is `complete_jobs`, which deletes an unlocked row, and `remove_job`, which deletes it too but takes the key and the attempts from a locked one |
| `LocksCleanupRelease`, `LocksCleanupPurge` | `/locks/cleanup` |
| `Crash` | the process dies; its locks stay |

`Env` chooses the disturbances of an instance (failing statements, operators, `fail_jobs`,
`add_to_dlq`, `/locks/cleanup`), so that each run asks one question. A stale lock is here one whose
owner does not run the job; that age tells the same is what `StaleLocks` shows, and the assumption
(timeouts longer than every job) is the one the documentation of the timeouts asks for. The scan's
`ORDER BY updated_at` is abstracted to any order, `run_at` and retry delays to "some time later".

### DurableJobs

Per payload: *new*, *active* (a row in the queue carries it), *dead* (only a DLQ row does) or
*settled* (succeeded, replaced under its key, dismissed). There is no place for a payload that is
nowhere; `DeadLetterDurable` maps such a state to "lost", which no step of `DurableJobs` produces.

### StaleLocks

`get_job` locks the job's row and its queue's row for as long as the handler runs; `Tick` ages
locks and handlers together. The statements compare `locked_at` with `NOW()` minus the timeout in
whole seconds (`AsSecs`, where `Grain` units make a second). `Capture` deletes exhausted rows,
locked or not, after which `complete_job` and `fail_job` find no row and the queue stays locked
until a sweep. `MaxRun` bounds a handler's run.

### LocksAdmin

An operator uses the lock endpoints, a request at a time, over the running system of `StaleLocks`.
`/locks/status` reads the queue locks (`StatusQueues`) and then the job locks, oldest first and at most
`ListLimit` (`StatusJobs`), and gives a verdict; a dry run of `/locks/cleanup` is three counts, a real one
three statements, each a step. The ages are NUMERIC expressions read as `f64`, which fails on any row, or on none,
as the version of PostgreSQL has it; a status that finds a lock may therefore end in an error even if
no statement fails (`Undecodable`). `allSucceeded` is the flag of the periodic sweep that decides
whether the health timestamp advances. `found`, `begun`, `missed`, `dryRun` and `forecast` are history:
which locks were stale when somebody looked, and what was promised.

### DlqProcessor, WorkerRunner, RunnerWithProcessor

`DlqProcessor` counts time in intervals; the state is the task's position, the time left, the error
counter (saturating), the token and the database.

`WorkerRunner` follows builders and calls through `pc`. A builder connects and runs `init_dlq` twice
(`new` and `build`), and may fail between the table and its indexes, which is what
`dlqTable` ("absent", "bare", "indexed") is for. `run_until_cancelled` (which `spawn_background`
spawns) goes from its startup through `select` to the joins, with every early return;
`process_available_jobs` (`createOnce`, `runOnce`) has no startup, task or gauge. Background tasks are *busy* (in a
statement), *waiting* (in their `select!`) or *stopped*; the DLQ task's `select!` is biased to the
token, the sweep's is not.

`RunnerWithProcessor` puts the loop in the place of that task: `TaskOf` maps the states of the task to
those of the loop, and every step of the loop has to be one `WorkerRunner` allows (`ProcessorFits`).

### JobLife

Here values matter: i16 has `ShortBits` bits, `Clamp` and `AsShort` are the two conversions the
code uses, a parallel job's queue name is NULL in one table and `""` in the other. A job is enqueued by a
`JobSpec` with the values asked for, by one of the helpers with their levels and policies, or by `POST
/jobs`. `QueueNames` has the empty name and "parallel" besides an ordinary one, as the conversions treat
them differently. An error's text is the set of phrases the classification looks for. Whether
`ctx.error` holds what Display or what Debug shows is decided by graphile_worker, not in this
repository; `ShownBy` takes both values.

### DlqAdmin

A batch is a listing, newest first and limited, followed by a statement (three for a requeue) per
row. Time is counted in captures, each with its own `failed_at`: a capture is a statement of its own, and
`NOW()` is its time. A row's place in a listing is the number of rows `Before` it, and LIMIT and
OFFSET are an interval of places (`Slice`). `todo` keeps the `failed_at` the rows were listed by, since
the loop goes on in that order whatever becomes of them. `older_than_days` is not validated and may be
negative, so that a cutoff may lie in the future; `cutoff` keeps the part that has passed (`Past`), as
what is captured after the listing is not in it. A value that overflows the date arithmetic panics
before the listing, a request without effect. A DELETE may fail, or be applied and its reply lost: both
count as a row that was gone (`DeleteFails`). `GET /dlq` is called page by page until
`has_more` is false; `owed` (rows there at the start and unchanged) and `shifted` (callers under whose
pages a row was deleted) are history.

### QueueStats

`GET /status` reads the queue names, then pending, active and failed of each queue, then the DLQ, each
a statement; jobs are enqueued, fall due, are fetched, fail, are exhausted (`fail_jobs`, the permanent failure plugin, `remove_job` of a running
job), disappear (completed, removed or purged), are captured, replaced and dismissed between any two.
`onward` (jobs to be accounted for that have only gone on) and `touched` (jobs written to) are history.
The statements read no more than a row's stage; one request stands for all, as requests only read.

## 3. Runs

All constants of a run are in its `.cfg`. Deadlock is checked for `DeadLetter`, `StaleLocks`,
`LocksAdmin` and `QueueStats`, which never stop; a job's life, a call and a bounded number of requests end
and say `CHECK_DEADLOCK FALSE`.

Runs that pass:

| Run | States | Shows |
|---|---|---|
| `DeadLetterRace` | 2.2 M | two runners, one key enqueued twice, a crash, failing statements, `fail_jobs`, `/locks/cleanup`: `TypeOK`, `OneHome`, `SnapshotsStable`, `CaptureIsMove`, `CaptureOnlyExhausted`, `ExhaustedStays`, `KnownLossesOnly` |
| `DeadLetterSafe` | 1.1 M | one runner, two operators, a crash: `NothingLost`, `RequeuedCount` |
| `DeadLetterDurable` | 67 k | `DeadLetter` implements `DurableJobs` with its progress condition |
| `DeadLetterLiveErrors` | 16 k | `ExhaustedLeaves` with failing statements and `BatchLimit = 1` |
| `LocksAdminSafe` | 1.5 M | two runners and the operator, timeouts equal to the longest run, failing statements: `AdminTypeOK`, `NoDoubleRun`, `SerialQueues`, `HealthyIsTrue`, `CleanupReleasesFound`, `ForecastHolds`, `HealthTimestampHonest` |
| `StaleLocksLive` | 31 k | `JobsLeave`, `QueuesRecover` |
| `RunnerWithProcessorLife` | 74 k | the builder and a call with its scan loop, every configuration and way out, outages that pass cap and saturation: `TypeOK`, `CleanReturn`, `TableReady`, `SilenceBounded`, `ProcessorFits`, `CancelledReturns`, `CancelledDrains`, `Resumes` |
| `JobLifeSafe` | 227 k | `RunsUsedUp`, `RequeueRestores`, `HopelessRunsOnce`, and the ranges of `TypeOK` |
| `DlqAdminBatches` | 409 k | `TypeOK`, `DeletedOnce`, `CleanupComplete`, `PagesShowAll`, `Answered` with failing statements |
| `QueueStatsSafe` | 1.0 M | `TypeOK`, `NoneOverlooked`, `CountsBounded`: what an answer made of many counts still says |

Why the bounds are enough. Two payloads under one key are the least for a replace, a stale snapshot
and a unique-key conflict; a third row (`MaxJobs = 3`) leaves room for a requeue beside them. Two
attempts separate "failed" from "exhausted". Two runners make every race of scanners, of a scanner
and an executor, and of a startup and an executor; a third would be a second copy of one of the
two roles. One crash strikes at every step, and the restarted runner meets what it left. In
`StaleLocks` the timeout, the run and the sweep meet at their boundary (equal values), and a crash
leaves locks for the other runner, for a sweep and for the operator, who has a threshold equal to the
default and a longer one; `ListLimit = 1` cuts the list of two locks. The outages of
`RunnerWithProcessor` outlast the sum of waits up to the cap (2^5 intervals), and its counter saturates
at 7. One call is enough there: calls share nothing but the gauge, which only the configurations below
ask about, and the table, of which `TableAlwaysReady` is proved for any number of builders.
`ShortBits = 6` puts 40 outside the range and 31 at its edge without changing any comparison; the presets
(3, 5, 8, 12) and -20..10 fit inside. The batches' limit is 2 and the page 1 over 3 rows, so that a
listing can be cut and a page lie between two others; two callers delete under each other's hands. In
`QueueStats` each statement counts rows independently of each other, so that two jobs - one that is
counted and one that may be written to - and a queue whose name collides with "default" show
whatever more would; `MaxAttempts = {0, 2}` has the value for which two comparisons differ.

`NothingLost` passes only in an environment that `DeadLetterSafe` names: one runner, a batch limit
above the backlog, no failing statement, no `/locks/cleanup`. Each of the first two and the last, once
lifted, is a counterexample below. `KnownLossesOnly` asks the complementary question where none of this is
assumed: with two runners, failing statements and `/locks/cleanup`, a payload that is neither settled nor
in a table any more was lost in one of three ways the code is known to lose it - a purge took its
exhausted, unlocked job (`StartupLosesJob`, `BatchLimitLosesJob`, `LocksCleanupLosesJob`, or a pre-move that
failed), a capture met its key's DLQ row (`UpsertKeepsOldPayload`), or the hook of an earlier
payload deleted that row (`HookDeletesLaterFailure`).

Runs that find a documented promise broken (quotes under "findings" in PROJECT.json):

| Run | What the code does |
|---|---|
| `DlqHoldsSuccess` | the scan captures a job during its last attempt; it succeeds, and without a key its row stays in the DLQ (`SuccessNotInDlq`, against `tests/plugin_tests.rs:773`) |
| `StartupLosesJob` | a job that another runner exhausts between the pre-move and the purge of a startup is deleted (`NothingLost`, against `README.md:68-69`) |

### Further counterexamples

The other disagreements met while modelling are kept as properties at the end of the modules, each with
a configuration that replays its counterexample: `tlc -config <name>.cfg <module>`. They are not part
of PROJECT.json's runs.

| Configuration, module | Property | What the code does | What it is held against |
|---|---|---|---|
| `DryRunHidesDeletes`, `LocksAdminMC` | `DryRunTellsDeletes` | the dry run leaves out exhausted jobs with stale locks, which the cleanup unlocks and then deletes (`admin.rs:1274`) | `admin.rs:378` |
| `StatusCountsTwice`, `QueueStats` | `TotalCountsJobs` | the total adds active and failed, and a job that runs its last attempt is both (`admin.rs:487`) | the comment there |
| `PagingSkipsRows`, `DlqAdminMC` | `WorkflowReachesAll` | a row deleted between two pages moves the next one onto a page already read (`client/dlq.rs:255`) | `docs/02-dlq.md:699-725` |
| `EmptyQueueNameLost`, `JobLifeMC` | `SerialStaysSerial` | a serial queue whose name is empty comes back from the DLQ as parallel (`client/dlq.rs:348`) | the comment there |
| `BatchLimitLosesJob`, `DeadLetterMC` | `NothingLost` | the purge deletes exhausted jobs beyond the pre-move's LIMIT (`client/dlq.rs:660`) | `README.md:68-69` |
| `LocksCleanupLosesJob`, `DeadLetterMC` | `NothingLost` | `/locks/cleanup` purges with no scan before it (`admin.rs:1301`) | `client/cleanup.rs:241-245` |
| `UpsertKeepsOldPayload`, `DeadLetterMC` | `CaptureKeepsPayload` | the upsert keeps the payload of an earlier job of the key (`client/dlq.rs:713`) | `docs/02-dlq.md:96` |
| `HookDeletesLaterFailure`, `DeadLetterMC` | `HookSparesLaterFailures` | a late success deletes the row of a later payload that failed (`dlq_cleanup_plugin.rs:40`) | `docs/02-dlq.md:26` |
| `CutShortWrongPayload`, `DeadLetterMC` | `OnlyTheFailedIsCutShort` | the hook exhausts a payload that replaced the failed one (`permanent_failure_plugin.rs:71`) | lines 9-11 and 25-27 there |
| `RequeueAfterSuccess`, `DeadLetterMC` | `NoRequeueAfterCleanup` | a requeue under way survives the cleanup of its row (`client/dlq.rs:365`) | `dlq_cleanup_plugin.rs:18-19` |
| `QueueTimeoutBreaksSerial`, `StaleLocksMC` | `OneAtATime` | with a queue timeout below the run time, as the defaults allow, a serial queue runs two jobs (`client/cleanup.rs:32`) | `lib.rs:177-178` |
| `TimeoutTruncated`, `StaleLocksMC` | `OnlyOlderReleased` | fractions of a second are dropped from timeouts (`client/cleanup.rs:105`) | `client/cleanup.rs:100` |
| `FirstBackoffDoubled`, `DlqProcessor` | `FirstRetryAfterInterval` | the first wait after an error is two intervals (`client/dlq.rs:829`) | `client/dlq.rs:784-785` |
| `GaugeLeaks`, `WorkerRunner` | `GaugeZeroAtRest` | error returns leave the gauge at 1 (`worker.rs:674,694`) | `docs/03-metrics.md:49` |
| `GaugeMissesRun`, `WorkerRunner` | `GaugeSeesRunning` | of two runs, the first to end sets the shared gauge to 0 | `worker.rs:643` |
| `WorkerOutlivesRun`, `WorkerRunner` | `WorkerStopsWithRun` | cancellation detaches the worker task and does not stop it (`worker.rs:687`) | `worker.rs:585` |
| `RetryableCutShort`, `JobLifeMC` | `RetryableIsRetried` | the text, not the variant, decides: a `NetworkError` with "host not found" is not retried (`permanent_failure_plugin.rs:54`) | `README.md:70-71` |
| `NonRetryableRetried`, `JobLifeMC` | `NonRetryableCutShort` | if `ctx.error` holds what Debug shows, `InvalidInput` is retried (`errors.rs:114`) | `README.md:70-71` |
| `TotalAttemptsOff`, `JobLifeMC` | `TotalAttemptsMade` | a job is executed `max_attempts` times, one less than `total_attempts` | `retries.rs:43` |
| `ZeroAttemptsNeverRun`, `JobLifeMC` | `NoRetriesStillRuns` | a negative `max_attempts` becomes 0, and the job is never executed | `lib.rs:503` |
| `PriorityWraps`, `JobLifeMC` | `AskedOrderKept` | `POST /jobs` casts an i32 priority to i16 (`admin.rs:528`) | `lib.rs:407` |
| `CleanupTakesRecent`, `DlqAdminMC` | `CleanupSparesRecent` | a row that failed again after the listing is deleted (`admin.rs:892`) | `docs/04-admin-api.md:165` |

## 4. Fairness

* `DeadLetter`: a runner that is down is restarted, its tasks are polled by tokio, handlers return.
  `MoveRow` is strongly fair: a scan that keeps finding the row does not fail on it for ever
  (the loop logs an error and retries at a later tick). Crashes, operators and enqueues are not fair.
* `StaleLocks`: time passes (`Tick`), sweeps run at their interval, a fetch that is enabled again and
  again between ticks happens, a statement that may fail does not fail for ever.
* `RunnerWithProcessor`: what the builder and the call await ends, the joins by their timeouts
  (`WF(Spawn \/ CallAlone)`); a background task that waits is polled and timers fire
  (`WF(ProcessorSteps)` while it waits, `WF(Time)`); `SweepStops` is strongly fair since its `select!` picks
  randomly among ready branches. The statements of the tasks need not return: `CancelledReturns` holds
  all the same, which is the point of the timeouts, while `CancelledDrains` and `Resumes` take it as their
  premise (`StatementsReturn`, `ScansReturn`). The database owes nothing: `Resumes` assumes only that the
  outage ends.
* `DlqAdmin`: a handler that runs is polled until it answers (`WF(Loop(c))`).
* `LocksAdmin`, `JobLife` and `QueueStats` state safety only and assume none.

## 5. What is proved

Each theorem holds for every value of the constants that meets the assumptions named in the modules
(`DeadLetterAssumption`, ...), which TLC evaluates in the runs; further premises stand in the
theorem. `PowersOfTwo` and the range of `2^ShortBits` are arithmetic the provers lack.

`DeadLetterProofs` (all runners, operators, keys, bounds, batch limits, and disturbances):

* `TypeCorrect`: one step per action, on lemmas about `Put`, `Delete` and `AddJob`; the
  conjuncts on executions and requeues (`item \in Items` while under way) make the type of `done` and of
  enqueued rows inductive.
* `ExhaustedForGood`: no writer gives an exhausted row attempts or another payload back, nor reuses an
  id, because `add_job` replaces in place only available rows and the sequence passes every id.
* `SnapshotsAlwaysStable`: a snapshot's row, if it exists, is exhausted and has the snapshot's payload,
  and its id is below the sequence; a step either takes a fresh snapshot or is covered by
  `ExhaustedForGood`. This is why the DELETE by id needs no predicate.
* `DlqKeysUnique`: `UpsertDlq` inserts only if the key has no row, so that `DlqKeyUnique`, which no run asks
  for, is an invariant.
* `LossesKnown`: each step that takes a row from a table is followed to what becomes of its payload
  (`LossStep`). It rests on the invariants above (an upsert touches the row of its key, and a move deletes the
  job it has copied) and on `Owners` and `Holding` without any premise on the environment: a row or a copy
  of one goes with an accepted payload under its key, and a handler that ends holds its row or finds it gone.
* `CaptureMoves`, `CapturesExhausted`, `OneHomeAlways`: assume `"manual_add" \notin Env`, since
  `add_to_dlq` copies. They follow from the stable snapshots and from ids never being reused.
* `RequeuesCounted` (finitely many operators): `CountInv` adds the bookings under way to the counts in the
  rows; they never exceed the requeues made, and equal them unless a statement fails.

`DeadLetterDurableProofs`, under `SafeEnvironment`: operators and `add_to_dlq` but no failing statement,
`fail_jobs` or `/locks/cleanup`; one runner; `BatchLimit >= MaxJobs`; no key with two payloads.

* `NothingIsLost`. Only a purge loses a payload, so the invariant `SafeInv` says why there is nothing to
  lose when it comes: `Covered` - during a startup every exhausted job is in the snapshot still to be
  moved, or its payload is settled, in the DLQ or in a row with attempts left; `Holding` - a running
  handler holds its row and belongs to a runner that is up, so nobody exhausts a job between scan and
  purge; `Owners` - a row or a copy of one goes with an accepted payload under its key, so an upsert
  never meets another payload's row; `Origins` - a DLQ row that names a queued job has its payload,
  so the scan's NOT EXISTS skips only what is safe; `Bounded` - there are never more rows than the LIMIT
  takes, and nobody is inside `/locks/cleanup`. `StartupLosesJob`, `BatchLimitLosesJob`,
  `LocksCleanupLosesJob` and `UpsertKeepsOldPayload` show what happens without the premises.
* `DurableSteps`: from the same invariant, every step of the tables is a step of `DurableJobs` or a
  stutter, the safety half of the refinement.

`LocksAdminProofs`, first about `StaleLocks` alone (all runners, jobs, queues, timeouts, grains and
bounds):

* `TypeCorrect`.
* `JobsRunOnce`: the invariant says that a runner that executes a job which is still queued
  holds its lock, and that the lock is as old as the execution; as no execution outlasts
  `MaxRun <= AsSecs(JobTimeout)`, no sweep takes it.
* `QueuesRunSerially`: the same for queue locks, which survive the capture of the job's row.

then about the whole, with the operator:

* `AdminTypeCorrect`, and for finitely many queues and jobs (`Counted`) `DeskTypeCorrect`: what verdicts
  and dry runs count never exceeds the rows there are.
* `HealthTimestampsHonest`: `HealthInv` follows the locks that were stale when a sweep began; they are
  released or `allSucceeded` is false, through crashes and failing statements.
* `AdminJobsRunOnce`, `AdminQueuesRunSerially`: exclusion survives the operator if his thresholds cover
  the longest run (`DeskCovers`, `DeskCoversQueues`), by the invariants of the two theorems above.
* `HealthyAnswersTrue` (`Counted`): `VerdictSo` - a status that has counted no stale queue lock has found
  none, and with no stale job lock in its list either nothing is found. The list is cut off, but
  oldest first, so that it shows a stale lock if there is one (`ListedShowsStale`).
* `CleanupsReleaseFound`: `FoundStale` - whatever a status has found and nobody has released yet is older
  than the default timeout, as locks only age; `FoundGone` - so the statements of a cleanup with no longer
  a threshold leave none of it, and a lock taken anew is not one of those found.
* `ForecastsHold` (`Counted`): `ForecastSo` - as long as nothing else has happened (`dryRun = "told"`), the
  three counts are still those of the tables, after the release of the queue locks and after that of the
  job locks, when the jobs that are failed and unlocked are those counted and at most those just unlocked.

`WorkerRunnerProofs` (any number of runs): `TypeCorrect`; `ReturnsClean` by `CleanInv` (past a join, its
task has stopped or was abandoned); `TableAlwaysReady` by `TableInv` (a builder that is past
`init_dlq` leaves the index, and nothing removes it).

`RunnerWithProcessorProofs` (every cap of the backoff and saturation of its counter): `LoopFits`, the
refinement - each step of the loop is a step of the task `WorkerRunner` assumes, or a stutter - from
which `ComposedTypeCorrect`, `ComposedReturnsClean` and `ComposedTableReady` follow; and
`SilenceIsBounded`, by `SilenceInv`: while errors are counted, the streak and the wait that is left make at
least twice the last wait less two, the sum of all waits since the first error, which bounds the next one.

`JobLifeProofs` (every width and all values asked for): `TypeCorrect`; `RunsAllUsedUp` and
`RequeuesRestore` by `LifeInv` (attempts equal executions unless cut short; a dead job's DLQ row is the
conversion of the row it had); `HopelessRunOnce` by `HopelessInv`, for errors shown by Display.

`DlqAdminProofs` (any callers, limits and page sizes):

* `TypeCorrect`.
* `CleanupsAreComplete`: a listing shorter than its LIMIT is all there is (`ShortSliceIsAll`); captures
  stamp rows with a later time (`Stamped`), so no row enters the past of a cutoff; hence rows that old are
  always still to be deleted (`OldRowsListed`).
* `PagesAreComplete`: `PagesGoOn` - a row owed and not yet shown has at least as many rows before it as the
  pages have passed. Captures only add rows before it, and without a deletion none of these leaves; when
  `has_more` is false there is no such place left.
* `DeletionsCountedOnce` (finitely many callers): the counts are summed by a recursion over the callers,
  which is replaced by the number of elements of a set, one for each deletion counted (`SumIs`: the two
  agree on every set of callers, since they do not differ on a least one). `EachOnce` then balances these
  against the rows, step by step; `PagesCountNothing` is needed because a page that ends forgets its
  request's count.
* `BatchesWindDown`: `Duty`, at most 3 `Limit` + 3, falls with every step of a batch, stays with every step
  of another, and until it is 0 the guard of a next step is met. This is the variant under `Answered` for
  batches; that the next step is then taken is the fairness TLC's run assumes. Paging has no such bound:
  captures may keep `has_more` true.

`QueueStatsProofs` (all attempts; finitely many jobs and queues, `Finite`):

* `TypeCorrect`.
* `NoJobOverlooked`: `NoneLost` splits the jobs that have only gone on (`onward`) by where the request
  stands: those `Behind` it are no more than it has counted, those `Ahead` are where a statement still to
  come will read them. A job passes from ahead to behind only by a read, since in its queue every
  statement is about a later stage than the one before it, the DLQ comes last, and these jobs only move
  to later stages.
* `AnswersOffByTouched`: `CountsOK` - after any number of statements (`Progress`) the total lies between what the
  jobs nobody has touched contribute to these, and that plus one for each touched job and statement.
  `WeighIs` relates the weights of the property to the sets the statements read.

Every safety invariant and every action property that a passing run checks is stated by a theorem. Only
model-checked: liveness (`ExhaustedLeaves`, `JobsLeave`, `QueuesRecover`, `Resumes`, `CancelledDrains`,
`CancelledReturns`, `Answered`) and the progress condition of `DurableSpec`, which are beyond the
prover. The finiteness of callers, operators, jobs and queues is a premise of the theorems that count
them: the sums and cardinalities mean nothing without it, and a database has no infinite table. Payloads
that share a key are outside `SafeEnvironment`, since the upsert then keeps the older payload.

## 6. What is not modelled

* graphile_worker itself, beyond the effect of the calls above on the rows: priorities and `run_at` in
  the choice of a job, retry delays, LISTEN/NOTIFY, concurrency inside one worker (a runner executes
  one job at a time; more runners stand for more slots), cron.
* PostgreSQL's isolation inside one statement: each statement is atomic.
* Job key modes other than Replace, which no operation of the library uses by itself, and `run_at`.
* DLQ disabled (`dlq_processor_interval = None`) in `DeadLetter`: the purge then is the documented
  fate of exhausted jobs. `WorkerRunner` covers that configuration.
* `docs/dlq_schema.sql`, an alternative to `init_dlq` whose index differs; the models use `init_dlq`.
* Counters, histograms and the gauges `dlq_stats` sets per task: emission that nothing reads back. The
  worker gauge and the health timestamp are modelled, since they claim something of a state.
* The breakdown per task of `GET /dlq/stats`, read in one statement.
* `get_job` and `cancel_job` of the admin API, stubs that answer 501; routing and request parsing; the
  SQL audit wrapper; accessors and constructors.
* Repeated batch requeues as a workflow: they list the newest rows again, and no property of reaching the
  older ones can hold while a row without a key stays in the DLQ after its requeue has succeeded.

## 7. Plan

Done, in this order: `DeadLetter` with its runs and proofs; `DurableJobs`, the refinement and the
proof of its safety half; `StaleLocks` and `LocksAdmin` with the proofs about both; `DlqProcessor`,
`WorkerRunner` and their composition, with the proof that the loop fits; `JobLife`; `DlqAdmin` with paging and
`QueueStats`, each with its proofs.

Left:

1. Variants like `Duty` for the other liveness properties, as action properties: what each step of a join, a
   scan or a sweep makes smaller, so that only the fairness argument itself stays with TLC.
2. The other key modes, once their effect in graphile's `add_job` is to be relied on.
