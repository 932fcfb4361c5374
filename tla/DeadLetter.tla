----------------------------- MODULE DeadLetter -----------------------------
(***************************************************************************)
(* The dead letter queue of backfill: the tables _private_jobs (`jobs') and *)
(* backfill_dlq (`dlq'), the runners that execute jobs, scan for exhausted  *)
(* ones and clean up at startup, and the operators who requeue and delete.  *)
(*                                                                         *)
(* Every action is one SQL statement (or one handler outcome), because no   *)
(* operation of the client wraps several statements in a transaction: what  *)
(* lies between two statements of one operation is where other actors run. *)
(*                                                                         *)
(* A payload is an item 1..MaxItems, numbered in the order of the calls to  *)
(* enqueue.  The DLQ is enabled (dlq_processor_interval = Some(_)).  run_at, *)
(* priorities and retry delays are abstracted: an available job may be      *)
(* fetched at any time, and a scan moves its rows in any order.             *)
(***************************************************************************)
EXTENDS Naturals, FiniteSets, Functions

CONSTANTS
    Workers,      \* runner processes, each executing one job at a time
    Admins,       \* callers of the requeue and lock-cleanup endpoints
    Keys,         \* job keys
    NoKey,        \* a job without a key
    NoWorker,     \* locked_by of an unlocked row
    MaxItems,     \* bound: number of payloads ever enqueued
    KeyOf,        \* the key each payload is enqueued with
    MaxAttempts,  \* max_attempts of every job
    BatchLimit,   \* LIMIT of the scan's SELECT
    MaxJobs,      \* bound: number of rows ever inserted in _private_jobs
    MaxCrashes,   \* bound: number of runner crashes
    MaxCalls,     \* bound: number of requeue, add_to_dlq and lock-cleanup calls
    Env           \* the disturbances of this instance, a subset of Disturbance

Disturbance ==
    { "db_error",        \* a statement sent by the library may fail
      "operator",        \* remove_job, complete_jobs and delete_dlq_job are called
      "fail_jobs",       \* fail_jobs is called
      "manual_add",      \* add_to_dlq is called
      "locks_cleanup" }  \* the admin endpoint /locks/cleanup is called

Items == 1..MaxItems

ASSUME DeadLetterAssumption ==
    /\ MaxItems \in Nat /\ MaxJobs \in Nat
    /\ MaxCrashes \in Nat /\ MaxCalls \in Nat
    /\ MaxAttempts \in Nat \ {0}
    /\ BatchLimit \in Nat \ {0}
    /\ NoKey \notin Keys
    /\ NoWorker \notin Workers
    /\ KeyOf \in [Items -> Keys \cup {NoKey}]
    /\ Env \subseteq Disturbance

VARIABLES
    jobs,      \* _private_jobs: row id -> row
    nextJob,   \* the id sequence of _private_jobs
    dlq,       \* backfill_dlq: row id -> row
    nextDlq,   \* the id sequence of backfill_dlq
    runner,    \* how far each runner's startup has come
    batch,     \* rows read by a runner's scan and not yet moved
    exec,      \* the execution in flight on each runner
    admin,     \* the operation in flight of each admin
    nextItem,  \* the next payload to be enqueued
    crashes,   \* crashes so far
    calls,     \* bounded calls so far
    done,      \* history: payloads whose handler has succeeded
    settled,   \* history: payloads replaced under their key or dismissed
    spawned    \* history: jobs inserted by requeues of each DLQ row

queueTable == <<jobs, nextJob>>
dlqTable == <<dlq, nextDlq>>
bounds == <<nextItem, crashes, calls>>
history == <<done, settled, spawned>>
vars == <<queueTable, dlqTable, runner, batch, exec, admin, bounds, history>>

AnyKey == Keys \cup {NoKey}
JobRow == [key : AnyKey, item : Items, attempts : 0..MaxAttempts,
           lockedBy : Workers \cup {NoWorker}]
DlqRow == [origin : Nat, key : AnyKey, item : Items, failures : Nat, requeued : Nat]
Snapshot == [job : Nat, key : AnyKey, item : Items]
Execution == [phase : {"idle", "running", "completeHook", "failHook"},
              job : Nat, key : AnyKey, item : Items \cup {0}, final : BOOLEAN]
Operation == [phase : {"idle", "enqueue", "book", "purge"},
              row : Nat, key : AnyKey, item : Items \cup {0}]

Resting == [phase |-> "idle", job |-> 0, key |-> NoKey, item |-> 0, final |-> FALSE]
NoOperation == [phase |-> "idle", row |-> 0, key |-> NoKey, item |-> 0]

-----------------------------------------------------------------------------
(* Tables.                                                                  *)

EmptyTable == [x \in {} |-> x]
Put(table, id, row) == [x \in DOMAIN table \cup {id} |-> IF x = id THEN row ELSE table[x]]
Delete(table, ids) == Restrict(table, DOMAIN table \ ids)

NewRow(k, i) == [key |-> k, item |-> i, attempts |-> 0, lockedBy |-> NoWorker]

\* Mutant of Available: attempts are not compared with max_attempts.
UnlockedOnly(j) == jobs[j].lockedBy = NoWorker

\* The column is_available of _private_jobs.
Available(j) == jobs[j].lockedBy = NoWorker /\ jobs[j].attempts < MaxAttempts
Exhausted(j) == jobs[j].attempts >= MaxAttempts

\* A lock whose owner no longer runs the job: what the stale-lock timeout
\* identifies when it is longer than every job (see StaleLocks).
Orphaned(j) ==
    /\ jobs[j].lockedBy # NoWorker
    /\ ~ \E w \in Workers :
          jobs[j].lockedBy = w /\ exec[w].phase = "running" /\ exec[w].job = j

Holders(k) == {j \in DOMAIN jobs : k # NoKey /\ jobs[j].key = k}

\* Mutant of ReplaceInPlace: a job that is not available is replaced in place too.
ReplaceAnyInPlace(k, i) ==
    \E j \in Holders(k) :
        /\ jobs' = [jobs EXCEPT ![j] = NewRow(k, i)]
        /\ settled' = settled \cup ({jobs[j].item} \ {i})
        /\ UNCHANGED nextJob

\* add_job of graphile_worker with JobKeyMode::Replace: an available job with
\* the key is replaced in place, an unavailable one loses its key (and perhaps
\* its remaining attempts) and a new row is inserted.
ReplaceInPlace(k, i) ==
    \E j \in Holders(k) :
        /\ Available(j)
        /\ jobs' = [jobs EXCEPT ![j] = NewRow(k, i)]
        /\ settled' = settled \cup ({jobs[j].item} \ {i})
        /\ UNCHANGED nextJob
Keyless(row, attempts) == [row EXCEPT !.key = NoKey, !.attempts = attempts]
InsertBeside(k, i) ==
    \E j \in Holders(k) :
        /\ ~Available(j)
        /\ nextJob <= MaxJobs
        /\ \E n \in {jobs[j].attempts, MaxAttempts} :
              jobs' = Put([jobs EXCEPT ![j] = Keyless(jobs[j], n)], nextJob, NewRow(k, i))
        /\ settled' = settled \cup ({jobs[j].item} \ {i})
        /\ nextJob' = nextJob + 1
Insert(k, i) ==
    /\ Holders(k) = {}
    /\ nextJob <= MaxJobs
    /\ jobs' = Put(jobs, nextJob, NewRow(k, i))
    /\ nextJob' = nextJob + 1
    /\ UNCHANGED settled
AddJob(k, i) == ReplaceInPlace(k, i) \/ InsertBeside(k, i) \/ Insert(k, i)

RowsForKey(k) == {d \in DOMAIN dlq : k # NoKey /\ dlq[d].key = k}

\* INSERT INTO backfill_dlq ... ON CONFLICT (job_key) DO UPDATE: a row with the
\* same key only gets a new failed_at, failure_count, reason, error and
\* original_job_id; its payload and its other columns stay.
UpsertDlq(s) ==
    \/ \E d \in RowsForKey(s.key) :
         /\ dlq' = [dlq EXCEPT ![d].origin = s.job, ![d].failures = @ + 1]
         /\ UNCHANGED nextDlq
    \/ /\ RowsForKey(s.key) = {}
       /\ dlq' = Put(dlq, nextDlq, [origin |-> s.job, key |-> s.key, item |-> s.item,
                                    failures |-> 1, requeued |-> 0])
       /\ nextDlq' = nextDlq + 1

SnapshotOf(j) == [job |-> j, key |-> jobs[j].key, item |-> jobs[j].item]

-----------------------------------------------------------------------------
(* The scan: process_failed_jobs.                                           *)

\* Mutants of FailedJobs: the comparison of attempts is off by one, either way.
FailedTooSoon == {j \in DOMAIN jobs :
                    /\ jobs[j].attempts >= MaxAttempts - 1
                    /\ ~ \E d \in DOMAIN dlq : dlq[d].origin = j}
FailedTooLate == {j \in DOMAIN jobs :
                    /\ jobs[j].attempts > MaxAttempts
                    /\ ~ \E d \in DOMAIN dlq : dlq[d].origin = j}

\* Its SELECT: exhausted rows the DLQ does not name, locked ones included.
FailedJobs == {j \in DOMAIN jobs :
                 Exhausted(j) /\ ~ \E d \in DOMAIN dlq : dlq[d].origin = j}
Select(w) ==
    \E S \in SUBSET FailedJobs :
        /\ S = FailedJobs \/ Cardinality(S) = BatchLimit
        /\ Cardinality(S) <= BatchLimit
        /\ batch' = [batch EXCEPT ![w] = {SnapshotOf(j) : j \in S}]

\* Mutants of MoveRow: the row is copied, not deleted; the INSERT does not depend
\* on what the DELETE returns; the DELETE is sent and the INSERT is not.
CopyRow(w) ==
    /\ \E s \in batch[w] :
         /\ batch' = [batch EXCEPT ![w] = @ \ {s}]
         /\ \/ s.job \in DOMAIN jobs /\ UpsertDlq(s)
            \/ s.job \notin DOMAIN jobs /\ UNCHANGED dlqTable
    /\ UNCHANGED <<queueTable, runner, exec, admin, bounds, history>>
MoveBlindly(w) ==
    /\ \E s \in batch[w] :
         /\ batch' = [batch EXCEPT ![w] = @ \ {s}]
         /\ jobs' = Delete(jobs, {s.job})
         /\ UpsertDlq(s)
    /\ UNCHANGED <<nextJob, runner, exec, admin, bounds, history>>
DropRow(w) ==
    /\ \E s \in batch[w] :
         /\ batch' = [batch EXCEPT ![w] = @ \ {s}]
         /\ jobs' = Delete(jobs, {s.job})
    /\ UNCHANGED <<nextJob, dlqTable, runner, exec, admin, bounds, history>>

\* One iteration of the loop: DELETE by id and INSERT of what the SELECT had
\* read, in one statement.  No row deleted: nothing is inserted.
MoveRow(w) ==
    /\ \E s \in batch[w] :
         /\ batch' = [batch EXCEPT ![w] = @ \ {s}]
         /\ \/ /\ s.job \in DOMAIN jobs
               /\ jobs' = Delete(jobs, {s.job})
               /\ UpsertDlq(s)
            \/ /\ s.job \notin DOMAIN jobs
               /\ UNCHANGED <<jobs, dlqTable>>
    /\ UNCHANGED <<nextJob, runner, exec, admin, bounds, history>>

\* The statement fails: logged, and the loop goes on with the next row.
MoveRowFails(w) ==
    /\ "db_error" \in Env
    /\ \E s \in batch[w] : batch' = [batch EXCEPT ![w] = @ \ {s}]
    /\ UNCHANGED <<queueTable, dlqTable, runner, exec, admin, bounds, history>>

\* A tick of the DLQ processor of a running runner.
ScanTick(w) ==
    /\ runner[w] = "up"
    /\ batch[w] = {}
    /\ Select(w)
    /\ UNCHANGED <<queueTable, dlqTable, runner, exec, admin, bounds, history>>

-----------------------------------------------------------------------------
(* Startup of a runner: move to the DLQ, release stale locks, delete what is *)
(* left of the exhausted jobs.                                               *)

\* Mutant of StartRunner: no scan before the startup cleanup.
StartWithoutScan(w) ==
    /\ runner[w] = "down"
    /\ runner' = [runner EXCEPT ![w] = "premove"]
    /\ UNCHANGED <<queueTable, dlqTable, batch, exec, admin, bounds, history>>

StartRunner(w) ==
    /\ runner[w] = "down"
    /\ runner' = [runner EXCEPT ![w] = "premove"]
    /\ \/ Select(w)
       \/ "db_error" \in Env /\ UNCHANGED batch
    /\ UNCHANGED <<queueTable, dlqTable, exec, admin, bounds, history>>

\* Mutant of ReleaseStaleJobLocks: the interrupted attempt is given back.
ReleaseAndRefund ==
    \E R \in SUBSET {j \in DOMAIN jobs : Orphaned(j)} :
        jobs' = [j \in DOMAIN jobs |->
                   IF j \in R THEN [jobs[j] EXCEPT !.lockedBy = NoWorker, !.attempts = @ - 1]
                   ELSE jobs[j]]

\* release_stale_job_locks: which orphaned locks are old enough is open.
ReleaseStaleJobLocks ==
    \E R \in SUBSET {j \in DOMAIN jobs : Orphaned(j)} :
        jobs' = [j \in DOMAIN jobs |->
                   IF j \in R THEN [jobs[j] EXCEPT !.lockedBy = NoWorker] ELSE jobs[j]]

StartupRelease(w) ==
    /\ runner[w] = "premove"
    /\ batch[w] = {}
    /\ \/ ReleaseStaleJobLocks /\ runner' = [runner EXCEPT ![w] = "purge"]
       \/ /\ "db_error" \in Env     \* the error ends the startup cleanup
          /\ runner' = [runner EXCEPT ![w] = "up"]
          /\ UNCHANGED jobs
    /\ UNCHANGED <<nextJob, dlqTable, batch, exec, admin, bounds, history>>

\* Mutant of CleanupPermanentlyFailed: the purge does not look at locked_at.
PurgeLockedToo == jobs' = Delete(jobs, {j \in DOMAIN jobs : Exhausted(j)})

\* cleanup_permanently_failed_jobs: whatever the DLQ holds.
CleanupPermanentlyFailed ==
    jobs' = Delete(jobs, {j \in DOMAIN jobs : Exhausted(j) /\ jobs[j].lockedBy = NoWorker})

StartupPurge(w) ==
    /\ runner[w] = "purge"
    /\ runner' = [runner EXCEPT ![w] = "up"]
    /\ \/ CleanupPermanentlyFailed
       \/ "db_error" \in Env /\ UNCHANGED jobs
    /\ UNCHANGED <<nextJob, dlqTable, batch, exec, admin, bounds, history>>

\* A tick of the periodic stale-lock cleanup.
ReleaseTick(w) ==
    /\ runner[w] = "up"
    /\ ReleaseStaleJobLocks
    /\ UNCHANGED <<nextJob, dlqTable, runner, batch, exec, admin, bounds, history>>

\* The process dies between any two statements; its locks stay.
Crash(w) ==
    /\ runner[w] # "down"
    /\ crashes < MaxCrashes
    /\ crashes' = crashes + 1
    /\ runner' = [runner EXCEPT ![w] = "down"]
    /\ batch' = [batch EXCEPT ![w] = {}]
    /\ exec' = [exec EXCEPT ![w] = Resting]
    /\ UNCHANGED <<queueTable, dlqTable, admin, nextItem, calls, history>>

-----------------------------------------------------------------------------
(* Execution of a job by graphile_worker, and the two plugins.              *)

\* get_job: the attempt is counted when the job is taken.
Fetch(w) ==
    /\ runner[w] = "up"
    /\ exec[w].phase = "idle"
    /\ \E j \in DOMAIN jobs :
         /\ Available(j)
         /\ jobs' = [jobs EXCEPT ![j].attempts = @ + 1, ![j].lockedBy = w]
         /\ exec' = [exec EXCEPT ![w] =
              [phase |-> "running", job |-> j, key |-> jobs[j].key,
               item |-> jobs[j].item, final |-> jobs[j].attempts + 1 >= MaxAttempts]]
    /\ UNCHANGED <<nextJob, dlqTable, runner, batch, admin, bounds, history>>

\* complete_job deletes the row by id; JobComplete is emitted after it.
HandlerSucceeds(w) ==
    /\ exec[w].phase = "running"
    /\ jobs' = Delete(jobs, {exec[w].job})
    /\ done' = done \cup {exec[w].item}
    /\ exec' = [exec EXCEPT ![w] = IF exec[w].key = NoKey THEN Resting
                                   ELSE [exec[w] EXCEPT !.phase = "completeHook"]]
    /\ UNCHANGED <<nextJob, dlqTable, runner, batch, admin, bounds, settled, spawned>>

\* DlqCleanupPlugin: delete_dlq_by_job_key with the key the worker remembers.
\* The success settles the payloads enqueued under that key up to its own.
CompleteHook(w) ==
    /\ exec[w].phase = "completeHook"
    /\ LET rows == RowsForKey(exec[w].key)
       IN  \/ /\ dlq' = Delete(dlq, rows)
              /\ settled' = settled \cup
                   {dlq[d].item : d \in {r \in rows : dlq[r].item <= exec[w].item}}
           \/ "db_error" \in Env /\ UNCHANGED <<dlq, settled>>
    /\ exec' = [exec EXCEPT ![w] = Resting]
    /\ UNCHANGED <<queueTable, nextDlq, runner, batch, admin, bounds, done, spawned>>

\* fail_job unlocks the row if this worker still holds it.  JobFail follows
\* unless the attempt was the last one; only a non-retryable error makes
\* PermanentFailurePlugin act on it.
HandlerFails(w) ==
    /\ exec[w].phase = "running"
    /\ LET j == exec[w].job
       IN  \/ /\ j \in DOMAIN jobs /\ jobs[j].lockedBy = w
              /\ jobs' = [jobs EXCEPT ![j].lockedBy = NoWorker]
           \/ ~(j \in DOMAIN jobs /\ jobs[j].lockedBy = w) /\ UNCHANGED jobs
    /\ \E retryable \in BOOLEAN :
         exec' = [exec EXCEPT ![w] = IF retryable \/ exec[w].final THEN Resting
                                     ELSE [exec[w] EXCEPT !.phase = "failHook"]]
    /\ UNCHANGED <<nextJob, dlqTable, runner, batch, admin, bounds, history>>

\* PermanentFailurePlugin: UPDATE ... WHERE id = $1 AND locked_at IS NULL AND
\* attempts < max_attempts.  Zero rows or an error is only logged.
FailHook(w) ==
    /\ exec[w].phase = "failHook"
    /\ LET j == exec[w].job
           hit == j \in DOMAIN jobs /\ Available(j)
       IN  \/ hit /\ jobs' = [jobs EXCEPT ![j].attempts = MaxAttempts]
           \/ (~hit \/ "db_error" \in Env) /\ UNCHANGED jobs
    /\ exec' = [exec EXCEPT ![w] = Resting]
    /\ UNCHANGED <<nextJob, dlqTable, runner, batch, admin, bounds, history>>

-----------------------------------------------------------------------------
(* Clients and operators.                                                   *)

Enqueue ==
    /\ nextItem <= MaxItems
    /\ AddJob(KeyOf[nextItem], nextItem)
    /\ nextItem' = nextItem + 1
    /\ UNCHANGED <<dlqTable, runner, batch, exec, admin, crashes, calls, done, spawned>>

\* requeue_dlq_job, first statement: read the DLQ row.
RequeueRead(a) ==
    /\ admin[a].phase = "idle"
    /\ \E d \in DOMAIN dlq :
         admin' = [admin EXCEPT ![a] = [phase |-> "enqueue", row |-> d,
                                        key |-> dlq[d].key, item |-> dlq[d].item]]
    /\ calls < MaxCalls
    /\ calls' = calls + 1
    /\ UNCHANGED <<queueTable, dlqTable, runner, batch, exec, nextItem, crashes, history>>

\* Second: enqueue what was read.  If add_job is applied and its reply is lost,
\* the error ends the requeue before it is booked.
RequeueEnqueue(a) ==
    /\ admin[a].phase = "enqueue"
    /\ AddJob(admin[a].key, admin[a].item)
    /\ spawned' = Put(spawned, admin[a].row,
                      1 + IF admin[a].row \in DOMAIN spawned THEN spawned[admin[a].row] ELSE 0)
    /\ \/ admin' = [admin EXCEPT ![a].phase = "book"]
       \/ "db_error" \in Env /\ admin' = [admin EXCEPT ![a] = NoOperation]
    /\ UNCHANGED <<dlqTable, runner, batch, exec, bounds, done>>

\* Mutant of RequeueRefused: AlreadyInProgress is booked like a requeue.
RefusedButBooked(a) ==
    /\ admin[a].phase = "enqueue"
    /\ "db_error" \in Env \/ admin[a].key # NoKey
    /\ admin' = [admin EXCEPT ![a].phase = "book"]
    /\ UNCHANGED <<queueTable, dlqTable, runner, batch, exec, bounds, history>>

\* The enqueue fails, or add_job raced with a worker (AlreadyInProgress).
RequeueRefused(a) ==
    /\ admin[a].phase = "enqueue"
    /\ "db_error" \in Env \/ admin[a].key # NoKey
    /\ admin' = [admin EXCEPT ![a] = NoOperation]
    /\ UNCHANGED <<queueTable, dlqTable, runner, batch, exec, bounds, history>>

\* Third: requeued_count + 1 if the row is still there; an error is only logged.
RequeueBook(a) ==
    /\ admin[a].phase = "book"
    /\ LET d == admin[a].row
       IN  \/ d \in DOMAIN dlq /\ dlq' = [dlq EXCEPT ![d].requeued = @ + 1]
           \/ (d \notin DOMAIN dlq \/ "db_error" \in Env) /\ UNCHANGED dlq
    /\ admin' = [admin EXCEPT ![a] = NoOperation]
    /\ UNCHANGED <<queueTable, nextDlq, runner, batch, exec, bounds, history>>

DeleteDlqJob ==
    /\ "operator" \in Env
    /\ \E d \in DOMAIN dlq :
         dlq' = Delete(dlq, {d}) /\ settled' = settled \cup {dlq[d].item}
    /\ UNCHANGED <<queueTable, nextDlq, runner, batch, exec, admin, bounds, done, spawned>>

\* remove_job and complete_jobs delete an unlocked row.  A locked one is kept:
\* complete_jobs skips it, remove_job takes its key and its remaining attempts.
RemoveJob ==
    /\ "operator" \in Env
    /\ \E j \in DOMAIN jobs :
         /\ \/ jobs[j].lockedBy = NoWorker /\ jobs' = Delete(jobs, {j})
            \/ /\ jobs[j].lockedBy # NoWorker /\ jobs[j].key # NoKey
               /\ jobs' = [jobs EXCEPT ![j] = Keyless(jobs[j], MaxAttempts)]
         /\ settled' = settled \cup {jobs[j].item}
    /\ UNCHANGED <<nextJob, dlqTable, runner, batch, exec, admin, bounds, done, spawned>>

\* fail_jobs exhausts an unlocked row.
FailJobs ==
    /\ "fail_jobs" \in Env
    /\ \E j \in DOMAIN jobs :
         /\ jobs[j].lockedBy = NoWorker
         /\ jobs' = [jobs EXCEPT ![j].attempts = MaxAttempts]
    /\ UNCHANGED <<nextJob, dlqTable, runner, batch, exec, admin, bounds, history>>

\* add_to_dlq: copies a row to the DLQ and leaves it in _private_jobs.
AddToDlq ==
    /\ "manual_add" \in Env
    /\ \E j \in DOMAIN jobs : UpsertDlq(SnapshotOf(j))
    /\ calls < MaxCalls
    /\ calls' = calls + 1
    /\ UNCHANGED <<queueTable, runner, batch, exec, admin, nextItem, crashes, history>>

\* The endpoint /locks/cleanup runs startup_cleanup_with_timeouts and no scan
\* before it.
LocksCleanupRelease(a) ==
    /\ "locks_cleanup" \in Env
    /\ admin[a].phase = "idle"
    /\ ReleaseStaleJobLocks
    /\ admin' = [admin EXCEPT ![a].phase = "purge"]
    /\ calls < MaxCalls
    /\ calls' = calls + 1
    /\ UNCHANGED <<nextJob, dlqTable, runner, batch, exec, nextItem, crashes, history>>

LocksCleanupPurge(a) ==
    /\ admin[a].phase = "purge"
    /\ CleanupPermanentlyFailed \/ ("db_error" \in Env /\ UNCHANGED jobs)
    /\ admin' = [admin EXCEPT ![a] = NoOperation]
    /\ UNCHANGED <<nextJob, dlqTable, runner, batch, exec, bounds, history>>

-----------------------------------------------------------------------------
Init ==
    /\ jobs = EmptyTable /\ nextJob = 1
    /\ dlq = EmptyTable /\ nextDlq = 1
    /\ runner = [w \in Workers |-> "down"]
    /\ batch = [w \in Workers |-> {}]
    /\ exec = [w \in Workers |-> Resting]
    /\ admin = [a \in Admins |-> NoOperation]
    /\ nextItem = 1 /\ crashes = 0 /\ calls = 0
    /\ done = {} /\ settled = {} /\ spawned = EmptyTable

RunnerStep(w) ==
    \/ StartRunner(w) \/ StartupRelease(w) \/ StartupPurge(w)
    \/ ScanTick(w) \/ MoveRow(w) \/ MoveRowFails(w) \/ ReleaseTick(w)
    \/ Fetch(w) \/ HandlerSucceeds(w) \/ CompleteHook(w)
    \/ HandlerFails(w) \/ FailHook(w) \/ Crash(w)

AdminStep(a) ==
    \/ RequeueRead(a) \/ RequeueEnqueue(a) \/ RequeueRefused(a) \/ RequeueBook(a)
    \/ LocksCleanupRelease(a) \/ LocksCleanupPurge(a)

Next ==
    \/ \E w \in Workers : RunnerStep(w)
    \/ \E a \in Admins : AdminStep(a)
    \/ Enqueue \/ DeleteDlqJob \/ RemoveJob \/ FailJobs \/ AddToDlq

Spec == Init /\ [][Next]_vars
-----------------------------------------------------------------------------
(* Properties.                                                              *)

JobsTypeOK ==
    /\ jobs \in [DOMAIN jobs -> JobRow]
    /\ nextJob \in Nat \ {0} /\ DOMAIN jobs \subseteq 1..(nextJob - 1)
DlqTypeOK ==
    /\ dlq \in [DOMAIN dlq -> DlqRow]
    /\ nextDlq \in Nat \ {0} /\ DOMAIN dlq \subseteq 1..(nextDlq - 1)
ActorTypeOK ==
    /\ runner \in [Workers -> {"down", "premove", "purge", "up"}]
    /\ batch \in [Workers -> SUBSET Snapshot]
    /\ exec \in [Workers -> Execution]
    /\ admin \in [Admins -> Operation]
    /\ \A w \in Workers : exec[w].phase # "idle" => exec[w].item \in Items
    /\ \A a \in Admins : admin[a].phase = "enqueue" => admin[a].item \in Items
CounterTypeOK ==
    /\ nextItem \in 1..(MaxItems + 1)
    /\ crashes \in 0..MaxCrashes /\ calls \in 0..MaxCalls
    /\ done \subseteq Items /\ settled \subseteq Items
    /\ spawned \in [DOMAIN spawned -> Nat]

\* Every variable keeps its type: attempts never pass max_attempts, row ids come
\* from the sequences, and an execution or a requeue under way has a payload.
TypeOK == JobsTypeOK /\ DlqTypeOK /\ ActorTypeOK /\ CounterTypeOK

\* A job is never in the queue and in the DLQ at once: the CTE of
\* process_failed_jobs deletes and inserts together (add_to_dlq, which only
\* copies, is not called).
OneHome == \A d \in DOMAIN dlq : dlq[d].origin \notin DOMAIN jobs

\* The DLQ gains or touches a row only while the job it then names leaves
\* _private_jobs in the same step: a job read by two overlapping scans is
\* captured by one of them only.
Touched(d) ==
    \/ d \notin DOMAIN dlq
    \/ dlq'[d].failures # dlq[d].failures
CaptureIsMove ==
    [][\A d \in DOMAIN dlq' :
          Touched(d) => /\ dlq'[d].origin \in DOMAIN jobs
                        /\ dlq'[d].origin \notin DOMAIN jobs']_vars

\* The DELETE of the scan does not repeat the SELECT's predicate.  It need not:
\* whatever ran in between (a replace, a release, a plugin, an operator), a row
\* of a snapshot that still exists is exhausted and carries the payload read.
SnapshotsStable ==
    \A w \in Workers : \A s \in batch[w] :
        s.job \in DOMAIN jobs => Exhausted(s.job) /\ jobs[s.job].item = s.item

\* An exhausted row never gets attempts back nor another payload, whoever writes
\* to it (a replace, a lock release, a plugin, a late handler, an operator), and
\* its id is never given to another job: what a scan has read stays true.
ExhaustedStays ==
    [][/\ \A j \in DOMAIN jobs \cap DOMAIN jobs' :
             jobs[j].attempts >= MaxAttempts =>
                /\ jobs'[j].attempts >= MaxAttempts
                /\ jobs'[j].item = jobs[j].item
       /\ \A j \in DOMAIN jobs' \ DOMAIN jobs : j >= nextJob]_vars

\* A row leaves _private_jobs for the DLQ only if its attempts are used up.
CaptureOnlyExhausted ==
    [][\A d \in DOMAIN dlq' : Touched(d) => Exhausted(dlq'[d].origin)]_vars

\* The partial unique index on job_key: requeues and repeated failures of one
\* logical job never leave two DLQ rows.
DlqKeyUnique ==
    \A d, e \in DOMAIN dlq : dlq[d].key = dlq[e].key /\ d # e => dlq[d].key = NoKey

Settled(i) == i \in done \cup settled
Queued(i) == \E j \in DOMAIN jobs : jobs[j].item = i
Kept(i) == \E d \in DOMAIN dlq : dlq[d].item = i
There(i) == Settled(i) \/ Queued(i) \/ Kept(i)

\* Every payload accepted by enqueue is in the queue, in the DLQ, or settled
\* (it succeeded, was replaced under its key, or was dismissed by an operator).
NothingLost == \A i \in 1..(nextItem - 1) : There(i)

\* What may become of an accepted payload that is not settled: it is gone only
\* if a purge deletes its job, exhausted and unlocked; if its capture meets the
\* DLQ row of another payload of its key; or if a success of an earlier payload
\* of that key deletes its DLQ row.  Nothing else loses one, whatever races with
\* scans, startups, cleanups, hooks and requeues, and whatever statement fails.
Purged(i) ==
    /\ \/ \E w \in Workers : runner[w] = "purge" /\ runner'[w] = "up"
       \/ \E a \in Admins : admin[a].phase = "purge" /\ admin'[a].phase = "idle"
    /\ \E j \in DOMAIN jobs \ DOMAIN jobs' :
          jobs[j].item = i /\ Exhausted(j) /\ jobs[j].lockedBy = NoWorker
Overruled(i) ==
    \E d \in DOMAIN dlq \cap DOMAIN dlq' :
        /\ Touched(d) /\ dlq[d].key = KeyOf[i] /\ dlq[d].key # NoKey
        /\ dlq'[d].origin \in DOMAIN jobs /\ jobs[dlq'[d].origin].item = i
Hooked(i) ==
    \E w \in Workers :
        /\ exec[w].phase = "completeHook" /\ exec'[w].phase = "idle"
        /\ exec[w].key = KeyOf[i] /\ exec[w].item < i
KnownLossesOnly ==
    [][\A i \in 1..(nextItem - 1) :
          There(i) /\ ~There(i)' => Purged(i) \/ Overruled(i) \/ Hooked(i)]_vars

\* requeued_count never claims a requeue that did not enqueue a job, even with
\* the requeues of a row not yet booked; without errors it misses none.
Bookings(d) == Cardinality({a \in Admins : admin[a].phase = "book" /\ admin[a].row = d})
RequeuedCount ==
    \A d \in DOMAIN dlq :
        LET made == IF d \in DOMAIN spawned THEN spawned[d] ELSE 0
        IN  /\ dlq[d].requeued + Bookings(d) <= made
            /\ "db_error" \notin Env => dlq[d].requeued + Bookings(d) = made

-----------------------------------------------------------------------------
(* What the documentation promises and the code does not keep.              *)

\* "Successful job must not appear in DLQ" (tests/plugin_tests.rs): a keyless
\* job that was never requeued and has succeeded has no DLQ row.
SuccessNotInDlq ==
    \A d \in DOMAIN dlq :
        dlq[d].key = NoKey /\ d \notin DOMAIN spawned => dlq[d].item \notin done

\* "Each DLQ entry preserves complete job context" (docs/02-dlq.md): the row
\* that names a captured job as its origin carries that job's payload.
CaptureKeepsPayload ==
    [][\A d \in DOMAIN dlq' :
          Touched(d) => dlq'[d].item = jobs[dlq'[d].origin].item]_vars

\* The DLQ row removed after a success is not that of a later payload, which
\* failed: "no job fails silently" (docs/02-dlq.md).
HookSparesLaterFailures ==
    [][\A w \in Workers :
          exec[w].phase = "completeHook" /\ exec'[w].phase = "idle"
          => \A d \in DOMAIN dlq \ DOMAIN dlq' : dlq[d].item <= exec[w].item]_vars

\* The payload whose retries PermanentFailurePlugin cuts short is the one whose
\* handler returned the non-retryable error.
OnlyTheFailedIsCutShort ==
    [][\A w \in Workers :
          /\ exec[w].phase = "failHook" /\ exec'[w].phase = "idle"
          /\ exec[w].job \in DOMAIN jobs \cap DOMAIN jobs'
          /\ jobs'[exec[w].job].attempts # jobs[exec[w].job].attempts
          => jobs[exec[w].job].item = exec[w].item]_vars

\* "Once a requeued job succeeds, its DLQ entry is removed so it won't be
\* requeued again" (dlq_cleanup_plugin.rs): once the row of a keyed payload
\* that has succeeded is gone, no requeue enqueues that payload.
NoRequeueAfterCleanup ==
    [][\A a \in Admins :
          /\ admin[a].phase = "enqueue" /\ admin'[a].phase = "book"
          /\ admin[a].key # NoKey /\ admin[a].row \notin DOMAIN dlq
          => admin[a].item \notin done]_vars

-----------------------------------------------------------------------------
(* Progress.                                                                *)

\* A runner that is down is restarted, its tasks are polled, handlers return;
\* the database is not forever failing the same statement.
Fairness ==
    \A w \in Workers :
        /\ WF_vars(StartRunner(w)) /\ WF_vars(StartupRelease(w)) /\ WF_vars(StartupPurge(w))
        /\ WF_vars(ScanTick(w)) /\ SF_vars(MoveRow(w)) /\ WF_vars(ReleaseTick(w))
        /\ WF_vars(Fetch(w)) /\ WF_vars(HandlerSucceeds(w) \/ HandlerFails(w))
        /\ WF_vars(CompleteHook(w)) /\ WF_vars(FailHook(w))

FairSpec == Spec /\ Fairness

\* An exhausted job does not stay in _private_jobs: failing statements, the
\* LIMIT, crashes and other runners only delay the scan that takes it.
ExhaustedLeaves ==
    \A j \in 1..MaxJobs :
        (j \in DOMAIN jobs /\ Exhausted(j)) ~> (j \notin DOMAIN jobs)
=============================================================================
