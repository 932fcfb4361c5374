---------------------------- MODULE WorkerRunner ----------------------------
(***************************************************************************)
(* The life of a WorkerRunner: the builder, which connects and creates the  *)
(* DLQ table twice over, and one call of the runner it builds.  The call is *)
(* run_until_cancelled (or spawn_background, the same in a task of its      *)
(* own): the startup statements, the background tasks it spawns, the        *)
(* graphile worker, and the ways out; or it is process_available_jobs,      *)
(* which only runs the worker once.  Several runners may live in one        *)
(* process; they share the gauge backfill_worker_active and the table.      *)
(* What the startup statements do to the tables is modelled in DeadLetter,  *)
(* when the DLQ task scans in DlqProcessor.                                 *)
(***************************************************************************)
EXTENDS Naturals, FiniteSets

CONSTANT Runs    \* runners, each built once and called once

VARIABLES
    config,     \* which background tasks each run is configured with
    dlqTable,   \* backfill_dlq: "absent", "bare" or "indexed"
    pc,         \* where each builder or call is
    dlqTask,    \* the DLQ processor of each run
    sweepTask,  \* the stale-lock cleanup of each run
    worker,     \* the spawned graphile worker
    cancelled,  \* the cancellation token given to each run
    gauge,      \* backfill_worker_active
    abandoned   \* history: runs that gave up waiting for a task

tasks == <<dlqTask, sweepTask>>
vars == <<config, dlqTable, pc, tasks, worker, cancelled, gauge, abandoned>>

Building == {"new", "newTable", "newIndexes", "configure",
             "build", "buildTable", "buildIndexes"}
Calling == {"startup", "create", "select", "joinDlq", "joinSweep", "finish",
            "createOnce", "runOnce"}
At == Building \cup {"built"} \cup Calling \cup {"ok", "processed", "error"}
Task == {"none", "busy", "waiting", "stopped"}
Returned(r) == pc[r] \in {"ok", "processed", "error"}
Go(r, where) == pc' = [pc EXCEPT ![r] = where]

-----------------------------------------------------------------------------
(* The builder.  WorkerOptionsBuilder::new and, once the jobs, plugins and  *)
(* schedules are added, from_builder do the same: connect, and init_dlq if  *)
(* the DLQ is enabled.  Any of it may fail, and leaves what it has created. *)

OnlyTable == UNCHANGED <<config, tasks, worker, cancelled, gauge, abandoned>>

Connect(r) ==
    /\ \/ pc[r] = "new" /\ Go(r, IF config[r].dlq THEN "newTable" ELSE "configure")
       \/ pc[r] = "build" /\ Go(r, IF config[r].dlq THEN "buildTable" ELSE "built")
    /\ OnlyTable /\ UNCHANGED dlqTable

\* CREATE TABLE IF NOT EXISTS, and then the indexes, the unique one last.
InitTable(r) ==
    /\ \/ pc[r] = "newTable" /\ Go(r, "newIndexes")
       \/ pc[r] = "buildTable" /\ Go(r, "buildIndexes")
    /\ dlqTable' = IF dlqTable = "absent" THEN "bare" ELSE dlqTable
    /\ OnlyTable
InitIndexes(r) ==
    /\ \/ pc[r] = "newIndexes" /\ Go(r, "configure")
       \/ pc[r] = "buildIndexes" /\ Go(r, "built")
    /\ dlqTable' = "indexed"
    /\ OnlyTable

\* Mutant of BuildFails: an error of init_dlq is passed over.
BuildGoesOn(r) ==
    /\ \/ pc[r] \in {"new", "newTable", "newIndexes"} /\ Go(r, "configure")
       \/ pc[r] \in {"build", "buildTable", "buildIndexes"} /\ Go(r, "built")
    /\ OnlyTable /\ UNCHANGED dlqTable

\* A schedule that does not parse ends the builder as an error of the database does.
BuildFails(r) ==
    /\ pc[r] \in Building
    /\ Go(r, "error")
    /\ OnlyTable /\ UNCHANGED dlqTable

Configured(r) ==
    /\ pc[r] = "configure"
    /\ Go(r, "build")
    /\ OnlyTable /\ UNCHANGED dlqTable

\* run_until_cancelled or spawn_background, and process_available_jobs.
Start(r) ==
    /\ pc[r] = "built"
    /\ Go(r, "startup") \/ Go(r, "createOnce")
    /\ OnlyTable /\ UNCHANGED dlqTable

-----------------------------------------------------------------------------
(* The call.                                                                *)

\* Mutant of Startup: the tasks are spawned without regard to the configuration.
StartupSpawnsAll(r) ==
    /\ pc[r] = "startup"
    /\ gauge' = 1
    /\ dlqTask' = [dlqTask EXCEPT ![r] = "busy"]
    /\ sweepTask' = [sweepTask EXCEPT ![r] = "waiting"]
    /\ Go(r, "create")
    /\ UNCHANGED <<config, dlqTable, worker, cancelled, abandoned>>

\* The pre-move and the startup cleanup have ended, well or not; the gauge is set
\* and the configured tasks are spawned.
Startup(r) ==
    /\ pc[r] = "startup"
    /\ gauge' = 1
    /\ dlqTask' = [dlqTask EXCEPT ![r] = IF config[r].dlq THEN "busy" ELSE "none"]
    /\ sweepTask' = [sweepTask EXCEPT ![r] = IF config[r].sweep THEN "waiting" ELSE "none"]
    /\ Go(r, "create")
    /\ UNCHANGED <<config, dlqTable, worker, cancelled, abandoned>>

\* create_worker()? and the spawn of worker.run(), or the call of run_once().
CreateWorker(r) ==
    /\ \/ pc[r] = "create" /\ Go(r, "select")
       \/ pc[r] = "createOnce" /\ Go(r, "runOnce")
    /\ worker' = [worker EXCEPT ![r] = "running"]
    /\ UNCHANGED <<config, dlqTable, tasks, cancelled, gauge, abandoned>>
CreateFails(r) ==
    /\ pc[r] \in {"create", "createOnce"}
    /\ Go(r, "error")
    /\ UNCHANGED <<config, dlqTable, tasks, worker, cancelled, gauge, abandoned>>

\* The select!: the token, or the end of the worker task.  The token drops the
\* handle of the task, which detaches it.
SelectCancelled(r) ==
    /\ pc[r] = "select" /\ cancelled[r]
    /\ Go(r, "joinDlq")
    /\ UNCHANGED <<config, dlqTable, tasks, worker, cancelled, gauge, abandoned>>
SelectEnded(r) ==
    /\ pc[r] = "select"
    /\ \/ worker[r] = "ended" /\ Go(r, "joinDlq") /\ UNCHANGED gauge
       \/ worker[r] = "failed" /\ Go(r, "error") /\ UNCHANGED gauge
       \/ worker[r] = "panicked" /\ Go(r, "error") /\ gauge' = 0
    /\ UNCHANGED <<config, dlqTable, tasks, worker, cancelled, abandoned>>

\* Mutant of JoinDlq: a task that waits for its timer counts as stopped.
JoinDlqWaiting(r) ==
    /\ pc[r] = "joinDlq"
    /\ dlqTask[r] # "busy"
    /\ Go(r, "joinSweep")
    /\ UNCHANGED <<config, dlqTable, tasks, worker, cancelled, gauge, abandoned>>

\* Mutant of JoinDlqTimesOut: the handle is awaited without a timeout.
JoinDlqForever(r) == FALSE

\* timeout(5 s, handle): the task has stopped, or the wait is given up.
JoinDlq(r) ==
    /\ pc[r] = "joinDlq"
    /\ dlqTask[r] \in {"none", "stopped"}
    /\ Go(r, "joinSweep")
    /\ UNCHANGED <<config, dlqTable, tasks, worker, cancelled, gauge, abandoned>>
JoinDlqTimesOut(r) ==
    /\ pc[r] = "joinDlq"
    /\ dlqTask[r] \notin {"none", "stopped"}
    /\ Go(r, "joinSweep")
    /\ abandoned' = abandoned \cup {r}
    /\ UNCHANGED <<config, dlqTable, tasks, worker, cancelled, gauge>>
JoinSweep(r) ==
    /\ pc[r] = "joinSweep"
    /\ sweepTask[r] \in {"none", "stopped"}
    /\ Go(r, "finish")
    /\ UNCHANGED <<config, dlqTable, tasks, worker, cancelled, gauge, abandoned>>
JoinSweepTimesOut(r) ==
    /\ pc[r] = "joinSweep"
    /\ sweepTask[r] \notin {"none", "stopped"}
    /\ Go(r, "finish")
    /\ abandoned' = abandoned \cup {r}
    /\ UNCHANGED <<config, dlqTable, tasks, worker, cancelled, gauge>>

Finish(r) ==
    /\ pc[r] = "finish"
    /\ gauge' = 0
    /\ Go(r, "ok")
    /\ UNCHANGED <<config, dlqTable, tasks, worker, cancelled, abandoned>>

\* process_available_jobs: no scan, no cleanup, no task, no gauge.
OnceEnds(r) ==
    /\ pc[r] = "runOnce"
    /\ \/ worker[r] = "ended" /\ Go(r, "processed")
       \/ worker[r] \in {"failed", "panicked"} /\ Go(r, "error")
    /\ UNCHANGED <<config, dlqTable, tasks, worker, cancelled, gauge, abandoned>>

-----------------------------------------------------------------------------
(* What runs beside the call.                                               *)

\* start_dlq_processor: scans first, and prefers the token to the timer.
DlqScanEnds(r) ==
    /\ dlqTask[r] = "busy"
    /\ dlqTask' = [dlqTask EXCEPT ![r] = "waiting"]
    /\ UNCHANGED <<config, dlqTable, pc, sweepTask, worker, cancelled, gauge, abandoned>>
DlqWakes(r) ==
    /\ dlqTask[r] = "waiting"
    /\ dlqTask' = [dlqTask EXCEPT ![r] = IF cancelled[r] THEN "stopped" ELSE "busy"]
    /\ UNCHANGED <<config, dlqTable, pc, sweepTask, worker, cancelled, gauge, abandoned>>

\* start_stale_lock_cleanup: select! picks any ready branch, the tick included.
SweepTicks(r) ==
    /\ sweepTask[r] = "waiting"
    /\ sweepTask' = [sweepTask EXCEPT ![r] = "busy"]
    /\ UNCHANGED <<config, dlqTable, pc, dlqTask, worker, cancelled, gauge, abandoned>>
SweepEnds(r) ==
    /\ sweepTask[r] = "busy"
    /\ sweepTask' = [sweepTask EXCEPT ![r] = "waiting"]
    /\ UNCHANGED <<config, dlqTable, pc, dlqTask, worker, cancelled, gauge, abandoned>>
SweepStops(r) ==
    /\ sweepTask[r] = "waiting" /\ cancelled[r]
    /\ sweepTask' = [sweepTask EXCEPT ![r] = "stopped"]
    /\ UNCHANGED <<config, dlqTable, pc, dlqTask, worker, cancelled, gauge, abandoned>>

\* worker.run() returns, fails or panics, detached or not.
WorkerEnds(r) ==
    /\ worker[r] = "running"
    /\ \E how \in {"ended", "failed", "panicked"} : worker' = [worker EXCEPT ![r] = how]
    /\ UNCHANGED <<config, dlqTable, pc, tasks, cancelled, gauge, abandoned>>

Cancel(r) ==
    /\ ~cancelled[r]
    /\ cancelled' = [cancelled EXCEPT ![r] = TRUE]
    /\ UNCHANGED <<config, dlqTable, pc, tasks, worker, gauge, abandoned>>

-----------------------------------------------------------------------------
Init ==
    /\ config \in [Runs -> [dlq : BOOLEAN, sweep : BOOLEAN]]
    /\ dlqTable \in {"absent", "bare", "indexed"}
    /\ pc = [r \in Runs |-> "new"]
    /\ dlqTask = [r \in Runs |-> "none"]
    /\ sweepTask = [r \in Runs |-> "none"]
    /\ worker = [r \in Runs |-> "none"]
    /\ cancelled = [r \in Runs |-> FALSE]
    /\ gauge = 0
    /\ abandoned = {}

Build(r) == Connect(r) \/ InitTable(r) \/ InitIndexes(r) \/ BuildFails(r) \/ Configured(r)
Call(r) ==
    \/ Start(r) \/ OnceEnds(r)
    \/ Startup(r) \/ CreateWorker(r) \/ CreateFails(r) \/ SelectCancelled(r) \/ SelectEnded(r)
    \/ JoinDlq(r) \/ JoinDlqTimesOut(r) \/ JoinSweep(r) \/ JoinSweepTimesOut(r) \/ Finish(r)
Beside(r) ==
    \/ DlqScanEnds(r) \/ DlqWakes(r) \/ SweepTicks(r) \/ SweepEnds(r) \/ SweepStops(r)
    \/ WorkerEnds(r) \/ Cancel(r)

Next == \E r \in Runs : Build(r) \/ Call(r) \/ Beside(r)
Spec == Init /\ [][Next]_vars
-----------------------------------------------------------------------------
(* Properties.                                                              *)

\* Every variable keeps its type: the gauge, which several calls set, is 0 or 1, and
\* a run has only the background tasks it is configured with.
TypeOK ==
    /\ config \in [Runs -> [dlq : BOOLEAN, sweep : BOOLEAN]]
    /\ dlqTable \in {"absent", "bare", "indexed"}
    /\ pc \in [Runs -> At]
    /\ dlqTask \in [Runs -> Task] /\ sweepTask \in [Runs -> Task]
    /\ \A r \in Runs : /\ dlqTask[r] # "none" => config[r].dlq
                       /\ sweepTask[r] # "none" => config[r].sweep
    /\ worker \in [Runs -> {"none", "running", "ended", "failed", "panicked"}]
    /\ cancelled \in [Runs -> BOOLEAN]
    /\ gauge \in {0, 1}
    /\ abandoned \subseteq Runs

\* A run that returns Ok without having given up on a task has left none that
\* could still write to the tables; it was cancelled, or had no task to stop.
Idle(task) == task \in {"none", "stopped"}
CleanReturn ==
    \A r \in Runs : pc[r] = "ok" /\ r \notin abandoned =>
        /\ Idle(dlqTask[r]) /\ Idle(sweepTask[r])
        /\ cancelled[r] \/ config[r] = [dlq |-> FALSE, sweep |-> FALSE]

\* Whoever may touch backfill_dlq for a run that has the DLQ enabled - the pre-move,
\* the processor, the hooks of the worker - finds the table and its unique index,
\* which the upsert needs, whatever builders have failed before.
TouchesDlq(r) == /\ config[r].dlq
                 /\ pc[r] = "startup" \/ dlqTask[r] = "busy" \/ worker[r] = "running"
TableReady == \A r \in Runs : TouchesDlq(r) => dlqTable = "indexed"

\* A cancelled run_until_cancelled returns, even if a background task hangs in a statement.
RunUntil(r) == pc[r] \in Calling \ {"createOnce", "runOnce"}
CancelledReturns == \A r \in Runs : cancelled[r] /\ RunUntil(r) ~> Returned(r)

\* If the statements of the background tasks return, the tasks of a cancelled run
\* stop, whichever way the call returned: the error returns skip the joins.
StatementsReturn ==
    \A r \in Runs : []<>(dlqTask[r] # "busy") /\ []<>(sweepTask[r] # "busy")
CancelledDrains ==
    StatementsReturn =>
        \A r \in Runs : cancelled[r] /\ RunUntil(r) ~> (Returned(r) /\ Idle(dlqTask[r]) /\ Idle(sweepTask[r]))

-----------------------------------------------------------------------------
(* What comments and docs say and the code does not keep.                   *)

\* "Decrement worker count before returning error"; "set to 1 on start, 0 on stop":
\* when every call has returned, the gauge is 0.
GaugeZeroAtRest == (\A r \in Runs : Returned(r)) => gauge = 0

\* "Record worker starting (increment active worker count)": while a call waits
\* for its worker, the gauge counts it.
GaugeSeesRunning == (\E r \in Runs : pc[r] = "select") => gauge > 0

\* "Run the worker until the cancellation token is triggered": once the call has
\* returned, its worker does not take jobs.
WorkerStopsWithRun == \A r \in Runs : Returned(r) => worker[r] # "running"
=============================================================================
