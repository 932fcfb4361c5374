----------------------------- MODULE LocksAdmin -----------------------------
(***************************************************************************)
(* The lock endpoints of the admin API and the health timestamp of the      *)
(* periodic sweep, over the locks of StaleLocks.                            *)
(*                                                                         *)
(* GET /locks/status reads the queue locks and then the job locks, oldest   *)
(* first and at most ListLimit of them, and gives a verdict.  POST          *)
(* /locks/cleanup either counts what it would do, in three statements (a    *)
(* dry run), or does it, in three others.  One operator uses them, a        *)
(* request at a time, while the runners go on.                              *)
(***************************************************************************)
EXTENDS StaleLocks, FiniteSets

CONSTANTS
    Default,    \* DEFAULT_QUEUE_LOCK_STALE_MINUTES, DEFAULT_JOB_LOCK_STALE_MINUTES
    Thresholds, \* the thresholds of /locks/cleanup requests, the default ones included
    ListLimit,  \* LIMIT of the job locks of /locks/status
    ManyStale   \* above this number the verdict says "multiple"

Timeouts == [queue : Nat, job : Nat]
ASSUME LocksAdminAssumption ==
    /\ Thresholds \subseteq Timeouts /\ Default \in Thresholds
    /\ ListLimit \in Nat \ {0} /\ ManyStale \in Nat
    /\ \A t \in Thresholds : MaxAge > t.queue /\ MaxAge > t.job
    /\ \A t \in Thresholds : AsSecs(t.queue) = t.queue /\ AsSecs(t.job) = t.job \* minutes
    /\ Queues \cap Jobs = {}

VARIABLES
    desk,         \* the request being served, and what it has read so far
    answer,       \* the answer to it, until something else happens
    allSucceeded, \* of the sweep under way in each runner
    \* History: locks somebody found stale and nobody has released since.
    found,        \* by the last /locks/status
    begun,        \* by the sweep under way in each runner, when it began
    missed,       \* by the sweep that last updated the health timestamp
    \* History: whether a dry run was asked for, or told its counts, with nothing
    \* else happening since it began, and these counts.
    dryRun, forecast

history == <<found, begun, missed, dryRun, forecast>>
allVars == <<vars, desk, answer, allSucceeded, history>>

Idle == [at |-> "idle", limits |-> Default, queues |-> 0]
NoCounts == [limits |-> Default, queues |-> 0, jobs |-> 0, failed |-> 0]

-----------------------------------------------------------------------------
(* What the statements read.                                                *)

StaleQueues(t) == {q \in Queues : Stale(queueLock[q], t)}
StaleJobs(t) == {j \in queued : Stale(jobLock[j], t)}
FailedUnlocked == {j \in queued : Exhausted(j) /\ jobLock[j].by = NoWorker}

\* Mutant of Listed: ORDER BY locked_at DESC.
NewestListed(S) ==
    /\ S \subseteq {j \in queued : jobLock[j].by # NoWorker}
    /\ \/ Cardinality(S) = ListLimit
       \/ S = {j \in queued : jobLock[j].by # NoWorker}
    /\ \A i \in S, j \in queued \ S : jobLock[j].by # NoWorker => jobLock[i].age <= jobLock[j].age

\* WHERE locked_at IS NOT NULL ORDER BY locked_at ASC LIMIT ListLimit
Listed(S) ==
    /\ S \subseteq {j \in queued : jobLock[j].by # NoWorker}
    /\ Cardinality(S) <= ListLimit
    /\ \/ Cardinality(S) = ListLimit
       \/ S = {j \in queued : jobLock[j].by # NoWorker}
    /\ \A i \in S, j \in queued \ S : jobLock[j].by # NoWorker => jobLock[i].age >= jobLock[j].age

Verdict(staleQueues, staleJobs) ==
    CASE staleQueues > 0 -> "unhealthy"
      [] staleQueues = 0 /\ staleJobs > ManyStale -> "multiple"
      [] staleQueues = 0 /\ staleJobs \in 1..ManyStale -> "warning"
      [] staleQueues = 0 /\ staleJobs = 0 -> "healthy"

\* What is left of a set of locks once this step has released some of them.
Kept(S) == {l \in S : \/ l \in Queues /\ queueLock'[l].by # NoWorker
                      \/ l \in queued' /\ jobLock'[l].by # NoWorker}

-----------------------------------------------------------------------------
(* The runners, with the health timestamp.                                  *)

\* A periodic sweep remembers whether its first statement succeeded; what it
\* remembers ends with it, by a crash too.
Remember(succeeded, stale) ==
    /\ allSucceeded' = [w \in Workers |-> stage'[w] = "sweep" /\ succeeded[w]]
    /\ begun' = [w \in Workers |-> IF stage'[w] = "sweep" THEN Kept(stale[w]) ELSE {}]

BeginSweep(w, succeeded) ==
    /\ Remember([allSucceeded EXCEPT ![w] = succeeded],
                [begun EXCEPT ![w] = StaleQueues(QueueTimeout) \cup StaleJobs(JobTimeout)])
    /\ missed' = Kept(missed)

\* Mutant of UpdateHealth: the timestamp is updated whatever failed.
UpdateHealthAlways(w) == missed' = Kept(begun[w])

\* update_cleanup_health_timestamp, called if both statements succeeded.
UpdateHealth(w) ==
    missed' = IF stage[w] = "sweep" /\ allSucceeded[w] THEN Kept(begun[w]) ELSE Kept(missed)

SweepStep(w) ==
    \/ SweepQueues(w) /\ BeginSweep(w, TRUE)
    \/ SweepQueuesFails(w) /\ BeginSweep(w, FALSE)
    \/ SweepJobs(w) /\ Remember(allSucceeded, begun) /\ UpdateHealth(w)
    \/ SweepJobsFails(w) /\ Remember(allSucceeded, begun) /\ missed' = Kept(missed)

OtherStep ==
    /\ \/ \E w \in Workers : Execute(w) \/ Crash(w)
       \/ \E j \in Jobs : Capture(j)
       \/ Tick
    /\ Remember(allSucceeded, begun) /\ missed' = Kept(missed)

RunnerStep ==
    /\ (\E w \in Workers : SweepStep(w)) \/ OtherStep
    /\ found' = Kept(found)
    /\ dryRun' = "outdated" /\ forecast' = NoCounts
    /\ answer' = "none"
    /\ UNCHANGED desk

-----------------------------------------------------------------------------
(* GET /locks/status.                                                       *)

ReadOnly == UNCHANGED <<vars, allSucceeded, begun, missed>>

StatusQueues ==
    /\ desk.at = "idle"
    /\ desk' = [Idle EXCEPT !.at = "status",
                            !.queues = Cardinality(StaleQueues(Default.queue))]
    /\ found' = StaleQueues(Default.queue)
    /\ answer' = "none"
    /\ ReadOnly /\ UNCHANGED <<dryRun, forecast>>

StatusJobs ==
    /\ desk.at = "status"
    /\ \E S \in SUBSET queued :
         /\ Listed(S)
         /\ answer' = Verdict(desk.queues, Cardinality(S \cap StaleJobs(Default.job)))
    /\ found' = found \cup StaleJobs(Default.job)
    /\ desk' = Idle
    /\ ReadOnly /\ UNCHANGED <<dryRun, forecast>>

-----------------------------------------------------------------------------
(* POST /locks/cleanup.                                                     *)

DryRunQueues ==
    /\ desk.at = "idle"
    /\ \E t \in Thresholds :
         /\ desk' = [Idle EXCEPT !.at = "dryJobs", !.limits = t]
         /\ forecast' = [NoCounts EXCEPT !.limits = t, !.queues = Cardinality(StaleQueues(t.queue))]
    /\ dryRun' = "asked" /\ answer' = "none"
    /\ ReadOnly /\ UNCHANGED found

\* A count that others have outdated is of no use to anybody.
Count(counts) == forecast' = IF dryRun = "outdated" THEN NoCounts ELSE counts

DryRunJobs ==
    /\ desk.at = "dryJobs"
    /\ desk' = [desk EXCEPT !.at = "dryFailed"]
    /\ Count([forecast EXCEPT !.jobs = Cardinality(StaleJobs(desk.limits.job))])
    /\ ReadOnly /\ UNCHANGED <<answer, found, dryRun>>

\* Mutant of CountFailed: locked rows are counted too.
CountExhausted == Cardinality({j \in queued : Exhausted(j)})

CountFailed == Cardinality(FailedUnlocked)

DryRunFailed ==
    /\ desk.at = "dryFailed"
    /\ Count([forecast EXCEPT !.failed = CountFailed])
    /\ dryRun' = IF dryRun = "asked" THEN "told" ELSE dryRun
    /\ desk' = Idle /\ answer' = "forecast"
    /\ ReadOnly /\ UNCHANGED found

\* Releases and deletions count as what they are to everybody else.
Written ==
    /\ found' = Kept(found)
    /\ begun' = [v \in Workers |-> Kept(begun[v])]
    /\ missed' = Kept(missed)
    /\ UNCHANGED <<stage, execution, attempts, crashes, allSucceeded>>

\* Mutant of CleanupQueues: the job threshold is passed for queue locks too.
CleanupQueuesPatiently ==
    /\ desk.at = "idle"
    /\ \E t \in Thresholds :
         /\ ReleaseStaleQueueLocks(t.job)
         /\ desk' = [Idle EXCEPT !.at = "release", !.limits = t]
    /\ answer' = "none"
    /\ UNCHANGED <<jobLock, queued, dryRun, forecast>> /\ Written

CleanupQueues ==
    /\ desk.at = "idle"
    /\ \E t \in Thresholds :
         /\ ReleaseStaleQueueLocks(t.queue)
         /\ desk' = [Idle EXCEPT !.at = "release", !.limits = t]
    /\ answer' = "none"
    /\ UNCHANGED <<jobLock, queued, dryRun, forecast>> /\ Written

CleanupJobs ==
    /\ desk.at = "release"
    /\ ReleaseStaleJobLocks(desk.limits.job)
    /\ desk' = [desk EXCEPT !.at = "delete"]
    /\ UNCHANGED <<answer, queueLock, queued, dryRun, forecast>> /\ Written

\* cleanup_permanently_failed_jobs: rows just released are among those it deletes.
CleanupFailed ==
    /\ desk.at = "delete"
    /\ queued' = queued \ FailedUnlocked
    /\ desk' = Idle /\ answer' = "cleaned"
    /\ dryRun' = "outdated" /\ forecast' = NoCounts
    /\ UNCHANGED <<jobLock, queueLock>> /\ Written

\* The two listings of /locks/status read locked_minutes as f64.  Where the server
\* returns EXTRACT(EPOCH ...) / 60 as NUMERIC, a row cannot be decoded.
Undecodable ==
    \/ desk.at = "idle" /\ \E q \in Queues : queueLock[q].by # NoWorker
    \/ desk.at = "status" /\ \E j \in queued : jobLock[j].by # NoWorker

\* The first statement that fails, or whose rows cannot be read, ends the request.
RequestFails ==
    /\ (Errors /\ desk.at # "idle") \/ Undecodable
    /\ desk' = Idle /\ answer' = "failed"
    /\ dryRun' = "outdated" /\ forecast' = NoCounts
    /\ ReadOnly /\ UNCHANGED found

Request ==
    \/ StatusQueues \/ StatusJobs
    \/ DryRunQueues \/ DryRunJobs \/ DryRunFailed
    \/ CleanupQueues \/ CleanupJobs \/ CleanupFailed
    \/ RequestFails

-----------------------------------------------------------------------------
AdminInit ==
    /\ Init
    /\ desk = Idle /\ answer = "none"
    /\ allSucceeded = [w \in Workers |-> FALSE]
    /\ found = {} /\ missed = {}
    /\ begun = [w \in Workers |-> {}]
    /\ dryRun = "outdated" /\ forecast = NoCounts

AdminNext == RunnerStep \/ Request

AdminSpec == AdminInit /\ [][AdminNext]_allVars
-----------------------------------------------------------------------------
(* Properties.                                                              *)

\* Every variable keeps its type.
AdminTypeOK ==
    /\ TypeOK
    /\ desk \in [at : {"idle", "status", "dryJobs", "dryFailed", "release", "delete"},
                 limits : Thresholds, queues : 0..Cardinality(Queues)]
    /\ answer \in {"none", "unhealthy", "multiple", "warning", "healthy",
                   "forecast", "cleaned", "failed"}
    /\ allSucceeded \in [Workers -> BOOLEAN]
    /\ found \subseteq Queues \cup Jobs
    /\ begun \in [Workers -> SUBSET (Queues \cup Jobs)]
    /\ missed \subseteq Queues \cup Jobs
    /\ dryRun \in {"outdated", "asked", "told"}
    /\ forecast \in [limits : Thresholds, queues : 0..Cardinality(Queues),
                     jobs : 0..Cardinality(Jobs), failed : 0..Cardinality(Jobs)]

\* /locks/status says "healthy" only if no lock was stale when its statements
\* read the tables, the job locks beyond its LIMIT included.
HealthyIsTrue == answer = "healthy" => found = {}

\* Every queue lock a status has found stale is gone when a cleanup with a queue
\* threshold no longer than the default one has answered, whoever released it; and
\* so for job locks.
CleanupReleasesFound ==
    [][desk.at = "delete" /\ answer' = "cleaned"
       => /\ desk.limits.queue <= Default.queue => found' \cap Queues = {}
          /\ desk.limits.job <= Default.job => found' \cap Jobs = {}]_allVars

\* The cleanup that follows a dry run, nothing happening in between, releases as
\* many locks as it counted and deletes, beyond the jobs it counted, only such
\* whose locks it has just released.
Released == [queues |-> Cardinality({q \in Queues : queueLock'[q] # queueLock[q]}),
             jobs |-> Cardinality({j \in Jobs : jobLock'[j] # jobLock[j]}),
             failed |-> Cardinality(queued \ queued')]
Foretold == desk' # desk /\ dryRun = "told" /\ desk'.limits = forecast.limits
ForecastHolds ==
    [][/\ Foretold /\ desk'.at = "release" => Released.queues = forecast.queues
       /\ Foretold /\ desk'.at = "delete" => Released.jobs = forecast.jobs
       /\ dryRun = "told" /\ answer' = "cleaned" /\ desk.limits = forecast.limits
            => Released.failed \in forecast.failed..(forecast.failed + forecast.jobs)]_allVars

\* The health timestamp advances only after a sweep that has left none of the
\* locks that were stale when it began.
HealthTimestampHonest == missed = {}

\* What the comment of dry_run promises: "only report what would be cleaned".
DryRunTellsDeletes ==
    [][dryRun = "told" /\ answer' = "cleaned" /\ desk.limits = forecast.limits
       => Released.failed = forecast.failed]_allVars
=============================================================================
