----------------------------- MODULE StaleLocks -----------------------------
(***************************************************************************)
(* Job locks, queue locks and the cleanup that releases the stale ones.     *)
(*                                                                         *)
(* get_job of graphile_worker locks a row of _private_jobs and, for a job   *)
(* with a queue name, the row of its queue; both locks last as long as the  *)
(* job runs.  A crash leaves them behind.  backfill tells a stale lock from *)
(* a live one by its age alone, with one timeout for queue locks and one    *)
(* for job locks.                                                           *)
(*                                                                         *)
(* Time is discrete.  An age is the time since a lock was taken (NOW() -    *)
(* locked_at) and stops growing at MaxAge, past every timeout.  A second is *)
(* Grain units of time.                                                     *)
(***************************************************************************)
EXTENDS Naturals

CONSTANTS
    Workers,       \* runners, each executing one job at a time
    NoWorker,      \* locked_by of an unlocked row
    Jobs,          \* the jobs enqueued
    NoJob,         \* what an idle runner executes
    Queues,        \* names of serial queues
    NoQueue,       \* queue name of a parallel job
    QueueOf,       \* the queue of each job
    MaxAttempts,   \* max_attempts of every job
    MaxRun,        \* longest time a handler runs
    JobTimeout,    \* stale_job_lock_timeout
    QueueTimeout,  \* stale_queue_lock_timeout
    Grain,         \* units of time in a second
    MaxAge,        \* bound: ages are not told apart past this one
    MaxCrashes,    \* bound: number of crashes
    Errors         \* whether a statement of the cleanup may fail

\* Durations are bound to the statements as whole seconds: Duration::as_secs.
AsSecs(t) == (t \div Grain) * Grain

ASSUME StaleLocksAssumption ==
    /\ NoWorker \notin Workers /\ NoJob \notin Jobs /\ NoQueue \notin Queues
    /\ QueueOf \in [Jobs -> Queues \cup {NoQueue}]
    /\ MaxAttempts \in Nat \ {0} /\ MaxRun \in Nat /\ Grain \in Nat \ {0}
    /\ JobTimeout \in Nat /\ QueueTimeout \in Nat
    /\ MaxCrashes \in Nat /\ MaxAge \in Nat /\ Errors \in BOOLEAN
    /\ MaxAge > MaxRun /\ MaxAge > JobTimeout /\ MaxAge > QueueTimeout

VARIABLES
    stage,     \* where each runner is: down, in its startup, or up
    running,   \* the job each runner executes
    age,       \* for how long it has
    jobLock,   \* _private_jobs: locked_by, and the age of locked_at
    queueLock, \* _private_job_queues: the same
    attempts,  \* attempts of each job
    queued,    \* jobs with a row in _private_jobs
    crashes    \* crashes so far

execution == <<running, age>>
vars == <<stage, execution, jobLock, queueLock, attempts, queued, crashes>>

Ages == 0..MaxAge
Lock == [by : Workers \cup {NoWorker}, age : Ages]
Free == [by |-> NoWorker, age |-> 0]
TakenBy(w) == [by |-> w, age |-> 0]
Older(a) == IF a < MaxAge THEN a + 1 ELSE a

\* Mutant of Exhausted: one attempt too many.
ExhaustedLate(j) == attempts[j] > MaxAttempts

Exhausted(j) == attempts[j] >= MaxAttempts
QueueFree(j) == QueueOf[j] # NoQueue => queueLock[QueueOf[j]].by = NoWorker

-----------------------------------------------------------------------------
(* The cleanup statements.                                                  *)

\* Mutants of Stale: a lock is stale at its timeout; half of the timeout is enough.
StaleAtTimeout(lock, timeout) == lock.by # NoWorker /\ lock.age >= AsSecs(timeout)
StaleAtHalf(lock, timeout) == lock.by # NoWorker /\ 2 * lock.age > AsSecs(timeout)

\* locked_at IS NOT NULL AND locked_at < NOW() - timeout
Stale(lock, timeout) == lock.by # NoWorker /\ lock.age > AsSecs(timeout)

\* Mutants of the two statements: the comparison is reversed, so that a lock is
\* released while it is young and never afterwards.
ReleaseYoungQueueLocks(timeout) ==
    queueLock' = [q \in Queues |-> IF queueLock[q].age < AsSecs(timeout) THEN Free
                                   ELSE queueLock[q]]
ReleaseYoungJobLocks(timeout) ==
    jobLock' = [j \in Jobs |-> IF j \in queued /\ jobLock[j].age < AsSecs(timeout) THEN Free
                               ELSE jobLock[j]]

ReleaseStaleQueueLocks(timeout) ==
    queueLock' = [q \in Queues |-> IF Stale(queueLock[q], timeout) THEN Free
                                   ELSE queueLock[q]]
ReleaseStaleJobLocks(timeout) ==
    jobLock' = [j \in Jobs |-> IF j \in queued /\ Stale(jobLock[j], timeout) THEN Free
                               ELSE jobLock[j]]

\* Queue locks first, then job locks: at startup an error ends the cleanup, and
\* the runner goes up all the same; a periodic sweep goes on after an error.
SweepQueues(w) ==
    /\ \/ stage[w] = "down" /\ stage' = [stage EXCEPT ![w] = "startup"]
       \/ stage[w] = "up" /\ stage' = [stage EXCEPT ![w] = "sweep"]
    /\ ReleaseStaleQueueLocks(QueueTimeout)
    /\ UNCHANGED <<execution, jobLock, attempts, queued, crashes>>
SweepQueuesFails(w) ==
    /\ Errors
    /\ \/ stage[w] = "down" /\ stage' = [stage EXCEPT ![w] = "up"]
       \/ stage[w] = "up" /\ stage' = [stage EXCEPT ![w] = "sweep"]
    /\ UNCHANGED <<execution, jobLock, queueLock, attempts, queued, crashes>>
SweepJobs(w) ==
    /\ stage[w] \in {"startup", "sweep"}
    /\ stage' = [stage EXCEPT ![w] = "up"]
    /\ ReleaseStaleJobLocks(JobTimeout)
    /\ UNCHANGED <<execution, queueLock, attempts, queued, crashes>>
SweepJobsFails(w) ==
    /\ Errors
    /\ stage[w] \in {"startup", "sweep"}
    /\ stage' = [stage EXCEPT ![w] = "up"]
    /\ UNCHANGED <<execution, jobLock, queueLock, attempts, queued, crashes>>

-----------------------------------------------------------------------------
(* The worker of graphile_worker and the DLQ scan, as far as locks go.      *)

Fetch(w) ==
    /\ stage[w] \in {"up", "sweep"}
    /\ running[w] = NoJob
    /\ \E j \in queued :
         /\ jobLock[j].by = NoWorker /\ ~Exhausted(j) /\ QueueFree(j)
         /\ jobLock' = [jobLock EXCEPT ![j] = TakenBy(w)]
         /\ queueLock' = [q \in Queues |-> IF q = QueueOf[j] THEN TakenBy(w)
                                           ELSE queueLock[q]]
         /\ attempts' = [attempts EXCEPT ![j] = @ + 1]
         /\ running' = [running EXCEPT ![w] = j]
    /\ age' = [age EXCEPT ![w] = 0]
    /\ UNCHANGED <<stage, queued, crashes>>

\* The queue is unlocked by the statement that writes to the job's row, through
\* that row: no row, no unlocking; nor if another runner holds the queue.
UnlockQueueOf(w, j) ==
    queueLock' = [q \in Queues |-> IF q = QueueOf[j] /\ queueLock[q].by = w THEN Free
                                   ELSE queueLock[q]]
Rest(w) ==
    /\ running' = [running EXCEPT ![w] = NoJob]
    /\ age' = [age EXCEPT ![w] = 0]

\* complete_job deletes the row by its id alone.
Complete(w) ==
    /\ running[w] # NoJob
    /\ LET j == running[w]
       IN  \/ j \in queued /\ queued' = queued \ {j} /\ UnlockQueueOf(w, j)
           \/ j \notin queued /\ UNCHANGED <<queued, queueLock>>
    /\ Rest(w)
    /\ UNCHANGED <<stage, jobLock, attempts, crashes>>

\* fail_job only writes to a row this runner still holds.
Fail(w) ==
    /\ running[w] # NoJob
    /\ LET j == running[w]
       IN  \/ /\ j \in queued /\ jobLock[j].by = w
              /\ jobLock' = [jobLock EXCEPT ![j] = Free]
              /\ UnlockQueueOf(w, j)
           \/ /\ ~(j \in queued /\ jobLock[j].by = w)
              /\ UNCHANGED <<jobLock, queueLock>>
    /\ Rest(w)
    /\ UNCHANGED <<stage, attempts, queued, crashes>>

\* process_failed_jobs takes exhausted rows, locked or not.
Capture(j) ==
    /\ j \in queued /\ Exhausted(j)
    /\ queued' = queued \ {j}
    /\ UNCHANGED <<stage, execution, jobLock, queueLock, attempts, crashes>>

Crash(w) ==
    /\ stage[w] # "down"
    /\ crashes < MaxCrashes
    /\ crashes' = crashes + 1
    /\ stage' = [stage EXCEPT ![w] = "down"]
    /\ Rest(w)
    /\ UNCHANGED <<jobLock, queueLock, attempts, queued>>

\* Time passes.  No handler runs longer than MaxRun.
Tick ==
    /\ \A w \in Workers : running[w] # NoJob => age[w] < MaxRun
    /\ age' = [w \in Workers |-> IF running[w] # NoJob THEN Older(age[w]) ELSE age[w]]
    /\ jobLock' = [j \in Jobs |-> IF jobLock[j].by # NoWorker
                                  THEN [jobLock[j] EXCEPT !.age = Older(jobLock[j].age)]
                                  ELSE jobLock[j]]
    /\ queueLock' = [q \in Queues |-> IF queueLock[q].by # NoWorker
                                      THEN [queueLock[q] EXCEPT !.age = Older(queueLock[q].age)]
                                      ELSE queueLock[q]]
    /\ UNCHANGED <<stage, running, attempts, queued, crashes>>

-----------------------------------------------------------------------------
Init ==
    /\ stage = [w \in Workers |-> "down"]
    /\ running = [w \in Workers |-> NoJob]
    /\ age = [w \in Workers |-> 0]
    /\ jobLock = [j \in Jobs |-> Free]
    /\ queueLock = [q \in Queues |-> Free]
    /\ attempts = [j \in Jobs |-> 0]
    /\ queued = Jobs
    /\ crashes = 0

Sweep(w) == SweepQueues(w) \/ SweepQueuesFails(w) \/ SweepJobs(w) \/ SweepJobsFails(w)
Execute(w) == Fetch(w) \/ Complete(w) \/ Fail(w)

Next ==
    \/ \E w \in Workers : Sweep(w) \/ Execute(w) \/ Crash(w)
    \/ \E j \in Jobs : Capture(j)
    \/ Tick

Spec == Init /\ [][Next]_vars
-----------------------------------------------------------------------------
(* Properties.                                                              *)

\* Every variable keeps its type: a job is not fetched once its attempts are used
\* up, and no handler is older than MaxRun.
TypeOK ==
    /\ stage \in [Workers -> {"down", "startup", "up", "sweep"}]
    /\ running \in [Workers -> Jobs \cup {NoJob}]
    /\ age \in [Workers -> 0..MaxRun]
    /\ jobLock \in [Jobs -> Lock]
    /\ queueLock \in [Queues -> Lock]
    /\ attempts \in [Jobs -> 0..MaxAttempts]
    /\ queued \subseteq Jobs
    /\ crashes \in 0..MaxCrashes

\* If the job timeout, in whole seconds, covers the longest handler, no cleanup
\* of any runner hands a job that is being executed to a second one.
JobsLastLess == AsSecs(JobTimeout) >= MaxRun
NoDoubleRun ==
    JobsLastLess => \A v, w \in Workers : running[v] = running[w] /\ v # w => running[v] = NoJob

\* If the queue timeout covers it too, the jobs of one queue run one at a time.
QueuesLastLess == AsSecs(QueueTimeout) >= MaxRun
OnQueue(w, q) == running[w] # NoJob /\ QueueOf[running[w]] = q
OneAtATime == \A q \in Queues, v, w \in Workers : OnQueue(v, q) /\ OnQueue(w, q) => v = w
SerialQueues == QueuesLastLess => OneAtATime

\* "Locks older than this duration are considered stale" (release_stale_job_locks):
\* a sweep takes no younger lock.
OnlyOlderReleased ==
    [][\A j \in Jobs :
          jobLock[j].by # NoWorker /\ jobLock'[j].by = NoWorker
             /\ UNCHANGED running
          => jobLock[j].age > JobTimeout]_vars

-----------------------------------------------------------------------------
(* Progress.                                                                *)

\* Time passes, handlers return, runners are restarted and their tasks polled,
\* and a statement that may fail does not fail forever.
Fairness ==
    /\ WF_vars(Tick)
    /\ \A w \in Workers :
         /\ SF_vars(SweepQueues(w))
         /\ WF_vars(SweepJobs(w) \/ SweepJobsFails(w)) /\ SF_vars(SweepJobs(w))
         /\ SF_vars(Fetch(w)) /\ WF_vars(Complete(w) \/ Fail(w))
    /\ \A j \in Jobs : WF_vars(Capture(j))

FairSpec == Spec /\ Fairness

\* No crash, and no capture of a running job, leaves a job or a queue locked for
\* good: each job is completed or captured, each queue becomes free.
JobsLeave == \A j \in Jobs : <>(j \notin queued)
QueuesRecover == \A q \in Queues : []<>(queueLock[q].by = NoWorker)
=============================================================================
