-------------------------- MODULE LocksAdminProofs --------------------------
(* Theorems about the locks, in two parts.  The first is about StaleLocks    *)
(* and uses nothing of LocksAdmin: exclusion of the runners' own sweeps.     *)
(* The second is about LocksAdmin: the exclusion survives the cleanups of an *)
(* operator, the health timestamp hides no stale lock, "healthy" is true, a  *)
(* cleanup leaves nothing of what a status found and does what a dry run     *)
(* foretold.                                                                 *)
EXTENDS LocksAdmin, FiniteSetTheorems, TLAPS

LEMMA SecsAreNat == ASSUME NEW t \in Nat PROVE AsSecs(t) \in Nat
  <1>1. t \div Grain \in Nat
    BY StaleLocksAssumption
  <1>2. QED
    BY <1>1, StaleLocksAssumption DEF AsSecs

LEMMA LockTypes ==
    /\ Free \in Lock /\ \A w \in Workers : TakenBy(w) \in Lock
    /\ \A a \in Ages : Older(a) \in Ages
    /\ \A l \in Lock : [l EXCEPT !.age = Older(l.age)] \in Lock
  <1>1. 0 \in Ages /\ \A a \in Ages : Older(a) \in Ages
    BY StaleLocksAssumption DEF Ages, Older
  <1>2. QED
    BY <1>1 DEF Lock, Free, TakenBy

LEMMA TypeStep ==
    ASSUME TypeOK, [Next]_vars
    PROVE  TypeOK'
  <1> USE DEF TypeOK
  <1>1. ASSUME NEW w \in Workers, Sweep(w) PROVE TypeOK'
    <2>1. /\ stage' \in [Workers -> {"down", "startup", "up", "sweep"}]
          /\ UNCHANGED <<execution, attempts, queued, crashes>>
      BY <1>1 DEF Sweep, SweepQueues, SweepQueuesFails, SweepJobs, SweepJobsFails
    <2>2. queueLock' \in [Queues -> Lock]
      BY <1>1, LockTypes
      DEF Sweep, SweepQueues, SweepQueuesFails, SweepJobs, SweepJobsFails, ReleaseStaleQueueLocks
    <2>3. jobLock' \in [Jobs -> Lock]
      BY <1>1, LockTypes
      DEF Sweep, SweepQueues, SweepQueuesFails, SweepJobs, SweepJobsFails, ReleaseStaleJobLocks
    <2>4. QED
      BY <2>1, <2>2, <2>3 DEF execution
  <1>2. ASSUME NEW w \in Workers, Fetch(w) PROVE TypeOK'
    <2>1. PICK j \in queued :
             /\ ~Exhausted(j)
             /\ jobLock' = [jobLock EXCEPT ![j] = TakenBy(w)]
             /\ queueLock' = [q \in Queues |-> IF q = QueueOf[j] THEN TakenBy(w)
                                               ELSE queueLock[q]]
             /\ attempts' = [attempts EXCEPT ![j] = @ + 1]
             /\ running' = [running EXCEPT ![w] = j]
      BY <1>2 DEF Fetch
    <2>2. attempts' \in [Jobs -> 0..MaxAttempts]
      BY <2>1, StaleLocksAssumption DEF Exhausted
    <2>3. jobLock' \in [Jobs -> Lock] /\ queueLock' \in [Queues -> Lock]
      BY <2>1, LockTypes
    <2>4. QED
      BY <1>2, <2>1, <2>2, <2>3, StaleLocksAssumption DEF Fetch
  <1>3. ASSUME NEW w \in Workers, Complete(w) \/ Fail(w) PROVE TypeOK'
    <2>1. queueLock' \in [Queues -> Lock]
      BY <1>3, LockTypes DEF Complete, Fail, UnlockQueueOf
    <2>2. jobLock' \in [Jobs -> Lock]
      BY <1>3, LockTypes DEF Complete, Fail
    <2>3. running' \in [Workers -> Jobs \cup {NoJob}] /\ age' \in [Workers -> 0..MaxRun]
      BY <1>3, StaleLocksAssumption DEF Complete, Fail, Rest
    <2>4. UNCHANGED <<stage, attempts, crashes>> /\ queued' \subseteq Jobs
      BY <1>3 DEF Complete, Fail
    <2>5. QED
      BY <2>1, <2>2, <2>3, <2>4
  <1>4. ASSUME NEW j \in Jobs, Capture(j) PROVE TypeOK'
    BY <1>4 DEF Capture, execution
  <1>5. ASSUME NEW w \in Workers, Crash(w) PROVE TypeOK'
    BY <1>5, StaleLocksAssumption DEF Crash, Rest
  <1>6. ASSUME Tick PROVE TypeOK'
    <2>1. age' \in [Workers -> 0..MaxRun]
      BY <1>6, StaleLocksAssumption DEF Tick, Older
    <2>2. jobLock' \in [Jobs -> Lock] /\ queueLock' \in [Queues -> Lock]
      BY <1>6, LockTypes DEF Tick
    <2>3. QED
      BY <1>6, <2>1, <2>2 DEF Tick
  <1>7. ASSUME UNCHANGED vars PROVE TypeOK'
    BY <1>7 DEF vars, execution
  <1>8. QED
    BY <1>1, <1>2, <1>3, <1>4, <1>5, <1>6, <1>7 DEF Next, Execute

\* Attempts never pass max_attempts and no handler outlives MaxRun.
THEOREM TypeCorrect == Spec => []TypeOK
  <1>1. Init => TypeOK
    BY LockTypes, StaleLocksAssumption DEF Init, TypeOK
  <1>2. TypeOK /\ [Next]_vars => TypeOK'
    BY TypeStep
  <1>3. QED
    BY <1>1, <1>2, PTL DEF Spec

-----------------------------------------------------------------------------
(* A runner that executes a job holds the lock it took, and the lock is as  *)
(* old as the execution.  This is what exclusion rests on: an age alone     *)
(* identifies stale locks only while it bounds the age of every execution.  *)

Busy(w) == running[w] # NoJob
JobsHeld == JobsLastLess =>
    \A w \in Workers : Busy(w) => jobLock[running[w]] = [by |-> w, age |-> age[w]]
QueuesHeld == QueuesLastLess =>
    \A w \in Workers : Busy(w) /\ QueueOf[running[w]] \in Queues
       => queueLock[QueueOf[running[w]]] = [by |-> w, age |-> age[w]]

LEMMA OlderAges ==
    ASSUME TypeOK, NEW w \in Workers, age[w] < MaxRun
    PROVE  Older(age[w]) = age[w] + 1
  BY StaleLocksAssumption DEF TypeOK, Older

\* A lock as old as an execution is not stale, if the timeout covers MaxRun.
LEMMA LiveNotStale ==
    ASSUME TypeOK, NEW w \in Workers, NEW t \in Nat, AsSecs(t) >= MaxRun
    PROVE  ~Stale([by |-> w, age |-> age[w]], t)
  <1>1. age[w] \in 0..MaxRun /\ AsSecs(t) \in Nat
    BY SecsAreNat DEF TypeOK
  <1>2. QED
    BY <1>1, StaleLocksAssumption DEF Stale

LEMMA JobsHeldStep ==
    ASSUME TypeOK, JobsHeld, [Next]_vars
    PROVE  JobsHeld'
  <1> SUFFICES ASSUME JobsLastLess, NEW w \in Workers, Busy(w)'
               PROVE  jobLock'[running'[w]] = [by |-> w, age |-> age'[w]]
    BY DEF JobsHeld, JobsLastLess, AsSecs
  <1> USE DEF TypeOK
  <1>0. ASSUME Busy(w)
        PROVE  running[w] \in Jobs /\ jobLock[running[w]] = [by |-> w, age |-> age[w]]
    BY <1>0 DEF JobsHeld, Busy
  <1>1. ASSUME UNCHANGED <<execution, jobLock>>
        PROVE  jobLock'[running'[w]] = [by |-> w, age |-> age'[w]]
    BY <1>0, <1>1 DEF execution, Busy
  <1>2. ASSUME NEW v \in Workers, Sweep(v)
        PROVE  jobLock'[running'[w]] = [by |-> w, age |-> age'[w]]
    <2>1. UNCHANGED execution
      BY <1>2 DEF Sweep, SweepQueues, SweepQueuesFails, SweepJobs, SweepJobsFails
    <2>2. Busy(w)
      BY <2>1 DEF Busy, execution
    <2>3. ~Stale(jobLock[running[w]], JobTimeout)
      BY <1>0, <2>2, LiveNotStale, StaleLocksAssumption DEF JobsLastLess
    <2>4. jobLock'[running[w]] = jobLock[running[w]]
      BY <1>0, <1>2, <2>2, <2>3
      DEF Sweep, SweepQueues, SweepQueuesFails, SweepJobs, SweepJobsFails, ReleaseStaleJobLocks
    <2>5. QED
      BY <1>0, <2>1, <2>2, <2>4 DEF execution
  <1>3. ASSUME NEW v \in Workers, Fetch(v)
        PROVE  jobLock'[running'[w]] = [by |-> w, age |-> age'[w]]
    <2>1. PICK j \in queued :
             /\ jobLock[j].by = NoWorker
             /\ jobLock' = [jobLock EXCEPT ![j] = TakenBy(v)]
             /\ running' = [running EXCEPT ![v] = j]
             /\ age' = [age EXCEPT ![v] = 0]
      BY <1>3 DEF Fetch
    <2>2. CASE w = v
      BY <2>1, <2>2 DEF TakenBy
    <2>3. CASE w # v
      <3>1. running'[w] = running[w] /\ age'[w] = age[w] /\ Busy(w)
        BY <2>1, <2>3 DEF Busy
      <3>2. running[w] # j
        BY <1>0, <2>1, <3>1, StaleLocksAssumption
      <3>3. QED
        BY <1>0, <2>1, <3>1, <3>2
    <2>4. QED
      BY <2>2, <2>3
  <1>4. ASSUME NEW v \in Workers, Complete(v) \/ Fail(v)
        PROVE  jobLock'[running'[w]] = [by |-> w, age |-> age'[w]]
    <2>1. running'[v] = NoJob /\ w # v /\ running'[w] = running[w] /\ age'[w] = age[w]
      BY <1>4 DEF Complete, Fail, Rest, Busy
    <2>2. Busy(w) /\ jobLock[running[w]].by = w
      BY <1>0, <2>1 DEF Busy
    <2>3. \/ UNCHANGED jobLock
          \/ jobLock[running[v]].by = v /\ jobLock' = [jobLock EXCEPT ![running[v]] = Free]
      BY <1>4 DEF Complete, Fail
    <2>4. QED
      BY <1>0, <2>1, <2>2, <2>3
  <1>5. ASSUME NEW v \in Workers, Crash(v)
        PROVE  jobLock'[running'[w]] = [by |-> w, age |-> age'[w]]
    <2>1. running'[v] = NoJob /\ w # v /\ running'[w] = running[w] /\ age'[w] = age[w]
      BY <1>5 DEF Crash, Rest, Busy
    <2>2. QED
      BY <1>0, <1>5, <2>1 DEF Crash, Busy
  <1>6. ASSUME Tick
        PROVE  jobLock'[running'[w]] = [by |-> w, age |-> age'[w]]
    <2>1. running'[w] = running[w] /\ Busy(w) /\ age[w] < MaxRun
      BY <1>6 DEF Tick, Busy
    <2>2. age'[w] = age[w] + 1 /\ Older(age[w]) = age[w] + 1
      BY <1>6, <2>1, OlderAges DEF Tick, Busy
    <2>3. jobLock'[running[w]] = [jobLock[running[w]] EXCEPT !.age = Older(jobLock[running[w]].age)]
      BY <1>0, <1>6, <2>1, StaleLocksAssumption DEF Tick
    <2>4. QED
      BY <1>0, <2>1, <2>2, <2>3
  <1>7. ASSUME NEW j \in Jobs, Capture(j) PROVE UNCHANGED <<execution, jobLock>>
    BY <1>7 DEF Capture
  <1>8. QED
    BY <1>1, <1>2, <1>3, <1>4, <1>5, <1>6, <1>7 DEF Next, Execute, vars

LEMMA QueuesHeldStep ==
    ASSUME TypeOK, QueuesHeld, [Next]_vars
    PROVE  QueuesHeld'
  <1> SUFFICES ASSUME QueuesLastLess, NEW w \in Workers, Busy(w)',
                      QueueOf[running'[w]] \in Queues
               PROVE  queueLock'[QueueOf[running'[w]]] = [by |-> w, age |-> age'[w]]
    BY DEF QueuesHeld, QueuesLastLess, AsSecs
  <1> USE DEF TypeOK
  <1> DEFINE q == QueueOf[running[w]]
  <1>0. ASSUME Busy(w), q \in Queues
        PROVE  queueLock[q] = [by |-> w, age |-> age[w]]
    BY <1>0 DEF QueuesHeld
  <1>1. ASSUME UNCHANGED <<execution, queueLock>>
        PROVE  queueLock'[QueueOf[running'[w]]] = [by |-> w, age |-> age'[w]]
    BY <1>0, <1>1 DEF execution, Busy
  <1>2. ASSUME NEW v \in Workers, Sweep(v)
        PROVE  queueLock'[QueueOf[running'[w]]] = [by |-> w, age |-> age'[w]]
    <2>1. UNCHANGED execution
      BY <1>2 DEF Sweep, SweepQueues, SweepQueuesFails, SweepJobs, SweepJobsFails
    <2>2. Busy(w) /\ q \in Queues
      BY <2>1 DEF Busy, execution
    <2>3. ~Stale(queueLock[q], QueueTimeout)
      BY <1>0, <2>2, LiveNotStale, StaleLocksAssumption DEF QueuesLastLess
    <2>4. queueLock'[q] = queueLock[q]
      BY <1>2, <2>2, <2>3
      DEF Sweep, SweepQueues, SweepQueuesFails, SweepJobs, SweepJobsFails, ReleaseStaleQueueLocks
    <2>5. QED
      BY <1>0, <2>1, <2>2, <2>4 DEF execution
  <1>3. ASSUME NEW v \in Workers, Fetch(v)
        PROVE  queueLock'[QueueOf[running'[w]]] = [by |-> w, age |-> age'[w]]
    <2>1. PICK j \in queued :
             /\ QueueFree(j)
             /\ queueLock' = [x \in Queues |-> IF x = QueueOf[j] THEN TakenBy(v)
                                               ELSE queueLock[x]]
             /\ running' = [running EXCEPT ![v] = j]
             /\ age' = [age EXCEPT ![v] = 0]
      BY <1>3 DEF Fetch
    <2>2. CASE w = v
      BY <2>1, <2>2 DEF TakenBy
    <2>3. CASE w # v
      <3>1. running'[w] = running[w] /\ age'[w] = age[w] /\ Busy(w) /\ q \in Queues
        BY <2>1, <2>3 DEF Busy
      <3>2. queueLock[q].by # NoWorker
        BY <1>0, <3>1, StaleLocksAssumption
      <3>3. q # QueueOf[j]
        BY <2>1, <3>1, <3>2, StaleLocksAssumption DEF QueueFree
      <3>4. QED
        BY <1>0, <2>1, <3>1, <3>3
    <2>4. QED
      BY <2>2, <2>3
  <1>4. ASSUME NEW v \in Workers, Complete(v) \/ Fail(v)
        PROVE  queueLock'[QueueOf[running'[w]]] = [by |-> w, age |-> age'[w]]
    <2>1. running'[v] = NoJob /\ w # v /\ running'[w] = running[w] /\ age'[w] = age[w]
      BY <1>4 DEF Complete, Fail, Rest, Busy
    <2>2. Busy(w) /\ q \in Queues /\ queueLock[q].by = w
      BY <1>0, <2>1 DEF Busy
    <2>3. UNCHANGED queueLock \/ UnlockQueueOf(v, running[v])
      BY <1>4 DEF Complete, Fail
    <2>4. queueLock'[q] = queueLock[q]
      BY <2>1, <2>2, <2>3 DEF UnlockQueueOf
    <2>5. QED
      BY <1>0, <2>1, <2>2, <2>4
  <1>5. ASSUME NEW v \in Workers, Crash(v)
        PROVE  queueLock'[QueueOf[running'[w]]] = [by |-> w, age |-> age'[w]]
    <2>1. running'[v] = NoJob /\ w # v /\ running'[w] = running[w] /\ age'[w] = age[w]
      BY <1>5 DEF Crash, Rest, Busy
    <2>2. QED
      BY <1>0, <1>5, <2>1 DEF Crash, Busy
  <1>6. ASSUME Tick
        PROVE  queueLock'[QueueOf[running'[w]]] = [by |-> w, age |-> age'[w]]
    <2>1. running'[w] = running[w] /\ Busy(w) /\ age[w] < MaxRun /\ q \in Queues
      BY <1>6 DEF Tick, Busy
    <2>2. age'[w] = age[w] + 1 /\ Older(age[w]) = age[w] + 1
      BY <1>6, <2>1, OlderAges DEF Tick, Busy
    <2>3. queueLock[q].by # NoWorker
      BY <1>0, <2>1, StaleLocksAssumption
    <2>4. queueLock'[q] = [queueLock[q] EXCEPT !.age = Older(queueLock[q].age)]
      BY <1>6, <2>1, <2>3 DEF Tick
    <2>5. QED
      BY <1>0, <2>1, <2>2, <2>4
  <1>7. ASSUME NEW j \in Jobs, Capture(j) PROVE UNCHANGED <<execution, queueLock>>
    BY <1>7 DEF Capture
  <1>8. QED
    BY <1>1, <1>2, <1>3, <1>4, <1>5, <1>6, <1>7 DEF Next, Execute, vars

LEMMA HeldRunOnce == ASSUME JobsHeld PROVE NoDoubleRun
  <1> SUFFICES ASSUME JobsLastLess, NEW v \in Workers, NEW w \in Workers,
                      running[v] = running[w], Busy(v)
               PROVE  v = w
    BY DEF NoDoubleRun, Busy
  <1>1. /\ jobLock[running[v]] = [by |-> v, age |-> age[v]]
        /\ jobLock[running[w]] = [by |-> w, age |-> age[w]]
    BY DEF JobsHeld, Busy
  <1>2. [by |-> v, age |-> age[v]] = [by |-> w, age |-> age[w]]
    BY <1>1
  <1>3. QED
    BY <1>2

LEMMA QueuesHeldSerial == ASSUME QueuesHeld PROVE SerialQueues
  <1> SUFFICES ASSUME QueuesLastLess, NEW q \in Queues,
                      NEW v \in Workers, NEW w \in Workers, OnQueue(v, q), OnQueue(w, q)
               PROVE  v = w
    BY DEF SerialQueues, OneAtATime
  <1>1. /\ queueLock[q] = [by |-> v, age |-> age[v]]
        /\ queueLock[q] = [by |-> w, age |-> age[w]]
    BY DEF QueuesHeld, Busy, OnQueue
  <1>2. [by |-> v, age |-> age[v]] = [by |-> w, age |-> age[w]]
    BY <1>1
  <1>3. QED
    BY <1>2

-----------------------------------------------------------------------------
\* No cleanup by any runner, at startup or periodic, hands a job that is being
\* executed to a second runner, if the job timeout in whole seconds covers the
\* longest handler; crashes, captures of running jobs and late answers included.
THEOREM JobsRunOnce == Spec => []NoDoubleRun
  <1>1. Init => JobsHeld
    BY DEF Init, JobsHeld, Busy
  <1>2. TypeOK /\ JobsHeld /\ [Next]_vars => JobsHeld'
    BY JobsHeldStep
  <1>3. JobsHeld => NoDoubleRun
    BY HeldRunOnce
  <1>4. QED
    BY <1>1, <1>2, <1>3, TypeCorrect, PTL DEF Spec

\* The jobs of one queue run one at a time if the queue timeout covers the longest
\* handler too; the default queue timeout is chosen as if it need not.
THEOREM QueuesRunSerially == Spec => []SerialQueues
  <1>1. Init => QueuesHeld
    BY DEF Init, QueuesHeld, Busy
  <1>2. TypeOK /\ QueuesHeld /\ [Next]_vars => QueuesHeld'
    BY QueuesHeldStep
  <1>3. QueuesHeld => SerialQueues
    BY QueuesHeldSerial
  <1>4. QED
    BY <1>1, <1>2, <1>3, TypeCorrect, PTL DEF Spec
-----------------------------------------------------------------------------
(* The runners with an operator at the desk.                                *)

LEMMA RunnerStepIsNext == ASSUME RunnerStep PROVE Next
  BY DEF RunnerStep, SweepStep, OtherStep, Next, Sweep

\* What a request may do to the tables.
LEMMA RequestWrites ==
    ASSUME Request
    PROVE  /\ UNCHANGED <<stage, execution, attempts, crashes, allSucceeded>>
           /\ \/ UNCHANGED vars
              \/ \E t \in Thresholds : ReleaseStaleQueueLocks(t.queue) /\ UNCHANGED <<jobLock, queued>>
              \/ ReleaseStaleJobLocks(desk.limits.job) /\ UNCHANGED <<queueLock, queued>>
              \/ queued' \subseteq queued /\ UNCHANGED <<jobLock, queueLock>>
  BY DEF Request, StatusQueues, StatusJobs, DryRunQueues, DryRunJobs, DryRunFailed,
         CleanupQueues, CleanupJobs, CleanupFailed, RequestFails, ReadOnly, Written, vars

LEMMA RequestTypes ==
    ASSUME TypeOK, Request
    PROVE  TypeOK'
  <1>1. /\ UNCHANGED <<stage, running, age, attempts, crashes>>
        /\ queued' \subseteq queued
    BY RequestWrites DEF execution, vars
  <1>2. queueLock' \in [Queues -> Lock]
    BY RequestWrites, LockTypes DEF TypeOK, ReleaseStaleQueueLocks, vars
  <1>3. jobLock' \in [Jobs -> Lock]
    BY RequestWrites, LockTypes DEF TypeOK, ReleaseStaleJobLocks, vars
  <1>4. QED
    BY <1>1, <1>2, <1>3 DEF TypeOK

LEMMA AdminTypeStep ==
    ASSUME TypeOK, [AdminNext]_allVars
    PROVE  TypeOK'
  <1>1. CASE RunnerStep
    BY <1>1, RunnerStepIsNext, TypeStep
  <1>2. CASE Request
    BY <1>2, RequestTypes
  <1>3. CASE UNCHANGED allVars
    BY <1>3, TypeStep DEF allVars
  <1>4. QED
    BY <1>1, <1>2, <1>3 DEF AdminNext

\* With an operator at the desk the locks keep their types, and no job is fetched
\* past its attempts.
THEOREM AdminTypeCorrect == AdminSpec => []TypeOK
  <1>1. AdminInit => TypeOK
    BY LockTypes, StaleLocksAssumption DEF AdminInit, Init, TypeOK
  <1>2. TypeOK /\ [AdminNext]_allVars => TypeOK'
    BY AdminTypeStep
  <1>3. QED
    BY <1>1, <1>2, PTL DEF AdminSpec

-----------------------------------------------------------------------------
(* The health timestamp.                                                    *)

\* What happens to a lock that is held: it stays, ages or is released.
LEMMA HeldLocksAge ==
    ASSUME TypeOK, [AdminNext]_allVars, NEW j \in queued', jobLock[j].by # NoWorker
    PROVE  \/ jobLock'[j].by = NoWorker
           \/ jobLock'[j].by = jobLock[j].by /\ jobLock'[j].age >= jobLock[j].age
  <1> j \in Jobs /\ jobLock[j] \in Lock /\ jobLock[j].age \in Ages /\ MaxAge \in Nat
    BY AdminTypeStep, StaleLocksAssumption DEF TypeOK, Lock
  <1> jobLock[j].age \in Nat
    BY DEF Ages
  <1>1. CASE UNCHANGED jobLock
    BY <1>1
  <1>2. ASSUME NEW t, ReleaseStaleJobLocks(t)
        PROVE  jobLock'[j] = jobLock[j] \/ jobLock'[j].by = NoWorker
    BY <1>2 DEF ReleaseStaleJobLocks, Free
  <1>3. ASSUME NEW w \in Workers, Execute(w)
        PROVE  jobLock'[j] = jobLock[j] \/ jobLock'[j].by = NoWorker
    BY <1>3 DEF Execute, Fetch, Complete, Fail, Free, TypeOK
  <1>4. CASE Tick
    <2>1. jobLock'[j] = [jobLock[j] EXCEPT !.age = Older(jobLock[j].age)]
      BY <1>4 DEF Tick
    <2>2. Older(jobLock[j].age) >= jobLock[j].age
      BY DEF Older
    <2>3. QED
      BY <2>1, <2>2 DEF Lock
  <1>5. \/ UNCHANGED jobLock \/ (\E t : ReleaseStaleJobLocks(t))
        \/ (\E w \in Workers : Execute(w)) \/ Tick
    <2>1. CASE RunnerStep
      BY <2>1 DEF RunnerStep, SweepStep, OtherStep, SweepQueues, SweepQueuesFails, SweepJobs,
                  SweepJobsFails, Crash, Capture
    <2>2. CASE Request
      BY <2>2, RequestWrites DEF vars
    <2>3. QED
      BY <2>1, <2>2 DEF AdminNext, allVars, vars
  <1>6. QED
    BY <1>1, <1>2, <1>3, <1>4, <1>5

\* A sweep whose first statement has succeeded has only job locks left to release.
OnlyJobsLeft ==
    \A w \in Workers : stage[w] = "sweep" /\ allSucceeded[w]
       => \A l \in begun[w] : l \in queued /\ Stale(jobLock[l], JobTimeout)

Functions == /\ begun = [w \in Workers |-> begun[w]]
             /\ allSucceeded = [w \in Workers |-> allSucceeded[w]]
HealthInv == TypeOK /\ Functions /\ OnlyJobsLeft /\ missed = {}

\* A stale lock that is kept is stale still.
LEMMA KeptStaysStale ==
    ASSUME TypeOK, [AdminNext]_allVars, NEW t \in Nat, NEW l \in queued, Stale(jobLock[l], t),
           NEW S, l \in Kept(S)
    PROVE  l \in queued' /\ Stale(jobLock'[l], t)
  <1>1. l \in Jobs /\ l \notin Queues /\ queued' \subseteq Jobs
    BY AdminTypeStep, LocksAdminAssumption DEF TypeOK
  <1>2. l \in queued' /\ jobLock'[l].by # NoWorker
    BY <1>1 DEF Kept
  <1>3. jobLock'[l].by = jobLock[l].by /\ jobLock'[l].age >= jobLock[l].age
    BY <1>2, HeldLocksAge DEF Stale
  <1>4. /\ jobLock[l].age \in Nat /\ jobLock'[l].age \in Nat /\ AsSecs(t) \in Nat
    BY <1>1, AdminTypeStep, SecsAreNat, StaleLocksAssumption DEF TypeOK, Lock, Ages
  <1>5. QED
    BY <1>2, <1>3, <1>4 DEF Stale

\* What a sweep that is under way remembers of an earlier step.
LEMMA RememberedStale ==
    ASSUME TypeOK, OnlyJobsLeft, [AdminNext]_allVars, NEW w \in Workers,
           stage[w] = "sweep", allSucceeded[w],
           begun'[w] = Kept(begun[w]) \/ (UNCHANGED <<vars, begun>>)
    PROVE  \A l \in begun'[w] : l \in queued' /\ Stale(jobLock'[l], JobTimeout)
  <1> SUFFICES ASSUME NEW l \in begun'[w]
               PROVE  l \in queued' /\ Stale(jobLock'[l], JobTimeout)
    OBVIOUS
  <1>1. l \in begun[w]
    BY DEF Kept
  <1>2. l \in queued /\ Stale(jobLock[l], JobTimeout)
    BY <1>1 DEF OnlyJobsLeft
  <1>3. CASE begun'[w] = Kept(begun[w])
    BY <1>2, <1>3, KeptStaysStale, StaleLocksAssumption
  <1>4. CASE UNCHANGED vars
    BY <1>2, <1>4 DEF vars
  <1>5. QED
    BY <1>3, <1>4

\* A sweep begins: its first statement has released every stale queue lock.
LEMMA BegunStale ==
    ASSUME TypeOK, Functions, [AdminNext]_allVars, NEW w \in Workers,
           SweepQueues(w), BeginSweep(w, TRUE), stage'[w] = "sweep"
    PROVE  \A l \in begun'[w] : l \in queued' /\ Stale(jobLock'[l], JobTimeout)
  <1> DEFINE S == StaleQueues(QueueTimeout) \cup StaleJobs(JobTimeout)
  <1> SUFFICES ASSUME NEW l \in begun'[w]
               PROVE  l \in queued' /\ Stale(jobLock'[l], JobTimeout)
    OBVIOUS
  <1>1. [begun EXCEPT ![w] = S][w] = S
    BY DEF Functions
  <1>2. l \in Kept(S) /\ l \in S
    BY <1>1 DEF BeginSweep, Remember, Kept
  <1>3. CASE l \in StaleJobs(JobTimeout)
    BY <1>2, <1>3, KeptStaysStale, StaleLocksAssumption DEF StaleJobs
  <1>4. CASE l \in StaleQueues(QueueTimeout)
    <2>1. l \in Queues /\ queueLock'[l].by = NoWorker
      BY <1>4 DEF StaleQueues, SweepQueues, ReleaseStaleQueueLocks, Free
    <2>2. l \notin queued'
      BY <2>1, AdminTypeStep, LocksAdminAssumption DEF TypeOK
    <2>3. QED
      BY <1>2, <2>1, <2>2 DEF Kept
  <1>5. QED
    BY <1>2, <1>3, <1>4

LEMMA KeptOfNone == Kept({}) = {}
  BY DEF Kept

\* The second statement releases the locks that are left.
LEMMA NothingMissed ==
    ASSUME TypeOK, OnlyJobsLeft, missed = {}, NEW w \in Workers, SweepJobs(w), UpdateHealth(w)
    PROVE  missed' = {}
  <1>1. CASE ~(stage[w] = "sweep" /\ allSucceeded[w])
    BY <1>1, KeptOfNone DEF UpdateHealth
  <1>2. CASE stage[w] = "sweep" /\ allSucceeded[w]
    <2>1. ASSUME NEW l \in begun[w] PROVE l \notin Kept(begun[w])
      <3>1. l \in queued /\ l \in Jobs /\ l \notin Queues /\ Stale(jobLock[l], JobTimeout)
        BY <1>2, <2>1, LocksAdminAssumption DEF OnlyJobsLeft, TypeOK
      <3>2. jobLock'[l].by = NoWorker
        BY <3>1 DEF SweepJobs, ReleaseStaleJobLocks, Free
      <3>3. QED
        BY <3>1, <3>2 DEF Kept
    <2>2. Kept(begun[w]) = {}
      BY <2>1 DEF Kept
    <2>3. QED
      BY <1>2, <2>2 DEF UpdateHealth
  <1>3. QED
    BY <1>1, <1>2

LEMMA HealthStep ==
    ASSUME HealthInv, [AdminNext]_allVars
    PROVE  HealthInv'
  <1> USE DEF HealthInv
  <1>1. TypeOK'
    BY AdminTypeStep
  <1>2. ASSUME NEW w \in Workers, SweepQueues(w), BeginSweep(w, TRUE)
        PROVE  Functions' /\ OnlyJobsLeft' /\ missed' = {}
    <2>1. Functions' /\ missed' = {}
      BY <1>2, KeptOfNone DEF BeginSweep, Remember, Functions
    <2>2. ASSUME NEW v \in Workers, v # w, stage'[v] = "sweep", allSucceeded'[v]
          PROVE  stage[v] = "sweep" /\ allSucceeded[v] /\ begun'[v] = Kept(begun[v])
      BY <1>2, <2>2 DEF SweepQueues, BeginSweep, Remember, TypeOK, Functions
    <2>3. ASSUME NEW v \in Workers, stage'[v] = "sweep", allSucceeded'[v]
          PROVE  \A l \in begun'[v] : l \in queued' /\ Stale(jobLock'[l], JobTimeout)
      <3>1. CASE v = w
        BY <1>2, <2>3, <3>1, BegunStale
      <3>2. CASE v # w
        BY <2>2, <2>3, <3>2, RememberedStale
      <3>3. QED
        BY <3>1, <3>2
    <2>4. QED
      BY <2>1, <2>3 DEF OnlyJobsLeft
  <1>3. ASSUME NEW w \in Workers, SweepQueuesFails(w), BeginSweep(w, FALSE)
        PROVE  Functions' /\ OnlyJobsLeft' /\ missed' = {}
    <2>1. Functions' /\ missed' = {}
      BY <1>3, KeptOfNone DEF BeginSweep, Remember, Functions
    <2>2. ASSUME NEW v \in Workers, stage'[v] = "sweep", allSucceeded'[v]
          PROVE  stage[v] = "sweep" /\ allSucceeded[v] /\ begun'[v] = Kept(begun[v])
      BY <1>3, <2>2 DEF SweepQueuesFails, BeginSweep, Remember, TypeOK, Functions
    <2>3. ASSUME NEW v \in Workers, stage'[v] = "sweep", allSucceeded'[v]
          PROVE  \A l \in begun'[v] : l \in queued' /\ Stale(jobLock'[l], JobTimeout)
      BY <2>2, <2>3, RememberedStale
    <2>4. QED
      BY <2>1, <2>3 DEF OnlyJobsLeft
  <1>4. ASSUME Remember(allSucceeded, begun),
               \A v \in Workers : stage'[v] = "sweep" => stage[v] = "sweep"
        PROVE  Functions' /\ OnlyJobsLeft'
    <2>1. Functions'
      BY <1>4 DEF Remember, Functions
    <2>2. ASSUME NEW v \in Workers, stage'[v] = "sweep", allSucceeded'[v]
          PROVE  stage[v] = "sweep" /\ allSucceeded[v] /\ begun'[v] = Kept(begun[v])
      BY <1>4, <2>2 DEF Remember
    <2>3. ASSUME NEW v \in Workers, stage'[v] = "sweep", allSucceeded'[v]
          PROVE  \A l \in begun'[v] : l \in queued' /\ Stale(jobLock'[l], JobTimeout)
      BY <2>2, <2>3, RememberedStale
    <2>4. QED
      BY <2>1, <2>3 DEF OnlyJobsLeft
  <1>5. ASSUME NEW w \in Workers, SweepJobs(w), Remember(allSucceeded, begun), UpdateHealth(w)
        PROVE  Functions' /\ OnlyJobsLeft' /\ missed' = {}
    <2>1. \A v \in Workers : stage'[v] = "sweep" => stage[v] = "sweep"
      BY <1>5 DEF SweepJobs, TypeOK
    <2>2. QED
      BY <1>4, <1>5, <2>1, NothingMissed
  <1>6. ASSUME NEW w \in Workers, SweepJobsFails(w), Remember(allSucceeded, begun),
               missed' = Kept(missed)
        PROVE  Functions' /\ OnlyJobsLeft' /\ missed' = {}
    <2>1. \A v \in Workers : stage'[v] = "sweep" => stage[v] = "sweep"
      BY <1>6 DEF SweepJobsFails, TypeOK
    <2>2. QED
      BY <1>4, <1>6, <2>1, KeptOfNone
  <1>7. ASSUME OtherStep PROVE Functions' /\ OnlyJobsLeft' /\ missed' = {}
    <2>1. \A v \in Workers : stage'[v] = "sweep" => stage[v] = "sweep"
      BY <1>7 DEF OtherStep, Execute, Fetch, Complete, Fail, Crash, Capture, Tick, TypeOK
    <2>2. QED
      BY <1>4, <1>7, <2>1, KeptOfNone DEF OtherStep
  <1>8. ASSUME Request PROVE Functions' /\ OnlyJobsLeft' /\ missed' = {}
    <2>1. \/ UNCHANGED <<vars, allSucceeded, begun, missed>>
          \/ /\ begun' = [v \in Workers |-> Kept(begun[v])] /\ missed' = Kept(missed)
             /\ UNCHANGED <<stage, allSucceeded>>
      BY <1>8 DEF Request, StatusQueues, StatusJobs, DryRunQueues, DryRunJobs, DryRunFailed,
                  CleanupQueues, CleanupJobs, CleanupFailed, RequestFails, ReadOnly, Written
    <2>2. Functions' /\ missed' = {}
      BY <2>1, KeptOfNone DEF Functions
    <2>3. ASSUME NEW v \in Workers, stage'[v] = "sweep", allSucceeded'[v]
          PROVE  /\ stage[v] = "sweep" /\ allSucceeded[v]
                 /\ begun'[v] = Kept(begun[v]) \/ (UNCHANGED <<vars, begun>>)
      BY <2>1, <2>3 DEF vars
    <2>4. ASSUME NEW v \in Workers, stage'[v] = "sweep", allSucceeded'[v]
          PROVE  \A l \in begun'[v] : l \in queued' /\ Stale(jobLock'[l], JobTimeout)
      BY <2>3, <2>4, RememberedStale
    <2>5. QED
      BY <2>2, <2>4 DEF OnlyJobsLeft
  <1>9. CASE UNCHANGED allVars
    <2>1. Functions' /\ missed' = {}
      BY <1>9 DEF allVars, history, Functions
    <2>2. OnlyJobsLeft'
      BY <1>9 DEF allVars, history, vars, OnlyJobsLeft, Stale
    <2>3. QED
      BY <1>1, <2>1, <2>2
  <1>10. QED
    BY <1>1, <1>2, <1>3, <1>5, <1>6, <1>7, <1>8, <1>9 DEF AdminNext, RunnerStep, SweepStep

\* The health timestamp never hides a lock: a sweep that updates it has left none
\* of the locks that were stale when it began, crashes, failing statements and
\* other cleaners included.
THEOREM HealthTimestampsHonest == AdminSpec => []HealthTimestampHonest
  <1>1. AdminInit => HealthInv
    BY LockTypes, StaleLocksAssumption
    DEF AdminInit, Init, HealthInv, TypeOK, Functions, OnlyJobsLeft
  <1>2. HealthInv /\ [AdminNext]_allVars => HealthInv'
    BY HealthStep
  <1>3. HealthInv => HealthTimestampHonest
    BY DEF HealthInv, HealthTimestampHonest
  <1>4. QED
    BY <1>1, <1>2, <1>3, PTL DEF AdminSpec

-----------------------------------------------------------------------------
(* Exclusion, with an operator at the desk.                                 *)

DeskCovers == \A t \in Thresholds : AsSecs(t.job) >= MaxRun

\* The operator's request under way has one of the thresholds.
DeskLimits ==
    /\ desk = [at |-> desk.at, limits |-> desk.limits, queues |-> desk.queues]
    /\ desk.limits \in Thresholds

LEMMA DeskLimitsStep ==
    ASSUME DeskLimits, [AdminNext]_allVars
    PROVE  DeskLimits'
  <1>1. CASE UNCHANGED desk
    BY <1>1 DEF DeskLimits
  <1>2. CASE Request
    <2>1. CASE StatusQueues
      BY <2>1, LocksAdminAssumption DEF StatusQueues, DeskLimits, Idle
    <2>2. CASE StatusJobs \/ DryRunFailed \/ CleanupFailed \/ RequestFails
      BY <2>2, LocksAdminAssumption
      DEF StatusJobs, DryRunFailed, CleanupFailed, RequestFails, DeskLimits, Idle
    <2>3. CASE DryRunQueues \/ CleanupQueues
      BY <2>3 DEF DryRunQueues, CleanupQueues, DeskLimits, Idle
    <2>4. CASE DryRunJobs \/ CleanupJobs
      BY <2>4 DEF DryRunJobs, CleanupJobs, DeskLimits
    <2>5. QED
      BY <1>2, <2>1, <2>2, <2>3, <2>4 DEF Request
  <1>3. QED
    BY <1>1, <1>2 DEF AdminNext, RunnerStep, allVars

LEMMA DeskKeepsJobsHeld ==
    ASSUME TypeOK, DeskCovers, DeskLimits, JobsHeld, Request
    PROVE  JobsHeld'
  <1> SUFFICES ASSUME JobsLastLess, NEW w \in Workers, Busy(w)'
               PROVE  jobLock'[running'[w]] = [by |-> w, age |-> age'[w]]
    BY DEF JobsHeld, JobsLastLess, AsSecs
  <1>1. UNCHANGED execution
    BY RequestWrites
  <1>2. /\ running'[w] = running[w] /\ age'[w] = age[w]
        /\ jobLock[running[w]] = [by |-> w, age |-> age[w]] /\ running[w] \in Jobs
    BY <1>1 DEF execution, JobsHeld, Busy, TypeOK
  <1>3. desk.limits.job \in Nat /\ AsSecs(desk.limits.job) >= MaxRun
    BY LocksAdminAssumption DEF DeskCovers, DeskLimits, Timeouts
  <1>4. ~Stale(jobLock[running[w]], desk.limits.job)
    BY <1>2, <1>3, LiveNotStale
  <1>5. jobLock'[running[w]] = jobLock[running[w]]
    BY <1>2, <1>4, RequestWrites DEF ReleaseStaleJobLocks, vars
  <1>6. QED
    BY <1>2, <1>5

\* Neither the runners' sweeps nor an operator's cleanups hand a job that is being
\* executed to a second runner, if the job timeout and the thresholds the operator
\* uses cover the longest handler.
THEOREM AdminJobsRunOnce ==
    ASSUME DeskCovers
    PROVE  AdminSpec => []NoDoubleRun
  <1> DEFINE Inv == TypeOK /\ DeskLimits /\ JobsHeld
  <1>1. AdminInit => Inv
    BY LockTypes, StaleLocksAssumption, LocksAdminAssumption
    DEF AdminInit, Init, TypeOK, DeskLimits, Idle, JobsHeld, Busy
  <1>2. Inv /\ [AdminNext]_allVars => Inv'
    <2> SUFFICES ASSUME Inv, [AdminNext]_allVars PROVE Inv'
      OBVIOUS
    <2>1. TypeOK' /\ DeskLimits'
      BY AdminTypeStep, DeskLimitsStep
    <2>2. CASE Request
      BY <2>1, <2>2, DeskKeepsJobsHeld
    <2>3. CASE RunnerStep \/ UNCHANGED allVars
      BY <2>1, <2>3, RunnerStepIsNext, JobsHeldStep DEF allVars
    <2>4. QED
      BY <2>2, <2>3 DEF AdminNext
  <1>3. Inv => NoDoubleRun
    BY HeldRunOnce
  <1>4. QED
    BY <1>1, <1>2, <1>3, PTL DEF AdminSpec

\* The same of the queue locks, for operators whose queue thresholds cover it too.
DeskCoversQueues == \A t \in Thresholds : AsSecs(t.queue) >= MaxRun

LEMMA DeskKeepsQueuesHeld ==
    ASSUME TypeOK, DeskCoversQueues, QueuesHeld, Request
    PROVE  QueuesHeld'
  <1> SUFFICES ASSUME QueuesLastLess, NEW w \in Workers, Busy(w)',
                      QueueOf[running'[w]] \in Queues
               PROVE  queueLock'[QueueOf[running'[w]]] = [by |-> w, age |-> age'[w]]
    BY DEF QueuesHeld, QueuesLastLess, AsSecs
  <1> DEFINE q == QueueOf[running[w]]
  <1>1. running'[w] = running[w] /\ age'[w] = age[w] /\ Busy(w)
    BY RequestWrites DEF execution, Busy
  <1>2. q \in Queues /\ queueLock[q] = [by |-> w, age |-> age[w]]
    BY <1>1 DEF QueuesHeld
  <1>3. ASSUME NEW t \in Thresholds PROVE ~Stale(queueLock[q], t.queue)
    BY <1>2, LiveNotStale, LocksAdminAssumption DEF DeskCoversQueues, Timeouts
  <1>4. queueLock'[q] = queueLock[q]
    BY <1>2, <1>3, RequestWrites DEF ReleaseStaleQueueLocks, vars
  <1>5. QED
    BY <1>1, <1>2, <1>4

\* The jobs of one serial queue run one at a time, whatever sweeps and operators
\* release, if the queue timeout and the queue thresholds the operator uses cover
\* the longest handler.
THEOREM AdminQueuesRunSerially ==
    ASSUME DeskCoversQueues
    PROVE  AdminSpec => []SerialQueues
  <1>1. AdminInit => QueuesHeld
    BY DEF AdminInit, Init, QueuesHeld, Busy
  <1>2. TypeOK /\ QueuesHeld /\ [AdminNext]_allVars => QueuesHeld'
    <2> SUFFICES ASSUME TypeOK, QueuesHeld, [AdminNext]_allVars PROVE QueuesHeld'
      OBVIOUS
    <2>1. CASE Request
      BY <2>1, DeskKeepsQueuesHeld
    <2>2. CASE RunnerStep \/ UNCHANGED allVars
      BY <2>2, RunnerStepIsNext, QueuesHeldStep DEF allVars
    <2>3. QED
      BY <2>1, <2>2 DEF AdminNext
  <1>3. QueuesHeld => SerialQueues
    BY QueuesHeldSerial
  <1>4. QED
    BY <1>1, <1>2, <1>3, AdminTypeCorrect, PTL DEF AdminSpec

-----------------------------------------------------------------------------
(* The types of what operator and history hold, for finite sets of locks.   *)

Counted == IsFiniteSet(Queues) /\ IsFiniteSet(Jobs)
Desks == [at : {"idle", "status", "dryJobs", "dryFailed", "release", "delete"},
          limits : Thresholds, queues : 0..Cardinality(Queues)]
Forecasts == [limits : Thresholds, queues : 0..Cardinality(Queues),
              jobs : 0..Cardinality(Jobs), failed : 0..Cardinality(Jobs)]

\* A part of a finite set counts at most as many as the whole.
LEMMA PartCounts ==
    ASSUME NEW S, IsFiniteSet(S), NEW T \in SUBSET S
    PROVE  Cardinality(T) \in 0..Cardinality(S)
  <1>1. IsFiniteSet(T) /\ Cardinality(T) <= Cardinality(S)
    BY FS_Subset
  <1>2. Cardinality(T) \in Nat /\ Cardinality(S) \in Nat
    BY <1>1, FS_CardinalityType
  <1>3. QED
    BY <1>1, <1>2

LEMMA CountsInRange ==
    ASSUME Counted, TypeOK
    PROVE  /\ \A t : Cardinality(StaleQueues(t)) \in 0..Cardinality(Queues)
           /\ \A t : Cardinality(StaleJobs(t)) \in 0..Cardinality(Jobs)
           /\ CountFailed \in 0..Cardinality(Jobs)
           /\ 0 \in 0..Cardinality(Queues) /\ 0 \in 0..Cardinality(Jobs)
  <1>1. \A t : StaleQueues(t) \in SUBSET Queues
    BY DEF StaleQueues
  <1>2. \A t : StaleJobs(t) \in SUBSET Jobs
    BY DEF StaleJobs, TypeOK
  <1>3. FailedUnlocked \in SUBSET Jobs
    BY DEF FailedUnlocked, TypeOK
  <1>4. \A t : Cardinality(StaleQueues(t)) \in 0..Cardinality(Queues)
    BY <1>1, PartCounts DEF Counted
  <1>5. \A t : Cardinality(StaleJobs(t)) \in 0..Cardinality(Jobs)
    BY <1>2, PartCounts DEF Counted
  <1>6. CountFailed \in 0..Cardinality(Jobs)
    BY <1>3, PartCounts DEF Counted, CountFailed
  <1>7. Cardinality(Queues) \in Nat /\ Cardinality(Jobs) \in Nat
    BY FS_CardinalityType DEF Counted
  <1>8. QED
    BY <1>4, <1>5, <1>6, <1>7

LEMMA KeptIsPart == ASSUME NEW S PROVE Kept(S) \subseteq S
  BY DEF Kept

\* What the history remembers is a set of locks.
Locks == Queues \cup Jobs
HistoryTypes ==
    /\ allSucceeded \in [Workers -> BOOLEAN]
    /\ found \subseteq Locks /\ missed \subseteq Locks
    /\ begun \in [Workers -> SUBSET Locks]

LEMMA RememberTypes ==
    ASSUME NEW succeeded, NEW stale, Remember(succeeded, stale),
           \A w \in Workers : succeeded[w] \in BOOLEAN /\ stale[w] \subseteq Locks
    PROVE  /\ allSucceeded' \in [Workers -> BOOLEAN]
           /\ begun' \in [Workers -> SUBSET Locks]
  <1>1. \A w \in Workers : Kept(stale[w]) \subseteq Locks
    BY KeptIsPart
  <1>2. begun' \in [Workers -> SUBSET Locks]
    BY <1>1 DEF Remember
  <1>3. allSucceeded' \in [Workers -> BOOLEAN]
    BY DEF Remember
  <1>4. QED
    BY <1>2, <1>3

LEMMA HistoryStep ==
    ASSUME TypeOK, HistoryTypes, [AdminNext]_allVars
    PROVE  HistoryTypes'
  <1> USE DEF HistoryTypes
  <1>1. \A t : StaleQueues(t) \subseteq Locks /\ StaleJobs(t) \subseteq Locks
    BY DEF StaleQueues, StaleJobs, TypeOK, Locks
  <1>2. Kept(found) \subseteq Locks /\ Kept(missed) \subseteq Locks
        /\ \A w \in Workers : Kept(begun[w]) \subseteq Locks
    BY KeptIsPart
  <1>3. ASSUME NEW w \in Workers, NEW b \in BOOLEAN, BeginSweep(w, b)
        PROVE  /\ allSucceeded' \in [Workers -> BOOLEAN]
               /\ begun' \in [Workers -> SUBSET Locks] /\ missed' \subseteq Locks
    <2> DEFINE succeeded == [allSucceeded EXCEPT ![w] = b]
               S == StaleQueues(QueueTimeout) \cup StaleJobs(JobTimeout)
               stale == [begun EXCEPT ![w] = S]
    <2>1. S \subseteq Locks
      BY <1>1
    <2>2. \A v \in Workers : succeeded[v] \in BOOLEAN /\ stale[v] \subseteq Locks
      BY <2>1
    <2>3. Remember(succeeded, stale) /\ missed' = Kept(missed)
      BY <1>3 DEF BeginSweep
    <2> HIDE DEF succeeded, stale
    <2>4. QED
      BY <1>2, <2>2, <2>3, RememberTypes
  <1>4. ASSUME Remember(allSucceeded, begun)
        PROVE  /\ allSucceeded' \in [Workers -> BOOLEAN] /\ begun' \in [Workers -> SUBSET Locks]
    BY <1>4, RememberTypes
  <1>5. CASE RunnerStep
    <2>1. found' \subseteq Locks
      BY <1>2, <1>5 DEF RunnerStep
    <2>2. CASE OtherStep
      BY <1>2, <1>4, <2>1, <2>2 DEF OtherStep
    <2>3. ASSUME NEW w \in Workers, SweepStep(w) PROVE HistoryTypes'
      <3>1. CASE BeginSweep(w, TRUE) \/ BeginSweep(w, FALSE)
        BY <1>3, <2>1, <3>1
      <3>2. CASE Remember(allSucceeded, begun) /\ (UpdateHealth(w) \/ missed' = Kept(missed))
        BY <1>2, <1>4, <2>1, <3>2 DEF UpdateHealth
      <3>3. QED
        BY <2>3, <3>1, <3>2 DEF SweepStep
    <2>4. QED
      BY <1>5, <2>2, <2>3 DEF RunnerStep
  <1>6. CASE Request
    <2>1. \/ UNCHANGED <<allSucceeded, begun, missed>>
          \/ /\ begun' = [v \in Workers |-> Kept(begun[v])] /\ missed' = Kept(missed)
             /\ UNCHANGED allSucceeded
      BY <1>6 DEF Request, StatusQueues, StatusJobs, DryRunQueues, DryRunJobs, DryRunFailed,
                  CleanupQueues, CleanupJobs, CleanupFailed, RequestFails, ReadOnly, Written
    <2>2. \/ found' = found \/ found' = Kept(found)
          \/ \E t : found' = StaleQueues(t) \/ found' = found \cup StaleJobs(t)
      BY <1>6 DEF Request, StatusQueues, StatusJobs, DryRunQueues, DryRunJobs, DryRunFailed,
                  CleanupQueues, CleanupJobs, CleanupFailed, RequestFails, ReadOnly, Written
    <2>3. found' \subseteq Locks
      BY <1>1, <1>2, <2>2
    <2>4. QED
      BY <1>2, <2>1, <2>3
  <1>7. CASE UNCHANGED allVars
    BY <1>7 DEF allVars, history
  <1>8. QED
    BY <1>5, <1>6, <1>7 DEF AdminNext

\* What the operator holds: the request, what it has read, and the answer.
DeskTypes ==
    /\ desk \in Desks
    /\ answer \in {"none", "unhealthy", "multiple", "warning", "healthy",
                   "forecast", "cleaned", "failed"}
    /\ dryRun \in {"outdated", "asked", "told"}
    /\ forecast \in Forecasts

LEMMA NothingHeld ==
    ASSUME Counted, TypeOK PROVE Idle \in Desks /\ NoCounts \in Forecasts
  BY CountsInRange, LocksAdminAssumption DEF Idle, NoCounts, Desks, Forecasts

\* One of four answers fits any two counts.
LEMMA VerdictType ==
    ASSUME NEW m \in Nat, NEW n \in Nat
    PROVE  Verdict(m, n) \in {"unhealthy", "multiple", "warning", "healthy"}
  <1> ManyStale \in Nat
    BY LocksAdminAssumption
  <1>1. CASE m > 0
    BY <1>1 DEF Verdict
  <1>2. CASE m = 0 /\ n > ManyStale
    BY <1>2 DEF Verdict
  <1>3. CASE m = 0 /\ n \in 1..ManyStale
    BY <1>3 DEF Verdict
  <1>4. CASE m = 0 /\ n = 0
    BY <1>4 DEF Verdict
  <1>5. QED
    BY <1>1, <1>2, <1>3, <1>4

LEMMA DeskStep ==
    ASSUME Counted, TypeOK, DeskTypes, [AdminNext]_allVars
    PROVE  DeskTypes'
  <1> USE DEF DeskTypes
  <1>1. CASE RunnerStep
    BY <1>1, NothingHeld DEF RunnerStep
  <1>2. CASE StatusQueues
    <2>1. desk' \in Desks
      BY <1>2, NothingHeld, CountsInRange DEF StatusQueues, Idle, Desks
    <2>2. QED
      BY <1>2, <2>1 DEF StatusQueues
  <1>3. CASE StatusJobs
    <2>1. PICK S \in SUBSET queued :
             answer' = Verdict(desk.queues, Cardinality(S \cap StaleJobs(Default.job)))
      BY <1>3 DEF StatusJobs
    <2>2. S \cap StaleJobs(Default.job) \in SUBSET Jobs
      BY DEF TypeOK
    <2>3. Cardinality(S \cap StaleJobs(Default.job)) \in 0..Cardinality(Jobs)
      BY <2>2, PartCounts DEF Counted
    <2>4. Cardinality(S \cap StaleJobs(Default.job)) \in Nat /\ desk.queues \in Nat
      BY <2>3 DEF Desks
    <2>5. QED
      BY <1>3, <2>1, <2>4, VerdictType, NothingHeld DEF StatusJobs
  <1>4. CASE DryRunQueues
    <2>1. PICK t \in Thresholds :
             /\ desk' = [Idle EXCEPT !.at = "dryJobs", !.limits = t]
             /\ forecast' = [NoCounts EXCEPT !.limits = t,
                                             !.queues = Cardinality(StaleQueues(t.queue))]
      BY <1>4 DEF DryRunQueues
    <2>2. desk' \in Desks
      BY <2>1, CountsInRange DEF Idle, Desks
    <2>3. forecast' \in Forecasts
      BY <2>1, CountsInRange DEF NoCounts, Forecasts
    <2>4. QED
      BY <1>4, <2>2, <2>3 DEF DryRunQueues
  <1>5. CASE DryRunJobs
    <2>1. desk' \in Desks
      BY <1>5 DEF DryRunJobs, Desks
    <2>2. [forecast EXCEPT !.jobs = Cardinality(StaleJobs(desk.limits.job))] \in Forecasts
      BY CountsInRange DEF Forecasts
    <2>3. QED
      BY <1>5, <2>1, <2>2, NothingHeld DEF DryRunJobs, Count
  <1>6. CASE DryRunFailed
    <2>1. [forecast EXCEPT !.failed = CountFailed] \in Forecasts
      BY CountsInRange DEF Forecasts
    <2>2. QED
      BY <1>6, <2>1, NothingHeld DEF DryRunFailed, Count
  <1>7. CASE CleanupQueues
    <2>1. PICK t \in Thresholds : desk' = [Idle EXCEPT !.at = "release", !.limits = t]
      BY <1>7 DEF CleanupQueues
    <2>2. desk' \in Desks
      BY <2>1, CountsInRange DEF Idle, Desks
    <2>3. QED
      BY <1>7, <2>2 DEF CleanupQueues
  <1>8. CASE CleanupJobs
    <2>1. desk' \in Desks
      BY <1>8 DEF CleanupJobs, Desks
    <2>2. QED
      BY <1>8, <2>1 DEF CleanupJobs
  <1>9. CASE CleanupFailed \/ RequestFails
    BY <1>9, NothingHeld DEF CleanupFailed, RequestFails
  <1>10. CASE UNCHANGED allVars
    BY <1>10 DEF allVars, history
  <1>11. QED
    BY <1>1, <1>2, <1>3, <1>4, <1>5, <1>6, <1>7, <1>8, <1>9, <1>10 DEF AdminNext, Request

\* For finitely many queues and jobs, everything an operator reads is in range,
\* however the runners move the locks between the statements of a request: the
\* counts of verdict and dry run never pass the number of rows there are.
THEOREM DeskTypeCorrect ==
    ASSUME Counted
    PROVE  AdminSpec => []AdminTypeOK
  <1> DEFINE Inv == TypeOK /\ HistoryTypes /\ DeskTypes
  <1>1. AdminInit => Inv
    <2> SUFFICES ASSUME AdminInit PROVE Inv
      OBVIOUS
    <2>1. TypeOK
      BY LockTypes, StaleLocksAssumption DEF AdminInit, Init, TypeOK
    <2>2. HistoryTypes
      BY DEF AdminInit, HistoryTypes
    <2>3. DeskTypes
      BY <2>1, NothingHeld DEF AdminInit, DeskTypes
    <2>4. QED
      BY <2>1, <2>2, <2>3
  <1>2. Inv /\ [AdminNext]_allVars => Inv'
    BY AdminTypeStep, HistoryStep, DeskStep
  <1>3. Inv => AdminTypeOK
    BY DEF HistoryTypes, DeskTypes, Desks, Forecasts, Locks, AdminTypeOK
  <1>4. QED
    BY <1>1, <1>2, <1>3, PTL DEF AdminSpec

-----------------------------------------------------------------------------
(* What an operator has found stale.                                        *)

\* What happens to a queue lock that is held: it stays, ages or is released.
LEMMA HeldQueueLocksAge ==
    ASSUME TypeOK, [AdminNext]_allVars, NEW q \in Queues, queueLock[q].by # NoWorker
    PROVE  \/ queueLock'[q].by = NoWorker
           \/ queueLock'[q].by = queueLock[q].by /\ queueLock'[q].age >= queueLock[q].age
  <1> queueLock[q] \in Lock /\ queueLock[q].age \in Nat /\ MaxAge \in Nat
    BY StaleLocksAssumption DEF TypeOK, Lock, Ages
  <1>1. CASE UNCHANGED queueLock
    BY <1>1
  <1>2. ASSUME NEW t, ReleaseStaleQueueLocks(t)
        PROVE  queueLock'[q] = queueLock[q] \/ queueLock'[q].by = NoWorker
    BY <1>2 DEF ReleaseStaleQueueLocks, Free
  <1>3. ASSUME NEW w \in Workers, Fetch(w) PROVE queueLock'[q] = queueLock[q]
    <2>1. PICK j \in queued :
             /\ QueueFree(j)
             /\ queueLock' = [p \in Queues |-> IF p = QueueOf[j] THEN TakenBy(w) ELSE queueLock[p]]
      BY <1>3 DEF Fetch
    <2>2. QueueOf[j] # q
      BY <2>1, StaleLocksAssumption DEF QueueFree
    <2>3. QED
      BY <2>1, <2>2
  <1>4. ASSUME NEW w \in Workers, Complete(w) \/ Fail(w)
        PROVE  queueLock'[q] = queueLock[q] \/ queueLock'[q].by = NoWorker
    BY <1>4 DEF Complete, Fail, UnlockQueueOf, Free
  <1>5. CASE Tick
    <2>1. queueLock'[q] = [queueLock[q] EXCEPT !.age = Older(queueLock[q].age)]
      BY <1>5 DEF Tick
    <2>2. Older(queueLock[q].age) >= queueLock[q].age
      BY DEF Older
    <2>3. QED
      BY <2>1, <2>2 DEF Lock
  <1>6. \/ UNCHANGED queueLock \/ (\E t : ReleaseStaleQueueLocks(t))
        \/ (\E w \in Workers : Fetch(w) \/ Complete(w) \/ Fail(w)) \/ Tick
    <2>1. CASE RunnerStep
      BY <2>1 DEF RunnerStep, SweepStep, OtherStep, SweepQueues, SweepQueuesFails, SweepJobs,
                  SweepJobsFails, Crash, Capture, Execute
    <2>2. CASE Request
      BY <2>2, RequestWrites DEF vars
    <2>3. QED
      BY <2>1, <2>2 DEF AdminNext, allVars, vars
  <1>7. QED
    BY <1>1, <1>2, <1>3, <1>4, <1>5, <1>6

LEMMA KeptQueueStaysStale ==
    ASSUME TypeOK, [AdminNext]_allVars, NEW t \in Nat, NEW q \in Queues, Stale(queueLock[q], t),
           NEW S, q \in Kept(S)
    PROVE  Stale(queueLock'[q], t)
  <1>1. q \notin queued' /\ queueLock'[q] \in Lock
    BY AdminTypeStep, LocksAdminAssumption DEF TypeOK
  <1>2. queueLock'[q].by # NoWorker
    BY <1>1 DEF Kept
  <1>3. queueLock'[q].by = queueLock[q].by /\ queueLock'[q].age >= queueLock[q].age
    BY <1>2, HeldQueueLocksAge DEF Stale
  <1>4. /\ queueLock[q].age \in Nat /\ queueLock'[q].age \in Nat /\ AsSecs(t) \in Nat
    BY <1>1, SecsAreNat, StaleLocksAssumption DEF TypeOK, Lock, Ages
  <1>5. QED
    BY <1>2, <1>3, <1>4 DEF Stale

\* The locks a status has found are stale until they are released.
FoundStale ==
    \A l \in found : \/ l \in Queues /\ Stale(queueLock[l], Default.queue)
                     \/ l \in queued /\ Stale(jobLock[l], Default.job)

\* Only a status adds to them.
LEMMA FoundBecomes ==
    ASSUME [AdminNext]_allVars
    PROVE  \/ found' = Kept(found) /\ answer' # "healthy"
           \/ found' = Kept(found) /\ UNCHANGED answer
           \/ UNCHANGED <<vars, found>> /\ answer' # "healthy"
           \/ UNCHANGED <<vars, found, answer>>
           \/ StatusQueues \/ StatusJobs
  BY DEF AdminNext, allVars, history, RunnerStep, Request, DryRunQueues, DryRunJobs, DryRunFailed,
         CleanupQueues, CleanupJobs, CleanupFailed, RequestFails, ReadOnly, Written

LEMMA DefaultIsNat == Default.queue \in Nat /\ Default.job \in Nat
  BY LocksAdminAssumption DEF Timeouts

LEMMA FoundStaleStep ==
    ASSUME TypeOK, FoundStale, [AdminNext]_allVars
    PROVE  FoundStale'
  <1>1. CASE found' = Kept(found)
    <2> SUFFICES ASSUME NEW l \in Kept(found)
                 PROVE  \/ l \in Queues /\ Stale(queueLock'[l], Default.queue)
                        \/ l \in queued' /\ Stale(jobLock'[l], Default.job)
      BY <1>1 DEF FoundStale
    <2>1. l \in found
      BY DEF Kept
    <2>2. CASE l \in Queues /\ Stale(queueLock[l], Default.queue)
      BY <2>2, KeptQueueStaysStale, DefaultIsNat
    <2>3. CASE l \in queued /\ Stale(jobLock[l], Default.job)
      BY <2>3, KeptStaysStale, DefaultIsNat
    <2>4. QED
      BY <2>1, <2>2, <2>3 DEF FoundStale
  <1>2. CASE UNCHANGED <<vars, found>>
    BY <1>2 DEF FoundStale, vars
  <1>3. CASE StatusQueues
    BY <1>3 DEF StatusQueues, StaleQueues, ReadOnly, FoundStale, vars
  <1>4. CASE StatusJobs
    BY <1>4 DEF StatusJobs, StaleJobs, ReadOnly, FoundStale, vars
  <1>5. QED
    BY <1>1, <1>2, <1>3, <1>4, FoundBecomes

\* A verdict is "healthy" on two counts of nothing only.
LEMMA HealthyCounts ==
    ASSUME NEW m \in Nat, NEW n \in Nat, Verdict(m, n) = "healthy"
    PROVE  m = 0 /\ n = 0
  <1> ManyStale \in Nat
    BY LocksAdminAssumption
  <1>1. CASE m > 0
    BY <1>1 DEF Verdict
  <1>2. CASE m = 0 /\ n > ManyStale
    BY <1>2 DEF Verdict
  <1>3. CASE m = 0 /\ n \in 1..ManyStale
    BY <1>3 DEF Verdict
  <1>4. QED
    BY <1>1, <1>2, <1>3

\* The oldest locks come first: a list without a stale one leaves none out.
LEMMA ListedShowsStale ==
    ASSUME TypeOK, NEW t \in Nat, NEW S \in SUBSET queued, Listed(S), S \cap StaleJobs(t) = {}
    PROVE  StaleJobs(t) = {}
  <1> SUFFICES ASSUME NEW j \in queued, Stale(jobLock[j], t) PROVE FALSE
    BY DEF StaleJobs
  <1>1. j \notin S /\ jobLock[j].by # NoWorker
    BY DEF StaleJobs, Stale
  <1>2. Cardinality(S) = ListLimit /\ Cardinality(S) # 0
    BY <1>1, LocksAdminAssumption DEF Listed
  <1>3. PICK i \in S : TRUE
    BY <1>2, FS_EmptySet
  <1>4. jobLock[i].by # NoWorker /\ jobLock[i].age >= jobLock[j].age
    BY <1>1, <1>3 DEF Listed
  <1>5. jobLock[i].age \in Nat /\ jobLock[j].age \in Nat /\ AsSecs(t) \in Nat
    BY <1>3, SecsAreNat, StaleLocksAssumption DEF TypeOK, Lock, Ages
  <1>6. Stale(jobLock[i], t)
    BY <1>4, <1>5 DEF Stale
  <1>7. QED
    BY <1>3, <1>6 DEF StaleJobs

\* A status that has counted no queue lock has found none, before its second
\* statement, and neither has one that answered "healthy".
VerdictSo ==
    /\ desk.at = "status" /\ desk.queues = 0 => found = {}
    /\ answer = "healthy" => found = {}

LEMMA VerdictStep ==
    ASSUME Counted, TypeOK, DeskTypes, VerdictSo, [AdminNext]_allVars
    PROVE  VerdictSo'
  <1> USE DEF VerdictSo
  <1>1. CASE RunnerStep
    BY <1>1, KeptOfNone DEF RunnerStep
  <1>2. CASE StatusQueues
    <2>1. IsFiniteSet(StaleQueues(Default.queue))
      BY FS_Subset DEF StaleQueues, Counted
    <2>2. desk'.queues = Cardinality(StaleQueues(Default.queue)) /\ found' = StaleQueues(Default.queue)
      BY <1>2 DEF StatusQueues, Idle
    <2>3. desk'.queues = 0 => found' = {}
      BY <2>1, <2>2, FS_EmptySet
    <2>4. QED
      BY <1>2, <2>3 DEF StatusQueues
  <1>3. CASE StatusJobs
    <2>1. PICK S \in SUBSET queued :
             /\ Listed(S)
             /\ answer' = Verdict(desk.queues, Cardinality(S \cap StaleJobs(Default.job)))
      BY <1>3 DEF StatusJobs
    <2> DEFINE T == S \cap StaleJobs(Default.job)
    <2>2. T \in SUBSET Jobs
      BY DEF TypeOK
    <2>3. IsFiniteSet(T) /\ Cardinality(T) \in Nat
      BY <2>2, FS_Subset, FS_CardinalityType DEF Counted
    <2>4. desk.queues \in Nat
      BY DEF DeskTypes, Desks
    <2>5. ASSUME answer' = "healthy" PROVE found' = {}
      <3>1. desk.queues = 0 /\ Cardinality(T) = 0
        BY <2>1, <2>3, <2>4, <2>5, HealthyCounts
      <3>2. T = {}
        BY <2>3, <3>1, FS_EmptySet
      <3>3. StaleJobs(Default.job) = {}
        BY <2>1, <3>2, ListedShowsStale, DefaultIsNat
      <3>4. QED
        BY <1>3, <3>1, <3>3 DEF StatusJobs
    <2>6. QED
      BY <1>3, <2>5 DEF StatusJobs, Idle
  <1>4. CASE DryRunQueues
    BY <1>4 DEF DryRunQueues, Idle
  <1>5. CASE DryRunJobs
    <2>1. desk'.at = "dryFailed"
      BY <1>5 DEF DryRunJobs, DeskTypes, Desks
    <2>2. QED
      BY <1>5, <2>1 DEF DryRunJobs
  <1>6. CASE CleanupQueues
    BY <1>6 DEF CleanupQueues, Idle
  <1>7. CASE CleanupJobs
    <2>1. desk'.at = "delete"
      BY <1>7 DEF CleanupJobs, DeskTypes, Desks
    <2>2. QED
      BY <1>7, <2>1, KeptOfNone DEF CleanupJobs, Written
  <1>8. CASE DryRunFailed \/ CleanupFailed \/ RequestFails
    BY <1>8 DEF DryRunFailed, CleanupFailed, RequestFails, Idle
  <1>9. CASE UNCHANGED allVars
    BY <1>9 DEF allVars, history
  <1>10. QED
    BY <1>1, <1>2, <1>3, <1>4, <1>5, <1>6, <1>7, <1>8, <1>9 DEF AdminNext, Request

\* What a status reads, in two statements between which the runners go on: its
\* "healthy" hides no lock that was stale, beyond the LIMIT of its list either.
THEOREM HealthyAnswersTrue ==
    ASSUME Counted
    PROVE  AdminSpec => []HealthyIsTrue
  <1> DEFINE Inv == TypeOK /\ DeskTypes /\ VerdictSo
  <1>1. AdminInit => Inv
    <2> SUFFICES ASSUME AdminInit PROVE Inv
      OBVIOUS
    <2>1. TypeOK
      BY LockTypes, StaleLocksAssumption DEF AdminInit, Init, TypeOK
    <2>2. DeskTypes
      BY <2>1, NothingHeld DEF AdminInit, DeskTypes
    <2>3. QED
      BY <2>1, <2>2 DEF AdminInit, VerdictSo
  <1>2. Inv /\ [AdminNext]_allVars => Inv'
    BY AdminTypeStep, DeskStep, VerdictStep
  <1>3. Inv => HealthyIsTrue
    BY DEF VerdictSo, HealthyIsTrue
  <1>4. QED
    BY <1>1, <1>2, <1>3, PTL DEF AdminSpec

-----------------------------------------------------------------------------
(* What a cleanup leaves of it.                                             *)

\* A cleanup as impatient as the status has released what the status found.
FoundGone ==
    /\ desk.at \in {"release", "delete"} /\ desk.limits.queue <= Default.queue
          => found \cap Queues = {}
    /\ desk.at = "delete" /\ desk.limits.job <= Default.job => found \cap Jobs = {}

\* Thresholds are whole minutes, which the conversion to seconds leaves alone.
LEMMA ThresholdsAreNat ==
    ASSUME NEW t \in Thresholds
    PROVE  /\ t.queue \in Nat /\ t.job \in Nat
           /\ AsSecs(t.queue) = t.queue /\ AsSecs(t.job) = t.job
  BY LocksAdminAssumption DEF Timeouts

LEMMA FoundGoneStep ==
    ASSUME TypeOK, DeskLimits, FoundStale, FoundGone, [AdminNext]_allVars
    PROVE  FoundGone'
  <1> USE DEF FoundGone
  <1>1. Kept(found) \subseteq found
    BY KeptIsPart
  <1>2. CASE RunnerStep
    BY <1>1, <1>2 DEF RunnerStep
  <1>3. CASE StatusQueues \/ StatusJobs \/ DryRunQueues \/ DryRunFailed \/ CleanupFailed
             \/ RequestFails
    <2>1. CASE StatusQueues \/ DryRunQueues
      BY <2>1 DEF StatusQueues, DryRunQueues, Idle
    <2>2. CASE StatusJobs \/ DryRunFailed \/ CleanupFailed \/ RequestFails
      BY <2>2 DEF StatusJobs, DryRunFailed, CleanupFailed, RequestFails, Idle
    <2>3. QED
      BY <1>3, <2>1, <2>2
  <1>4. CASE DryRunJobs
    <2>1. desk'.at = "dryFailed"
      BY <1>4 DEF DryRunJobs, DeskLimits
    <2>2. QED
      BY <2>1
  <1>5. CASE CleanupQueues
    <2>1. PICK t \in Thresholds : /\ ReleaseStaleQueueLocks(t.queue)
                                  /\ desk' = [Idle EXCEPT !.at = "release", !.limits = t]
      BY <1>5 DEF CleanupQueues
    <2>2. desk'.at = "release" /\ desk'.limits = t
      BY <2>1 DEF Idle
    <2>3. ASSUME t.queue <= Default.queue, NEW q \in Queues, q \in Kept(found) PROVE FALSE
      <3>1. q \in found /\ q \notin queued /\ q \notin queued'
        BY <1>5, <2>3, LocksAdminAssumption DEF CleanupQueues, Kept, TypeOK
      <3>2. Stale(queueLock[q], Default.queue)
        BY <3>1 DEF FoundStale
      <3>3. /\ queueLock[q].age \in Nat /\ AsSecs(Default.queue) = Default.queue
            /\ AsSecs(t.queue) = t.queue /\ t.queue \in Nat /\ Default.queue \in Nat
        BY ThresholdsAreNat, LocksAdminAssumption, StaleLocksAssumption DEF TypeOK, Lock, Ages
      <3>4. Stale(queueLock[q], t.queue)
        BY <2>3, <3>2, <3>3 DEF Stale
      <3>5. queueLock'[q].by = NoWorker
        BY <2>1, <3>4 DEF ReleaseStaleQueueLocks, Free
      <3>6. QED
        BY <2>3, <3>1, <3>5 DEF Kept
    <2>4. found' = Kept(found)
      BY <1>5 DEF CleanupQueues, Written
    <2>5. QED
      BY <2>2, <2>3, <2>4
  <1>6. CASE CleanupJobs
    <2>1. desk'.at = "delete" /\ desk'.limits = desk.limits /\ desk.at = "release"
          /\ desk.limits \in Thresholds
      BY <1>6 DEF CleanupJobs, DeskLimits
    <2>2. ASSUME desk.limits.job <= Default.job, NEW j \in Jobs, j \in Kept(found) PROVE FALSE
      <3>1. j \in found /\ j \notin Queues /\ queued' = queued
        BY <1>6, <2>2, LocksAdminAssumption DEF CleanupJobs, Kept
      <3>2. j \in queued /\ Stale(jobLock[j], Default.job)
        BY <3>1 DEF FoundStale
      <3>3. /\ jobLock[j].age \in Nat /\ AsSecs(Default.job) = Default.job
            /\ AsSecs(desk.limits.job) = desk.limits.job
            /\ desk.limits.job \in Nat /\ Default.job \in Nat
        BY <2>1, ThresholdsAreNat, LocksAdminAssumption, StaleLocksAssumption DEF TypeOK, Lock, Ages
      <3>4. Stale(jobLock[j], desk.limits.job)
        BY <2>2, <3>2, <3>3 DEF Stale
      <3>5. jobLock'[j].by = NoWorker
        BY <1>6, <3>2, <3>4 DEF CleanupJobs, ReleaseStaleJobLocks, Free
      <3>6. QED
        BY <2>2, <3>1, <3>5 DEF Kept
    <2>3. found' = Kept(found)
      BY <1>6 DEF CleanupJobs, Written
    <2>4. QED
      BY <1>1, <2>1, <2>2, <2>3
  <1>7. CASE UNCHANGED allVars
    BY <1>7 DEF allVars, history
  <1>8. QED
    BY <1>2, <1>3, <1>4, <1>5, <1>6, <1>7 DEF AdminNext, Request

\* Whoever releases them, and whatever ages in the meantime, none of the locks a
\* status has found is left when the cleanup that follows it has answered.
THEOREM CleanupsReleaseFound == AdminSpec => CleanupReleasesFound
  <1> DEFINE Inv == TypeOK /\ DeskLimits /\ FoundStale /\ FoundGone
             Answered == desk.at = "delete" /\ answer' = "cleaned"
                => /\ desk.limits.queue <= Default.queue => found' \cap Queues = {}
                   /\ desk.limits.job <= Default.job => found' \cap Jobs = {}
  <1>1. AdminInit => Inv
    BY LockTypes, StaleLocksAssumption, LocksAdminAssumption
    DEF AdminInit, Init, TypeOK, DeskLimits, Idle, FoundStale, FoundGone
  <1>2. Inv /\ [AdminNext]_allVars => Inv'
    BY AdminTypeStep, DeskLimitsStep, FoundStaleStep, FoundGoneStep
  <1>3. ASSUME Inv, [AdminNext]_allVars PROVE [Answered]_allVars
    <2>1. CASE found' \subseteq found
      BY <1>3, <2>1 DEF FoundGone
    <2>2. CASE StatusQueues \/ StatusJobs
      BY <2>2 DEF StatusQueues, StatusJobs
    <2>3. found' \subseteq found \/ StatusQueues \/ StatusJobs
      BY <1>3, FoundBecomes, KeptIsPart
    <2>4. QED
      BY <2>1, <2>2, <2>3
  <1> HIDE DEF Inv
  <1>4. QED
    BY <1>1, <1>2, <1>3, PTL DEF AdminSpec, CleanupReleasesFound

-----------------------------------------------------------------------------
(* What a dry run foretells.                                                *)

CountedQueues == forecast.queues = Cardinality(StaleQueues(forecast.limits.queue))
CountedJobs == forecast.jobs = Cardinality(StaleJobs(forecast.limits.job))
CountedFailed == forecast.failed = CountFailed

\* As long as nobody else has done anything, the counts are those of the tables;
\* once the job locks are released, the failed jobs are the counted ones and some
\* of those whose locks were counted.
ForecastSo ==
    /\ dryRun = "asked" =>
          /\ desk.at \in {"dryJobs", "dryFailed"} /\ desk.limits = forecast.limits
          /\ CountedQueues
          /\ desk.at = "dryFailed" => CountedJobs
    /\ dryRun = "told" =>
          /\ desk.at \in {"idle", "status", "release", "delete"}
          /\ desk.at \in {"idle", "status"} => CountedQueues
          /\ desk.at # "delete" => CountedJobs /\ CountedFailed
          /\ desk.at = "delete" /\ desk.limits = forecast.limits
             => CountFailed \in forecast.failed..(forecast.failed + forecast.jobs)

LEMMA CountsKept ==
    ASSUME UNCHANGED <<jobLock, queued, attempts>>
    PROVE  /\ CountFailed' = CountFailed
           /\ UNCHANGED forecast => CountedJobs' = CountedJobs /\ CountedFailed' = CountedFailed
           /\ UNCHANGED <<forecast, queueLock>> => CountedQueues' = CountedQueues
  <1>1. FailedUnlocked' = FailedUnlocked
    BY DEF FailedUnlocked, Exhausted
  <1>2. CountFailed' = CountFailed
    BY <1>1 DEF CountFailed
  <1>3. ASSUME UNCHANGED forecast PROVE CountedJobs' = CountedJobs /\ CountedFailed' = CountedFailed
    BY <1>2, <1>3 DEF CountedJobs, CountedFailed, StaleJobs
  <1>4. ASSUME UNCHANGED <<forecast, queueLock>> PROVE CountedQueues' = CountedQueues
    BY <1>4 DEF CountedQueues, StaleQueues
  <1>5. QED
    BY <1>2, <1>3, <1>4

\* Releasing locks makes failed jobs of at most as many rows as were locked.
LEMMA ReleaseAddsFailed ==
    ASSUME Counted, TypeOK, NEW t \in Nat, ReleaseStaleJobLocks(t), UNCHANGED <<queued, attempts>>
    PROVE  CountFailed' \in CountFailed..(CountFailed + Cardinality(StaleJobs(t)))
  <1> DEFINE F == FailedUnlocked
             G == FailedUnlocked'
             S == StaleJobs(t)
  <1>1. IsFiniteSet(F) /\ IsFiniteSet(G) /\ IsFiniteSet(S)
    <2>1. F \in SUBSET Jobs /\ S \in SUBSET Jobs /\ G \in SUBSET Jobs
      BY DEF FailedUnlocked, StaleJobs, TypeOK
    <2>2. QED
      BY <2>1, FS_Subset DEF Counted
  <1>2. F \subseteq G
    <2> SUFFICES ASSUME NEW j \in F PROVE j \in G
      OBVIOUS
    <2>1. j \in queued /\ j \in Jobs /\ Exhausted(j) /\ jobLock[j].by = NoWorker
      BY DEF FailedUnlocked, TypeOK
    <2>2. jobLock'[j].by = NoWorker /\ attempts' = attempts /\ queued' = queued
      BY <2>1 DEF ReleaseStaleJobLocks, Free
    <2>3. QED
      BY <2>1, <2>2 DEF FailedUnlocked, Exhausted
  <1>3. G \subseteq F \cup S
    <2> SUFFICES ASSUME NEW j \in G, j \notin S PROVE j \in F
      OBVIOUS
    <2>1. j \in queued /\ j \in Jobs /\ Exhausted(j) /\ jobLock'[j].by = NoWorker
      BY DEF FailedUnlocked, TypeOK, Exhausted
    <2>2. jobLock'[j] = jobLock[j]
      BY <2>1 DEF ReleaseStaleJobLocks, StaleJobs
    <2>3. QED
      BY <2>1, <2>2 DEF FailedUnlocked
  <1> HIDE DEF F, G, S
  <1>4. IsFiniteSet(F \cup S) /\ Cardinality(F \cup S) <= Cardinality(F) + Cardinality(S)
    <2>1. /\ IsFiniteSet(F \cup S)
          /\ Cardinality(F \cup S) = Cardinality(F) + Cardinality(S) - Cardinality(F \cap S)
      BY <1>1, FS_Union
    <2>2. IsFiniteSet(F \cap S)
      BY <1>1, FS_Intersection
    <2>3. Cardinality(F) \in Nat /\ Cardinality(S) \in Nat /\ Cardinality(F \cap S) \in Nat
      BY <1>1, <2>2, FS_CardinalityType
    <2>4. QED
      BY <2>1, <2>3
  <1>5. Cardinality(F) <= Cardinality(G)
    BY <1>1, <1>2, FS_Subset
  <1>6. Cardinality(G) <= Cardinality(F \cup S)
    BY <1>3, <1>4, FS_Subset
  <1>7. /\ Cardinality(F) \in Nat /\ Cardinality(S) \in Nat /\ Cardinality(G) \in Nat
        /\ Cardinality(F \cup S) \in Nat
    BY <1>1, <1>4, FS_CardinalityType
  <1>8. Cardinality(G) \in Cardinality(F)..(Cardinality(F) + Cardinality(S))
    BY <1>4, <1>5, <1>6, <1>7
  <1>9. CountFailed = Cardinality(F) /\ CountFailed' = Cardinality(G)
    BY DEF CountFailed, F, G
  <1>10. QED
    BY <1>8, <1>9 DEF S

LEMMA ForecastStep ==
    ASSUME Counted, TypeOK, DeskTypes, ForecastSo, [AdminNext]_allVars
    PROVE  ForecastSo'
  <1> USE DEF ForecastSo
  <1>1. CASE dryRun' = "outdated"
    BY <1>1
  <1>2. CASE StatusQueues \/ StatusJobs
    <2>1. desk.at \in {"idle", "status"} /\ desk'.at \in {"idle", "status"}
      <3>1. CASE StatusQueues
        BY <3>1 DEF StatusQueues, Idle
      <3>2. CASE StatusJobs
        BY <3>2 DEF StatusJobs, Idle
      <3>3. QED
        BY <1>2, <3>1, <3>2
    <2>2. UNCHANGED <<jobLock, queued, attempts, queueLock, dryRun, forecast>>
      BY <1>2 DEF StatusQueues, StatusJobs, ReadOnly, vars
    <2>3. QED
      BY <2>1, <2>2, CountsKept
  <1>3. CASE DryRunQueues
    <2>1. PICK t \in Thresholds :
             /\ desk' = [Idle EXCEPT !.at = "dryJobs", !.limits = t]
             /\ forecast' = [NoCounts EXCEPT !.limits = t,
                                             !.queues = Cardinality(StaleQueues(t.queue))]
      BY <1>3 DEF DryRunQueues
    <2>2. /\ desk'.at = "dryJobs" /\ desk'.limits = t
          /\ forecast'.limits = t /\ forecast'.queues = Cardinality(StaleQueues(t.queue))
      BY <2>1 DEF Idle, NoCounts
    <2>3. dryRun' = "asked" /\ UNCHANGED queueLock
      BY <1>3 DEF DryRunQueues, ReadOnly, vars
    <2>4. CountedQueues'
      BY <2>2, <2>3 DEF CountedQueues, StaleQueues
    <2>5. QED
      BY <2>2, <2>3, <2>4
  <1>4. CASE DryRunJobs /\ dryRun = "asked"
    <2>1. /\ desk'.at = "dryFailed" /\ desk'.limits = desk.limits
          /\ forecast' = [forecast EXCEPT !.jobs = Cardinality(StaleJobs(desk.limits.job))]
      BY <1>4 DEF DryRunJobs, Count, DeskTypes, Desks
    <2>2. /\ forecast'.limits = forecast.limits /\ forecast'.queues = forecast.queues
          /\ forecast'.jobs = Cardinality(StaleJobs(desk.limits.job))
      BY <2>1 DEF DeskTypes, Forecasts
    <2>3. UNCHANGED <<jobLock, queued, queueLock, dryRun>>
      BY <1>4 DEF DryRunJobs, ReadOnly, vars
    <2>4. CountedQueues'
      BY <1>4, <2>2, <2>3 DEF CountedQueues, StaleQueues
    <2>5. CountedJobs'
      BY <1>4, <2>2, <2>3 DEF CountedJobs, StaleJobs
    <2>6. QED
      BY <1>4, <2>1, <2>2, <2>3, <2>4, <2>5
  <1>5. CASE DryRunFailed /\ dryRun = "asked"
    <2>1. /\ desk'.at = "idle" /\ dryRun' = "told" /\ desk.at = "dryFailed"
          /\ forecast' = [forecast EXCEPT !.failed = CountFailed]
      BY <1>5 DEF DryRunFailed, Count, Idle
    <2>2. /\ forecast'.limits = forecast.limits /\ forecast'.queues = forecast.queues
          /\ forecast'.jobs = forecast.jobs /\ forecast'.failed = CountFailed
      BY <2>1 DEF DeskTypes, Forecasts
    <2>3. UNCHANGED <<jobLock, queued, attempts, queueLock>>
      BY <1>5 DEF DryRunFailed, ReadOnly, vars
    <2>4. CountedQueues'
      BY <1>5, <2>2, <2>3 DEF CountedQueues, StaleQueues
    <2>5. CountedJobs'
      BY <1>5, <2>1, <2>2, <2>3 DEF CountedJobs, StaleJobs
    <2>6. CountedFailed'
      BY <2>2, <2>3, CountsKept DEF CountedFailed
    <2>7. QED
      BY <2>1, <2>4, <2>5, <2>6
  <1>6. CASE (DryRunJobs \/ DryRunFailed) /\ dryRun # "asked"
    <2>1. dryRun = "outdated" /\ dryRun' = dryRun
      BY <1>6 DEF DryRunJobs, DryRunFailed, DeskTypes
    <2>2. QED
      BY <2>1
  <1>7. CASE CleanupQueues
    <2>1. desk.at = "idle" /\ desk'.at = "release"
      BY <1>7 DEF CleanupQueues, Idle
    <2>2. UNCHANGED <<jobLock, queued, attempts, dryRun, forecast>>
      BY <1>7 DEF CleanupQueues, Written
    <2>3. QED
      BY <2>1, <2>2, CountsKept
  <1>8. CASE CleanupJobs
    <2>1. desk.at = "release" /\ desk'.at = "delete" /\ desk'.limits = desk.limits
          /\ desk.limits \in Thresholds
      BY <1>8 DEF CleanupJobs, DeskTypes, Desks
    <2>2. UNCHANGED <<queued, attempts, dryRun, forecast>>
      BY <1>8 DEF CleanupJobs, Written
    <2>3. CountFailed' \in CountFailed..(CountFailed + Cardinality(StaleJobs(desk.limits.job)))
      BY <1>8, <2>1, <2>2, ReleaseAddsFailed, ThresholdsAreNat DEF CleanupJobs
    <2>4. ASSUME dryRun = "told", desk.limits = forecast.limits
          PROVE  CountFailed' \in forecast'.failed..(forecast'.failed + forecast'.jobs)
      BY <2>1, <2>2, <2>3, <2>4 DEF CountedJobs, CountedFailed
    <2>5. QED
      BY <2>1, <2>2, <2>4
  <1>9. CASE UNCHANGED allVars
    <2>1. UNCHANGED <<jobLock, queued, attempts, queueLock, desk, dryRun, forecast>>
      BY <1>9 DEF allVars, history, vars
    <2>2. QED
      BY <2>1, CountsKept
  <1>10. \/ dryRun' = "outdated" \/ StatusQueues \/ StatusJobs \/ DryRunQueues \/ DryRunJobs
         \/ DryRunFailed \/ CleanupQueues \/ CleanupJobs \/ UNCHANGED allVars
    BY DEF AdminNext, RunnerStep, Request, CleanupFailed, RequestFails
  <1>11. QED
    BY <1>1, <1>2, <1>3, <1>4, <1>5, <1>6, <1>7, <1>8, <1>9, <1>10

\* A cleanup that has begun has not answered.
ReleaseUnanswered == desk.at = "release" => answer = "none"

LEMMA UnansweredStep ==
    ASSUME DeskTypes, ReleaseUnanswered, [AdminNext]_allVars
    PROVE  ReleaseUnanswered'
  <1> USE DEF ReleaseUnanswered
  <1>1. CASE RunnerStep \/ UNCHANGED allVars
    BY <1>1 DEF RunnerStep, allVars
  <1>2. CASE StatusQueues \/ DryRunQueues
    BY <1>2 DEF StatusQueues, DryRunQueues
  <1>3. CASE StatusJobs \/ DryRunFailed \/ CleanupFailed \/ RequestFails
    BY <1>3 DEF StatusJobs, DryRunFailed, CleanupFailed, RequestFails, Idle
  <1>4. CASE DryRunJobs \/ CleanupJobs
    BY <1>4 DEF DryRunJobs, CleanupJobs, DeskTypes, Desks
  <1>5. CASE CleanupQueues
    BY <1>5 DEF CleanupQueues
  <1>6. QED
    BY <1>1, <1>2, <1>3, <1>4, <1>5 DEF AdminNext, Request

\* What the statements of a cleanup release and delete.
LEMMA ReleasedQueues ==
    ASSUME NEW t, ReleaseStaleQueueLocks(t)
    PROVE  Released.queues = Cardinality(StaleQueues(t))
  <1>1. {q \in Queues : queueLock'[q] # queueLock[q]} = StaleQueues(t)
    BY DEF ReleaseStaleQueueLocks, StaleQueues, Stale, Free
  <1>2. QED
    BY <1>1 DEF Released

LEMMA ReleasedJobs ==
    ASSUME TypeOK, NEW t, ReleaseStaleJobLocks(t)
    PROVE  Released.jobs = Cardinality(StaleJobs(t))
  <1>1. {j \in Jobs : jobLock'[j] # jobLock[j]} = StaleJobs(t)
    BY DEF ReleaseStaleJobLocks, StaleJobs, Stale, Free, TypeOK
  <1>2. QED
    BY <1>1 DEF Released

LEMMA DeletedJobs ==
    ASSUME CleanupFailed
    PROVE  Released.failed = CountFailed
  <1>1. queued \ queued' = FailedUnlocked
    BY DEF CleanupFailed, FailedUnlocked
  <1>2. QED
    BY <1>1 DEF Released, CountFailed

\* A cleanup that follows a dry run at once keeps its word: as many queue and job
\* locks are released as were counted, and beyond the failed jobs counted only such
\* are deleted whose locks the cleanup has just released.
THEOREM ForecastsHold ==
    ASSUME Counted
    PROVE  AdminSpec => ForecastHolds
  <1> DEFINE Inv == TypeOK /\ DeskTypes /\ ForecastSo /\ ReleaseUnanswered
             Holds == /\ Foretold /\ desk'.at = "release" => Released.queues = forecast.queues
                      /\ Foretold /\ desk'.at = "delete" => Released.jobs = forecast.jobs
                      /\ dryRun = "told" /\ answer' = "cleaned" /\ desk.limits = forecast.limits
                           => Released.failed \in forecast.failed..(forecast.failed + forecast.jobs)
  <1>1. AdminInit => Inv
    <2> SUFFICES ASSUME AdminInit PROVE Inv
      OBVIOUS
    <2>1. TypeOK
      BY LockTypes, StaleLocksAssumption DEF AdminInit, Init, TypeOK
    <2>2. DeskTypes
      BY <2>1, NothingHeld DEF AdminInit, DeskTypes
    <2>3. QED
      BY <2>1, <2>2 DEF AdminInit, ForecastSo, ReleaseUnanswered, Idle
  <1>2. Inv /\ [AdminNext]_allVars => Inv'
    BY AdminTypeStep, DeskStep, ForecastStep, UnansweredStep
  <1>3. ASSUME Inv, [AdminNext]_allVars PROVE [Holds]_allVars
    <2>1. CASE RunnerStep \/ UNCHANGED allVars
      BY <2>1 DEF RunnerStep, Foretold
    <2>2. CASE StatusQueues \/ StatusJobs \/ DryRunQueues \/ DryRunFailed \/ RequestFails
      <3>1. CASE StatusQueues \/ DryRunQueues
        BY <3>1 DEF StatusQueues, DryRunQueues, Idle
      <3>2. CASE StatusJobs
        <4>1. answer' \in {"unhealthy", "multiple", "warning", "healthy"}
          <5>1. PICK S \in SUBSET queued :
                   answer' = Verdict(desk.queues, Cardinality(S \cap StaleJobs(Default.job)))
            BY <3>2 DEF StatusJobs
          <5>2. S \cap StaleJobs(Default.job) \in SUBSET Jobs
            BY <1>3 DEF TypeOK
          <5>3. Cardinality(S \cap StaleJobs(Default.job)) \in 0..Cardinality(Jobs)
            BY <5>2, PartCounts DEF Counted
          <5>4. Cardinality(S \cap StaleJobs(Default.job)) \in Nat /\ desk.queues \in Nat
            BY <1>3, <5>3 DEF DeskTypes, Desks
          <5>5. QED
            BY <5>1, <5>4, VerdictType
        <4>2. desk'.at = "idle"
          BY <3>2 DEF StatusJobs, Idle
        <4>3. QED
          BY <4>1, <4>2
      <3>3. CASE DryRunFailed \/ RequestFails
        BY <3>3 DEF DryRunFailed, RequestFails, Idle
      <3>4. QED
        BY <2>2, <3>1, <3>2, <3>3
    <2>3. CASE DryRunJobs
      <3>1. desk.at = "dryJobs" /\ desk'.at = "dryFailed"
        BY <1>3, <2>3 DEF DryRunJobs, DeskTypes, Desks
      <3>2. dryRun # "told"
        BY <1>3, <3>1 DEF ForecastSo
      <3>3. QED
        BY <3>1, <3>2
    <2>4. CASE CleanupQueues
      <3>1. PICK t \in Thresholds : /\ ReleaseStaleQueueLocks(t.queue)
                                    /\ desk' = [Idle EXCEPT !.at = "release", !.limits = t]
        BY <2>4 DEF CleanupQueues
      <3>2. desk'.at = "release" /\ desk'.limits = t /\ desk.at = "idle" /\ answer' = "none"
        BY <2>4, <3>1 DEF CleanupQueues, Idle
      <3>3. Released.queues = Cardinality(StaleQueues(t.queue))
        BY <3>1, ReleasedQueues
      <3>4. ASSUME Foretold PROVE Released.queues = forecast.queues
        BY <1>3, <3>2, <3>3, <3>4 DEF Foretold, ForecastSo, CountedQueues
      <3>5. QED
        BY <3>2, <3>4
    <2>5. CASE CleanupJobs
      <3>1. desk'.at = "delete" /\ desk'.limits = desk.limits /\ desk.at = "release"
            /\ answer' = "none"
        BY <1>3, <2>5 DEF CleanupJobs, DeskTypes, Desks, ReleaseUnanswered
      <3>2. Released.jobs = Cardinality(StaleJobs(desk.limits.job))
        BY <1>3, <2>5, ReleasedJobs DEF CleanupJobs
      <3>3. ASSUME Foretold PROVE Released.jobs = forecast.jobs
        BY <1>3, <3>1, <3>2, <3>3 DEF Foretold, ForecastSo, CountedJobs
      <3>4. QED
        BY <3>1, <3>3
    <2>6. CASE CleanupFailed
      <3>1. desk'.at = "idle" /\ desk.at = "delete"
        BY <2>6 DEF CleanupFailed, Idle
      <3>2. Released.failed = CountFailed
        BY <2>6, DeletedJobs
      <3>3. QED
        BY <1>3, <3>1, <3>2 DEF ForecastSo
    <2>7. QED
      BY <1>3, <2>1, <2>2, <2>3, <2>4, <2>5, <2>6 DEF AdminNext, Request
  <1> HIDE DEF Inv
  <1>4. QED
    BY <1>1, <1>2, <1>3, PTL DEF AdminSpec, ForecastHolds
=============================================================================
