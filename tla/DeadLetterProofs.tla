-------------------------- MODULE DeadLetterProofs --------------------------
(* Theorems about DeadLetter for every number of runners, admins, jobs and  *)
(* payloads, every batch limit and every combination of disturbances.       *)
EXTENDS DeadLetter, FiniteSetTheorems, TLAPS

\* What the queue table may become in a step.
RowsStay ==
    /\ \A j \in DOMAIN jobs \cap DOMAIN jobs' :
          jobs[j].attempts >= MaxAttempts =>
             /\ jobs'[j].attempts >= MaxAttempts
             /\ jobs'[j].item = jobs[j].item
    /\ \A j \in DOMAIN jobs' \ DOMAIN jobs : j >= nextJob
QueueStep ==
    /\ JobsTypeOK'
    /\ nextJob' >= nextJob
    /\ RowsStay

LEMMA AddJobQueueStep ==
    ASSUME JobsTypeOK, settled \subseteq Items, NEW k \in AnyKey, NEW i \in Items, AddJob(k, i)
    PROVE  QueueStep /\ settled' \subseteq Items
  <1>1. NewRow(k, i) \in JobRow
    BY DeadLetterAssumption DEF NewRow, JobRow
  <1>2. CASE ReplaceInPlace(k, i)
    <2>1. PICK j \in Holders(k) :
            /\ Available(j)
            /\ jobs' = [jobs EXCEPT ![j] = NewRow(k, i)]
            /\ settled' = settled \cup ({jobs[j].item} \ {i})
            /\ nextJob' = nextJob
      BY <1>2 DEF ReplaceInPlace
    <2>2. j \in DOMAIN jobs /\ jobs[j] \in JobRow
      BY DEF Holders, JobsTypeOK
    <2>3. JobsTypeOK' /\ nextJob' >= nextJob
      BY <1>1, <2>1, <2>2 DEF JobsTypeOK
    <2>4. RowsStay
      BY <2>1, <2>2, DeadLetterAssumption DEF Available, JobsTypeOK, JobRow, RowsStay
    <2>5. settled' \subseteq Items
      BY <2>1, <2>2 DEF JobRow
    <2>6. QED
      BY <2>3, <2>4, <2>5 DEF QueueStep
  <1>3. CASE InsertBeside(k, i)
    <2>1. PICK j \in Holders(k) :
            /\ \E n \in {jobs[j].attempts, MaxAttempts} :
                  jobs' = Put([jobs EXCEPT ![j] = Keyless(jobs[j], n)],
                              nextJob, NewRow(k, i))
            /\ settled' = settled \cup ({jobs[j].item} \ {i})
            /\ nextJob' = nextJob + 1
      BY <1>3 DEF InsertBeside
    <2>0. PICK n \in {jobs[j].attempts, MaxAttempts} :
            jobs' = Put([jobs EXCEPT ![j] = Keyless(jobs[j], n)], nextJob, NewRow(k, i))
      BY <2>1
    <2> DEFINE stripped == [jobs EXCEPT ![j] = Keyless(jobs[j], n)]
    <2>2. j \in DOMAIN jobs
      BY DEF Holders
    <2>3. /\ stripped \in [DOMAIN stripped -> JobRow] /\ DOMAIN stripped = DOMAIN jobs
          /\ \A x \in DOMAIN jobs :
                jobs[x].attempts >= MaxAttempts =>
                  /\ stripped[x].attempts >= MaxAttempts
                  /\ stripped[x].item = jobs[x].item
      <3>1. jobs[j] \in JobRow /\ n \in 0..MaxAttempts /\ n >= jobs[j].attempts
        BY <2>2, DeadLetterAssumption DEF JobsTypeOK, JobRow
      <3>2. /\ Keyless(jobs[j], n) \in JobRow
            /\ Keyless(jobs[j], n).item = jobs[j].item
            /\ Keyless(jobs[j], n).attempts = n
        BY <3>1, DeadLetterAssumption DEF JobRow, AnyKey, Keyless
      <3>3. QED
        BY <2>2, <3>1, <3>2, DeadLetterAssumption DEF JobsTypeOK, JobRow
    <2>4. jobs' = Put(stripped, nextJob, NewRow(k, i))
      BY <2>0
    <2>5. nextJob \notin DOMAIN jobs
      BY DEF JobsTypeOK
    <2> HIDE DEF stripped
    <2>6. /\ jobs' \in [DOMAIN jobs' -> JobRow]
          /\ DOMAIN jobs' = DOMAIN jobs \cup {nextJob}
          /\ \A x \in DOMAIN jobs : jobs'[x] = stripped[x]
      BY <1>1, <2>3, <2>4, <2>5 DEF Put
    <2>7. QueueStep
      <3>0. nextJob \in Nat \ {0} /\ DOMAIN jobs \subseteq 1..(nextJob - 1)
        BY DEF JobsTypeOK
      <3>1. nextJob' = nextJob + 1
        BY <2>1
      <3>2. JobsTypeOK' /\ nextJob' >= nextJob
        BY <2>6, <3>0, <3>1 DEF JobsTypeOK
      <3>3. RowsStay
        BY <2>3, <2>6, <3>0 DEF RowsStay
      <3>4. QED
        BY <3>2, <3>3 DEF QueueStep
    <2>8. settled' \subseteq Items
      BY <2>1, <2>2 DEF JobsTypeOK, JobRow
    <2>9. QED
      BY <2>7, <2>8
  <1>4. CASE Insert(k, i)
    <2>1. nextJob \notin DOMAIN jobs
      BY DEF JobsTypeOK
    <2>2. /\ jobs' \in [DOMAIN jobs' -> JobRow]
          /\ DOMAIN jobs' = DOMAIN jobs \cup {nextJob}
          /\ \A x \in DOMAIN jobs : jobs'[x] = jobs[x]
          /\ nextJob' = nextJob + 1 /\ settled' = settled
      BY <1>1, <1>4, <2>1 DEF Insert, Put, JobsTypeOK
    <2>3. QED
      BY <2>2 DEF QueueStep, RowsStay, JobsTypeOK
  <1>5. QED
    BY <1>2, <1>3, <1>4 DEF AddJob

LEMMA DeleteQueueStep ==
    ASSUME JobsTypeOK, NEW ids, jobs' = Delete(jobs, ids), UNCHANGED nextJob
    PROVE  QueueStep
  <1>1. /\ jobs' \in [DOMAIN jobs' -> JobRow]
        /\ DOMAIN jobs' \subseteq DOMAIN jobs
        /\ \A j \in DOMAIN jobs' : jobs'[j] = jobs[j]
    BY DEF Delete, Restrict, JobsTypeOK
  <1>2. QED
    BY <1>1 DEF QueueStep, RowsStay, JobsTypeOK

LEMMA ReleaseQueueStep ==
    ASSUME JobsTypeOK, ReleaseStaleJobLocks, UNCHANGED nextJob
    PROVE  QueueStep
  <1>1. PICK R \in SUBSET {j \in DOMAIN jobs : Orphaned(j)} :
           jobs' = [j \in DOMAIN jobs |->
                      IF j \in R THEN [jobs[j] EXCEPT !.lockedBy = NoWorker] ELSE jobs[j]]
    BY DEF ReleaseStaleJobLocks
  <1>2. \A j \in DOMAIN jobs :
           /\ jobs'[j] \in JobRow
           /\ jobs'[j].attempts = jobs[j].attempts /\ jobs'[j].item = jobs[j].item
    BY <1>1 DEF JobsTypeOK, JobRow
  <1>3. DOMAIN jobs' = DOMAIN jobs /\ jobs' \in [DOMAIN jobs' -> JobRow]
    BY <1>1, <1>2
  <1>4. QED
    BY <1>2, <1>3 DEF QueueStep, RowsStay, JobsTypeOK

\* One row is rewritten: an exhausted one keeps its attempts and its payload.
LEMMA EditQueueStep ==
    ASSUME JobsTypeOK, NEW j \in DOMAIN jobs, NEW r \in JobRow,
           jobs' = [jobs EXCEPT ![j] = r], UNCHANGED nextJob,
           jobs[j].attempts >= MaxAttempts =>
              r.attempts >= MaxAttempts /\ r.item = jobs[j].item
    PROVE  QueueStep
  BY DEF QueueStep, RowsStay, JobsTypeOK

LEMMA SameQueueStep ==
    ASSUME JobsTypeOK, UNCHANGED queueTable
    PROVE  QueueStep
  BY DEF QueueStep, RowsStay, JobsTypeOK, queueTable

LEMMA FetchQueueStep ==
    ASSUME JobsTypeOK, NEW w \in Workers, Fetch(w)
    PROVE  QueueStep
  <1>1. PICK j \in DOMAIN jobs :
           /\ Available(j)
           /\ jobs' = [jobs EXCEPT ![j].attempts = @ + 1, ![j].lockedBy = w]
    BY DEF Fetch
  <1> DEFINE r == [jobs[j] EXCEPT !.attempts = jobs[j].attempts + 1, !.lockedBy = w]
  <1>2. jobs[j] \in JobRow /\ jobs[j].attempts < MaxAttempts
    BY <1>1 DEF JobsTypeOK, Available
  <1>3. r \in JobRow
    <2>1. jobs[j].attempts \in Nat /\ jobs[j].attempts + 1 \in 0..MaxAttempts
      BY <1>2, DeadLetterAssumption DEF JobRow
    <2>2. \A n \in 0..MaxAttempts :
             [jobs[j] EXCEPT !.attempts = n, !.lockedBy = w] \in JobRow
      BY <1>2 DEF JobRow
    <2>3. QED
      BY <2>1, <2>2
  <1>4. jobs' = [jobs EXCEPT ![j] = r]
    BY <1>1 DEF JobsTypeOK
  <1>5. UNCHANGED nextJob
    BY DEF Fetch
  <1>6. ~(jobs[j].attempts >= MaxAttempts)
    BY <1>2, DeadLetterAssumption DEF JobRow
  <1> HIDE DEF r
  <1>7. QED
    BY <1>3, <1>4, <1>5, <1>6, EditQueueStep

\* A row is unlocked or exhausted.
LEMMA SetQueueStep ==
    ASSUME JobsTypeOK, NEW j \in DOMAIN jobs, UNCHANGED nextJob,
           \/ jobs' = [jobs EXCEPT ![j].lockedBy = NoWorker]
           \/ jobs' = [jobs EXCEPT ![j].attempts = MaxAttempts]
    PROVE  QueueStep
  <1> DEFINE freed == [jobs[j] EXCEPT !.lockedBy = NoWorker]
             spent == [jobs[j] EXCEPT !.attempts = MaxAttempts]
  <1>1. jobs[j] \in JobRow
    BY DEF JobsTypeOK
  <1>2. /\ freed \in JobRow /\ spent \in JobRow
        /\ freed.attempts = jobs[j].attempts /\ freed.item = jobs[j].item
        /\ spent.attempts >= MaxAttempts /\ spent.item = jobs[j].item
    BY <1>1, DeadLetterAssumption DEF JobRow
  <1>3. jobs' = [jobs EXCEPT ![j] = freed] \/ jobs' = [jobs EXCEPT ![j] = spent]
    BY DEF JobsTypeOK
  <1> HIDE DEF freed, spent
  <1>4. QED
    BY <1>2, <1>3, EditQueueStep

LEMMA StripQueueStep ==
    ASSUME JobsTypeOK, NEW j \in DOMAIN jobs, UNCHANGED nextJob,
           jobs' = [jobs EXCEPT ![j] = Keyless(jobs[j], MaxAttempts)]
    PROVE  QueueStep
  <1> DEFINE r == Keyless(jobs[j], MaxAttempts)
  <1>1. jobs[j] \in JobRow
    BY DEF JobsTypeOK
  <1>a. MaxAttempts \in 0..MaxAttempts /\ MaxAttempts >= MaxAttempts
    BY DeadLetterAssumption
  <1>b. \A n \in 0..MaxAttempts : [jobs[j] EXCEPT !.key = NoKey, !.attempts = n] \in JobRow
    BY <1>1 DEF JobRow, AnyKey
  <1>c. r \in JobRow
    BY <1>a, <1>b DEF Keyless
  <1>2. r.attempts = MaxAttempts /\ r.item = jobs[j].item
    BY <1>1 DEF JobRow, Keyless
  <1>3. jobs' = [jobs EXCEPT ![j] = r]
    OBVIOUS
  <1> HIDE DEF r
  <1>4. QED
    BY <1>a, <1>c, <1>2, <1>3, EditQueueStep

\* Every step of the system leaves the queue table typed, gives no exhausted row
\* its attempts back, and never reuses the id of a row.
LEMMA NextQueueStep ==
    ASSUME TypeOK, [Next]_vars
    PROVE  QueueStep
  <1> USE DEF TypeOK
  <1> SUFFICES ASSUME ~ UNCHANGED queueTable
               PROVE  QueueStep
    BY SameQueueStep
  <1>1. ASSUME NEW w \in Workers, MoveRow(w) PROVE QueueStep
    BY <1>1, DeleteQueueStep DEF MoveRow, queueTable
  <1>2. ASSUME NEW w \in Workers, StartupRelease(w) PROVE QueueStep
    BY <1>2, ReleaseQueueStep DEF StartupRelease, queueTable
  <1>3. ASSUME NEW w \in Workers, StartupPurge(w) PROVE QueueStep
    BY <1>3, DeleteQueueStep DEF StartupPurge, CleanupPermanentlyFailed, queueTable
  <1>4. ASSUME NEW w \in Workers, ReleaseTick(w) PROVE QueueStep
    BY <1>4, ReleaseQueueStep DEF ReleaseTick
  <1>5. ASSUME NEW w \in Workers, Fetch(w) PROVE QueueStep
    BY <1>5, FetchQueueStep
  <1>6. ASSUME NEW w \in Workers, HandlerSucceeds(w) PROVE QueueStep
    BY <1>6, DeleteQueueStep DEF HandlerSucceeds
  <1>7. ASSUME NEW w \in Workers, HandlerFails(w) PROVE QueueStep
    BY <1>7, SetQueueStep DEF HandlerFails, queueTable
  <1>8. ASSUME NEW w \in Workers, FailHook(w) PROVE QueueStep
    BY <1>8, SetQueueStep DEF FailHook, queueTable
  <1>9. ASSUME Enqueue PROVE QueueStep
    <2>1. nextItem \in Items /\ KeyOf[nextItem] \in AnyKey
      BY <1>9, DeadLetterAssumption DEF Enqueue, CounterTypeOK, Items, AnyKey
    <2>2. AddJob(KeyOf[nextItem], nextItem)
      BY <1>9 DEF Enqueue
    <2>3. QED
      BY <2>1, <2>2, AddJobQueueStep DEF CounterTypeOK
  <1>10. ASSUME NEW a \in Admins, RequeueEnqueue(a) PROVE QueueStep
    <2>1. admin[a].item \in Items /\ admin[a].key \in AnyKey
      BY <1>10 DEF RequeueEnqueue, ActorTypeOK, Operation
    <2>2. AddJob(admin[a].key, admin[a].item)
      BY <1>10 DEF RequeueEnqueue
    <2>3. QED
      BY <2>1, <2>2, AddJobQueueStep DEF CounterTypeOK
  <1>11. ASSUME RemoveJob PROVE QueueStep
    BY <1>11, DeleteQueueStep, StripQueueStep DEF RemoveJob
  <1>12. ASSUME FailJobs PROVE QueueStep
    BY <1>12, SetQueueStep DEF FailJobs
  <1>13. ASSUME NEW a \in Admins, LocksCleanupRelease(a) PROVE QueueStep
    BY <1>13, ReleaseQueueStep DEF LocksCleanupRelease
  <1>14. ASSUME NEW a \in Admins, LocksCleanupPurge(a) PROVE QueueStep
    BY <1>14, DeleteQueueStep DEF LocksCleanupPurge, CleanupPermanentlyFailed, queueTable
  <1>15. ASSUME NEW w \in Workers,
                \/ StartRunner(w) \/ ScanTick(w) \/ MoveRowFails(w)
                \/ CompleteHook(w) \/ Crash(w)
         PROVE  QueueStep
    BY <1>15 DEF StartRunner, ScanTick, MoveRowFails, CompleteHook, Crash, queueTable
  <1>16. ASSUME NEW a \in Admins,
                RequeueRead(a) \/ RequeueRefused(a) \/ RequeueBook(a)
         PROVE  QueueStep
    BY <1>16 DEF RequeueRead, RequeueRefused, RequeueBook, queueTable
  <1>17. ASSUME DeleteDlqJob \/ AddToDlq \/ UNCHANGED vars PROVE QueueStep
    BY <1>17 DEF DeleteDlqJob, AddToDlq, vars, queueTable
  <1>18. QED
    BY <1>1, <1>2, <1>3, <1>4, <1>5, <1>6, <1>7, <1>8, <1>9, <1>10, <1>11, <1>12,
       <1>13, <1>14, <1>15, <1>16, <1>17
    DEF Next, RunnerStep, AdminStep

-----------------------------------------------------------------------------
(* The DLQ table.                                                           *)

\* A row that is neither inserted nor given a new failure.
Same(d) == /\ d \in DOMAIN dlq
           /\ dlq'[d].origin = dlq[d].origin
           /\ dlq'[d].key = dlq[d].key
           /\ dlq'[d].failures = dlq[d].failures

LEMMA UpsertDlqStep ==
    ASSUME DlqTypeOK, NEW s \in Snapshot, UpsertDlq(s)
    PROVE  /\ DlqTypeOK'
           /\ \A d \in DOMAIN dlq' : Same(d) \/ dlq'[d].origin = s.job
           /\ DlqKeyUnique => DlqKeyUnique'
  <1>1. s.job \in Nat /\ s.key \in AnyKey /\ s.item \in Items
    BY DEF Snapshot
  <1>2. CASE \E d \in RowsForKey(s.key) :
               /\ dlq' = [dlq EXCEPT ![d].origin = s.job, ![d].failures = @ + 1]
               /\ UNCHANGED nextDlq
    <2>1. PICK d \in RowsForKey(s.key) :
             /\ dlq' = [dlq EXCEPT ![d].origin = s.job, ![d].failures = @ + 1]
             /\ UNCHANGED nextDlq
      BY <1>2
    <2> DEFINE r == [dlq[d] EXCEPT !.origin = s.job, !.failures = dlq[d].failures + 1]
    <2>2. d \in DOMAIN dlq /\ dlq[d] \in DlqRow
      BY DEF RowsForKey, DlqTypeOK
    <2>3. r \in DlqRow /\ r.origin = s.job /\ r.key = dlq[d].key
      <3>1. dlq[d].failures \in Nat /\ dlq[d].failures + 1 \in Nat
        BY <2>2 DEF DlqRow
      <3>2. \A n \in Nat : [dlq[d] EXCEPT !.origin = s.job, !.failures = n] \in DlqRow
        BY <1>1, <2>2 DEF DlqRow
      <3>3. QED
        BY <2>2, <3>1, <3>2 DEF DlqRow
    <2>4. dlq' = [dlq EXCEPT ![d] = r]
      BY <2>1 DEF DlqTypeOK
    <2> HIDE DEF r
    <2>5. DlqTypeOK' /\ \A e \in DOMAIN dlq' : Same(e) \/ dlq'[e].origin = s.job
      BY <2>1, <2>2, <2>3, <2>4 DEF DlqTypeOK, Same
    <2>6. DOMAIN dlq' = DOMAIN dlq /\ \A e \in DOMAIN dlq : dlq'[e].key = dlq[e].key
      BY <2>2, <2>3, <2>4 DEF DlqTypeOK
    <2>7. QED
      BY <2>5, <2>6 DEF DlqKeyUnique
  <1>3. CASE /\ RowsForKey(s.key) = {}
             /\ dlq' = Put(dlq, nextDlq, [origin |-> s.job, key |-> s.key, item |-> s.item,
                                         failures |-> 1, requeued |-> 0])
             /\ nextDlq' = nextDlq + 1
    <2> DEFINE r == [origin |-> s.job, key |-> s.key, item |-> s.item,
                     failures |-> 1, requeued |-> 0]
    <2>1. r \in DlqRow /\ r.origin = s.job /\ r.key = s.key
      BY <1>1 DEF DlqRow
    <2>2. dlq' = Put(dlq, nextDlq, r)
      BY <1>3
    <2>3. nextDlq \notin DOMAIN dlq
      BY DEF DlqTypeOK
    <2> HIDE DEF r
    <2>4. /\ dlq' \in [DOMAIN dlq' -> DlqRow]
          /\ DOMAIN dlq' = DOMAIN dlq \cup {nextDlq}
          /\ dlq'[nextDlq] = r
          /\ \A d \in DOMAIN dlq : dlq'[d] = dlq[d]
      BY <2>1, <2>2, <2>3 DEF Put, DlqTypeOK
    <2>5. DlqTypeOK' /\ \A d \in DOMAIN dlq' : Same(d) \/ dlq'[d].origin = s.job
      BY <1>3, <2>1, <2>4 DEF DlqTypeOK, Same
    <2>6. s.key = NoKey \/ \A d \in DOMAIN dlq : dlq[d].key # s.key
      BY <1>3 DEF RowsForKey
    <2>7. QED
      BY <2>1, <2>4, <2>5, <2>6 DEF DlqKeyUnique
  <1>4. QED
    BY <1>2, <1>3 DEF UpsertDlq

LEMMA DeleteDlqStep ==
    ASSUME DlqTypeOK, NEW ids, dlq' = Delete(dlq, ids), UNCHANGED nextDlq
    PROVE  DlqTypeOK' /\ \A d \in DOMAIN dlq' : Same(d)
  <1>1. /\ dlq' \in [DOMAIN dlq' -> DlqRow]
        /\ DOMAIN dlq' \subseteq DOMAIN dlq
        /\ \A d \in DOMAIN dlq' : dlq'[d] = dlq[d]
    BY DEF Delete, Restrict, DlqTypeOK
  <1>2. QED
    BY <1>1 DEF DlqTypeOK, Same

LEMMA BookDlqStep ==
    ASSUME DlqTypeOK, NEW a \in Admins, RequeueBook(a)
    PROVE  DlqTypeOK' /\ \A d \in DOMAIN dlq' : Same(d)
  <1>1. CASE UNCHANGED dlq
    BY <1>1 DEF RequeueBook, DlqTypeOK, Same
  <1>2. CASE admin[a].row \in DOMAIN dlq
             /\ dlq' = [dlq EXCEPT ![admin[a].row].requeued = @ + 1]
    <2> DEFINE d == admin[a].row
               r == [dlq[d] EXCEPT !.requeued = dlq[d].requeued + 1]
    <2>1. dlq[d] \in DlqRow
      BY <1>2 DEF DlqTypeOK
    <2>2. /\ r \in DlqRow /\ r.failures = dlq[d].failures
          /\ r.origin = dlq[d].origin /\ r.key = dlq[d].key
      <3>1. dlq[d].requeued + 1 \in Nat
        BY <2>1 DEF DlqRow
      <3>2. \A n \in Nat : /\ [dlq[d] EXCEPT !.requeued = n] \in DlqRow
                           /\ [dlq[d] EXCEPT !.requeued = n].failures = dlq[d].failures
                           /\ [dlq[d] EXCEPT !.requeued = n].origin = dlq[d].origin
                           /\ [dlq[d] EXCEPT !.requeued = n].key = dlq[d].key
        BY <2>1 DEF DlqRow
      <3>3. QED
        BY <3>1, <3>2
    <2>3. dlq' = [dlq EXCEPT ![d] = r] /\ d \in DOMAIN dlq
      BY <1>2 DEF DlqTypeOK
    <2>4. UNCHANGED nextDlq
      BY DEF RequeueBook
    <2> HIDE DEF d, r
    <2>5. QED
      BY <2>2, <2>3, <2>4 DEF DlqTypeOK, Same
  <1>3. QED
    BY <1>1, <1>2 DEF RequeueBook

\* Who writes to backfill_dlq, and how: only the scan's move and add_to_dlq
\* insert a row or count a failure.
LEMMA NextDlqStep ==
    ASSUME TypeOK, [Next]_vars
    PROVE  /\ DlqTypeOK'
           /\ DlqKeyUnique => DlqKeyUnique'
           /\ \/ \A d \in DOMAIN dlq' : Same(d)
              \/ \E w \in Workers : \E s \in batch[w] :
                    /\ s.job \in DOMAIN jobs /\ jobs' = Delete(jobs, {s.job})
                    /\ \A d \in DOMAIN dlq' : Same(d) \/ dlq'[d].origin = s.job
              \/ AddToDlq
  <1> USE DEF TypeOK
  <1> DEFINE Quiet == \A d \in DOMAIN dlq' : Same(d)
  <1>0. ASSUME UNCHANGED dlqTable PROVE DlqTypeOK' /\ Quiet
    BY <1>0 DEF dlqTable, DlqTypeOK, Same
  <1>key. ASSUME Quiet PROVE DlqKeyUnique => DlqKeyUnique'
    BY <1>key DEF Same, DlqKeyUnique
  <1>1. ASSUME NEW w \in Workers, MoveRow(w)
        PROVE  /\ DlqTypeOK' /\ (DlqKeyUnique => DlqKeyUnique')
               /\ \/ Quiet
                  \/ \E s \in batch[w] :
                        /\ s.job \in DOMAIN jobs /\ jobs' = Delete(jobs, {s.job})
                        /\ \A d \in DOMAIN dlq' : Same(d) \/ dlq'[d].origin = s.job
    <2>1. PICK s \in batch[w] :
             \/ s.job \in DOMAIN jobs /\ jobs' = Delete(jobs, {s.job}) /\ UpsertDlq(s)
             \/ UNCHANGED dlqTable
      BY <1>1 DEF MoveRow
    <2>2. s \in Snapshot
      BY DEF ActorTypeOK
    <2>3. CASE UNCHANGED dlqTable
      BY <1>0, <1>key, <2>3
    <2>4. CASE s.job \in DOMAIN jobs /\ jobs' = Delete(jobs, {s.job}) /\ UpsertDlq(s)
      BY <2>2, <2>4, UpsertDlqStep
    <2>5. QED
      BY <2>1, <2>3, <2>4
  <1>2. ASSUME NEW w \in Workers, CompleteHook(w) PROVE DlqTypeOK' /\ Quiet
    <2>1. UNCHANGED nextDlq
      BY <1>2 DEF CompleteHook
    <2>2. dlq' = Delete(dlq, RowsForKey(exec[w].key)) \/ UNCHANGED dlq
      BY <1>2 DEF CompleteHook
    <2>3. QED
      BY <1>0, <2>1, <2>2, DeleteDlqStep DEF dlqTable
  <1>3. ASSUME NEW a \in Admins, RequeueBook(a) PROVE DlqTypeOK' /\ Quiet
    BY <1>3, BookDlqStep
  <1>4. ASSUME DeleteDlqJob PROVE DlqTypeOK' /\ Quiet
    BY <1>4, DeleteDlqStep DEF DeleteDlqJob
  <1>5. ASSUME AddToDlq PROVE DlqTypeOK' /\ (DlqKeyUnique => DlqKeyUnique')
    <2>1. PICK j \in DOMAIN jobs : UpsertDlq(SnapshotOf(j))
      BY <1>5 DEF AddToDlq
    <2>2. SnapshotOf(j) \in Snapshot
      BY DEF SnapshotOf, Snapshot, JobsTypeOK, JobRow
    <2>3. QED
      BY <2>1, <2>2, UpsertDlqStep
  <1>6. ASSUME NEW w \in Workers,
               \/ StartRunner(w) \/ StartupRelease(w) \/ StartupPurge(w) \/ ScanTick(w)
               \/ MoveRowFails(w) \/ ReleaseTick(w) \/ Fetch(w) \/ HandlerSucceeds(w)
               \/ HandlerFails(w) \/ FailHook(w) \/ Crash(w)
        PROVE  UNCHANGED dlqTable
    BY <1>6 DEF StartRunner, StartupRelease, StartupPurge, ScanTick, MoveRowFails, ReleaseTick,
                Fetch, HandlerSucceeds, HandlerFails, FailHook, Crash
  <1>7. ASSUME NEW a \in Admins,
               \/ RequeueRead(a) \/ RequeueEnqueue(a) \/ RequeueRefused(a)
               \/ LocksCleanupRelease(a) \/ LocksCleanupPurge(a)
        PROVE  UNCHANGED dlqTable
    BY <1>7 DEF RequeueRead, RequeueEnqueue, RequeueRefused, LocksCleanupRelease,
                LocksCleanupPurge
  <1>8. ASSUME Enqueue \/ RemoveJob \/ FailJobs \/ UNCHANGED vars PROVE UNCHANGED dlqTable
    BY <1>8 DEF Enqueue, RemoveJob, FailJobs, vars
  <1> HIDE DEF Quiet
  <1>9. CASE Next
    <2>1. CASE \E w \in Workers : MoveRow(w)
      BY <1>1, <2>1 DEF Quiet
    <2>2. CASE AddToDlq
      BY <1>5, <2>2
    <2>3. CASE ~(\E w \in Workers : MoveRow(w)) /\ ~AddToDlq
      <3>1. DlqTypeOK' /\ Quiet
        BY <1>0, <1>2, <1>3, <1>4, <1>6, <1>7, <1>8, <1>9, <2>3
        DEF Next, RunnerStep, AdminStep
      <3>2. QED
        BY <1>key, <3>1 DEF Quiet
    <2>4. QED
      BY <2>1, <2>2, <2>3
  <1>10. QED
    BY <1>0, <1>key, <1>8, <1>9 DEF Quiet

-----------------------------------------------------------------------------
(* The runners, their scans and executions, the admins and the counters.    *)

\* What a snapshot just read by a scan says of the queue.
Fresh(s) == s.job \in DOMAIN jobs /\ Exhausted(s.job) /\ jobs[s.job].item = s.item

LEMMA SelectBatchStep ==
    ASSUME TypeOK, NEW v \in Workers, Select(v)
    PROVE  /\ batch' \in [Workers -> SUBSET Snapshot]
           /\ \A w \in Workers : \A s \in batch'[w] : s \in batch[w] \/ Fresh(s)
  <1>1. PICK S \in SUBSET FailedJobs :
           batch' = [batch EXCEPT ![v] = {SnapshotOf(j) : j \in S}]
    BY DEF Select
  <1>2. ASSUME NEW j \in S PROVE SnapshotOf(j) \in Snapshot /\ Fresh(SnapshotOf(j))
    BY DEF FailedJobs, SnapshotOf, Snapshot, Fresh, TypeOK, JobsTypeOK, JobRow
  <1>3. batch \in [Workers -> SUBSET Snapshot]
    BY DEF TypeOK, ActorTypeOK
  <1>4. {SnapshotOf(j) : j \in S} \in SUBSET Snapshot
    BY <1>2
  <1>5. \A w \in Workers : \A s \in batch'[w] :
           s \in batch[w] \/ \E j \in S : s = SnapshotOf(j)
    BY <1>1, <1>3
  <1>6. QED
    BY <1>1, <1>2, <1>3, <1>4, <1>5

LEMMA NextBatchStep ==
    ASSUME TypeOK, [Next]_vars
    PROVE  /\ batch' \in [Workers -> SUBSET Snapshot]
           /\ \A w \in Workers : \A s \in batch'[w] :
                s \in batch[w] \/ (Fresh(s) /\ UNCHANGED queueTable)
  <1> DEFINE Goal == /\ batch' \in [Workers -> SUBSET Snapshot]
                     /\ \A w \in Workers : \A s \in batch'[w] :
                          s \in batch[w] \/ (Fresh(s) /\ UNCHANGED queueTable)
  <1>0. batch \in [Workers -> SUBSET Snapshot]
    BY DEF TypeOK, ActorTypeOK
  <1>1. ASSUME UNCHANGED batch PROVE Goal
    BY <1>0, <1>1
  <1>2. ASSUME NEW v \in Workers, NEW S \in SUBSET batch[v],
               batch' = [batch EXCEPT ![v] = S]
        PROVE  Goal
    BY <1>0, <1>2
  <1>3. ASSUME NEW v \in Workers, StartRunner(v) PROVE Goal
    BY <1>1, <1>3, SelectBatchStep DEF StartRunner
  <1>4. ASSUME NEW v \in Workers, ScanTick(v) PROVE Goal
    BY <1>4, SelectBatchStep DEF ScanTick
  <1>5. ASSUME NEW v \in Workers, MoveRow(v) PROVE Goal
    <2>1. PICK s \in batch[v] : batch' = [batch EXCEPT ![v] = batch[v] \ {s}]
      BY <1>5 DEF MoveRow
    <2>2. QED
      BY <1>2, <2>1
  <1>6. ASSUME NEW v \in Workers, MoveRowFails(v) PROVE Goal
    <2>1. PICK s \in batch[v] : batch' = [batch EXCEPT ![v] = batch[v] \ {s}]
      BY <1>6 DEF MoveRowFails
    <2>2. QED
      BY <1>2, <2>1
  <1>7. ASSUME NEW v \in Workers, Crash(v) PROVE Goal
    BY <1>2, <1>7 DEF Crash
  <1>8. ASSUME NEW v \in Workers,
               \/ StartupRelease(v) \/ StartupPurge(v) \/ ReleaseTick(v) \/ Fetch(v)
               \/ HandlerSucceeds(v) \/ CompleteHook(v) \/ HandlerFails(v)
               \/ FailHook(v)
        PROVE  UNCHANGED batch
    BY <1>8 DEF StartupRelease, StartupPurge, ReleaseTick, Fetch, HandlerSucceeds,
                CompleteHook, HandlerFails, FailHook
  <1>9. ASSUME NEW a \in Admins, AdminStep(a) PROVE UNCHANGED batch
    BY <1>9 DEF AdminStep, RequeueRead, RequeueEnqueue, RequeueRefused, RequeueBook,
                LocksCleanupRelease, LocksCleanupPurge
  <1>10. ASSUME Enqueue \/ DeleteDlqJob \/ RemoveJob \/ FailJobs \/ AddToDlq \/ UNCHANGED vars
         PROVE  UNCHANGED batch
    BY <1>10 DEF Enqueue, DeleteDlqJob, RemoveJob, FailJobs, AddToDlq, vars
  <1> HIDE DEF Goal
  <1>11. Goal
    BY <1>1, <1>3, <1>4, <1>5, <1>6, <1>7, <1>8, <1>9, <1>10 DEF Next, RunnerStep
  <1>12. QED
    BY <1>11 DEF Goal

LEMMA NextRunnerType ==
    ASSUME TypeOK, [Next]_vars
    PROVE  runner' \in [Workers -> {"down", "premove", "purge", "up"}]
  <1>0. runner \in [Workers -> {"down", "premove", "purge", "up"}]
    BY DEF TypeOK, ActorTypeOK
  <1> DEFINE Goal == runner' \in [Workers -> {"down", "premove", "purge", "up"}]
  <1>1. ASSUME NEW w \in Workers,
               StartRunner(w) \/ StartupRelease(w) \/ StartupPurge(w) \/ Crash(w)
        PROVE  Goal
    BY <1>0, <1>1 DEF StartRunner, StartupRelease, StartupPurge, Crash
  <1>2. ASSUME NEW w \in Workers,
               \/ ScanTick(w) \/ MoveRow(w) \/ MoveRowFails(w) \/ ReleaseTick(w)
               \/ Fetch(w) \/ HandlerSucceeds(w) \/ CompleteHook(w) \/ HandlerFails(w)
               \/ FailHook(w)
        PROVE  UNCHANGED runner
    BY <1>2 DEF ScanTick, MoveRow, MoveRowFails, ReleaseTick, Fetch, HandlerSucceeds,
                CompleteHook, HandlerFails, FailHook
  <1>3. ASSUME NEW a \in Admins, AdminStep(a) PROVE UNCHANGED runner
    BY <1>3 DEF AdminStep, RequeueRead, RequeueEnqueue, RequeueRefused, RequeueBook,
                LocksCleanupRelease, LocksCleanupPurge
  <1>4. ASSUME Enqueue \/ DeleteDlqJob \/ RemoveJob \/ FailJobs \/ AddToDlq \/ UNCHANGED vars
        PROVE  UNCHANGED runner
    BY <1>4 DEF Enqueue, DeleteDlqJob, RemoveJob, FailJobs, AddToDlq, vars
  <1> HIDE DEF Goal
  <1>5. Goal
    BY <1>0, <1>1, <1>2, <1>3, <1>4 DEF Next, RunnerStep, Goal
  <1>6. QED
    BY <1>5 DEF Goal

\* An execution under way always has a payload.
ExecTypeOK == /\ exec \in [Workers -> Execution]
              /\ \A w \in Workers : exec[w].phase # "idle" => exec[w].item \in Items

LEMMA NextExecType ==
    ASSUME TypeOK, [Next]_vars
    PROVE  ExecTypeOK'
  <1>0. ExecTypeOK
    BY DEF TypeOK, ActorTypeOK, ExecTypeOK
  <1>1. ASSUME NEW w \in Workers, NEW e \in Execution, exec' = [exec EXCEPT ![w] = e],
               e.phase # "idle" => e.item \in Items
        PROVE  ExecTypeOK'
    BY <1>0, <1>1 DEF ExecTypeOK
  <1>2. Resting \in Execution /\ Resting.phase = "idle"
    BY DEF Resting, Execution, AnyKey
  <1>3. ASSUME NEW w \in Workers, exec[w].phase # "idle", NEW p \in {"completeHook", "failHook"},
               exec' = [exec EXCEPT ![w] = [exec[w] EXCEPT !.phase = p]]
        PROVE  ExecTypeOK'
    <2>1. exec[w] \in Execution /\ exec[w].item \in Items
      BY <1>0, <1>3 DEF ExecTypeOK
    <2> DEFINE e == [exec[w] EXCEPT !.phase = p]
    <2>2. e \in Execution /\ e.item \in Items
      BY <2>1 DEF Execution
    <2> HIDE DEF e
    <2>3. QED
      BY <1>1, <1>3, <2>2 DEF e
  <1>4. ASSUME NEW w \in Workers, exec' = [exec EXCEPT ![w] = Resting] PROVE ExecTypeOK'
    BY <1>1, <1>2, <1>4
  <1>5. ASSUME NEW w \in Workers, Crash(w) \/ CompleteHook(w) \/ FailHook(w) PROVE ExecTypeOK'
    BY <1>4, <1>5 DEF Crash, CompleteHook, FailHook
  <1>6. ASSUME NEW w \in Workers, Fetch(w) PROVE ExecTypeOK'
    <2>1. PICK j \in DOMAIN jobs :
             exec' = [exec EXCEPT ![w] =
               [phase |-> "running", job |-> j, key |-> jobs[j].key,
                item |-> jobs[j].item, final |-> jobs[j].attempts + 1 >= MaxAttempts]]
      BY <1>6 DEF Fetch
    <2>2. jobs[j] \in JobRow /\ j \in Nat
      BY DEF TypeOK, JobsTypeOK
    <2>3. [phase |-> "running", job |-> j, key |-> jobs[j].key, item |-> jobs[j].item,
           final |-> jobs[j].attempts + 1 >= MaxAttempts] \in Execution
      <3>1. \A b \in BOOLEAN : [phase |-> "running", job |-> j, key |-> jobs[j].key,
                                item |-> jobs[j].item, final |-> b] \in Execution
        BY <2>2 DEF Execution, JobRow
      <3>2. (jobs[j].attempts + 1 >= MaxAttempts) \in BOOLEAN
        OBVIOUS
      <3>3. QED
        BY <3>1, <3>2
    <2>4. QED
      BY <1>1, <2>1, <2>2, <2>3 DEF JobRow
  <1>7. ASSUME NEW w \in Workers, HandlerSucceeds(w) PROVE ExecTypeOK'
    BY <1>3, <1>4, <1>7 DEF HandlerSucceeds
  <1>8. ASSUME NEW w \in Workers, HandlerFails(w) PROVE ExecTypeOK'
    BY <1>3, <1>4, <1>8 DEF HandlerFails
  <1>9. ASSUME UNCHANGED exec PROVE ExecTypeOK'
    BY <1>0, <1>9 DEF ExecTypeOK
  <1>10. ASSUME NEW w \in Workers,
                \/ StartRunner(w) \/ StartupRelease(w) \/ StartupPurge(w)
                \/ ScanTick(w) \/ MoveRow(w) \/ MoveRowFails(w) \/ ReleaseTick(w)
         PROVE  UNCHANGED exec
    BY <1>10 DEF StartRunner, StartupRelease, StartupPurge, ScanTick, MoveRow,
                 MoveRowFails, ReleaseTick
  <1>11. ASSUME NEW a \in Admins, AdminStep(a) PROVE UNCHANGED exec
    BY <1>11 DEF AdminStep, RequeueRead, RequeueEnqueue, RequeueRefused, RequeueBook,
                 LocksCleanupRelease, LocksCleanupPurge
  <1>12. ASSUME Enqueue \/ DeleteDlqJob \/ RemoveJob \/ FailJobs \/ AddToDlq \/ UNCHANGED vars
         PROVE  UNCHANGED exec
    BY <1>12 DEF Enqueue, DeleteDlqJob, RemoveJob, FailJobs, AddToDlq, vars
  <1>13. QED
    BY <1>5, <1>6, <1>7, <1>8, <1>9, <1>10, <1>11, <1>12 DEF Next, RunnerStep

\* A requeue that has read its DLQ row has a payload to enqueue.
AdminTypeOK == /\ admin \in [Admins -> Operation]
               /\ \A a \in Admins : admin[a].phase = "enqueue" => admin[a].item \in Items

LEMMA NextAdminType ==
    ASSUME TypeOK, [Next]_vars
    PROVE  AdminTypeOK'
  <1>0. AdminTypeOK
    BY DEF TypeOK, ActorTypeOK, AdminTypeOK
  <1>1. ASSUME NEW a \in Admins, NEW o \in Operation, admin' = [admin EXCEPT ![a] = o],
               o.phase = "enqueue" => o.item \in Items
        PROVE  AdminTypeOK'
    BY <1>0, <1>1 DEF AdminTypeOK
  <1>2. NoOperation \in Operation /\ NoOperation.phase = "idle"
    BY DEF NoOperation, Operation, AnyKey
  <1>3. ASSUME NEW a \in Admins, NEW p \in {"book", "purge"},
               admin' = [admin EXCEPT ![a].phase = p]
        PROVE  AdminTypeOK'
    <2>1. admin[a] \in Operation
      BY <1>0 DEF AdminTypeOK
    <2> DEFINE o == [admin[a] EXCEPT !.phase = p]
    <2>2. o \in Operation /\ o.phase # "enqueue"
      BY <2>1 DEF Operation
    <2>3. admin' = [admin EXCEPT ![a] = o]
      BY <1>0, <1>3 DEF AdminTypeOK
    <2> HIDE DEF o
    <2>4. QED
      BY <1>1, <2>2, <2>3
  <1>4. ASSUME NEW a \in Admins, RequeueRead(a) PROVE AdminTypeOK'
    <2>1. PICK d \in DOMAIN dlq :
             admin' = [admin EXCEPT ![a] = [phase |-> "enqueue", row |-> d,
                                            key |-> dlq[d].key, item |-> dlq[d].item]]
      BY <1>4 DEF RequeueRead
    <2>2. dlq[d] \in DlqRow /\ d \in Nat
      BY DEF TypeOK, DlqTypeOK
    <2>3. /\ [phase |-> "enqueue", row |-> d, key |-> dlq[d].key, item |-> dlq[d].item]
                \in Operation
          /\ dlq[d].item \in Items
      BY <2>2 DEF Operation, DlqRow
    <2>4. QED
      BY <1>1, <2>1, <2>3
  <1>5. ASSUME NEW a \in Admins, RequeueEnqueue(a) \/ LocksCleanupRelease(a) PROVE AdminTypeOK'
    BY <1>1, <1>2, <1>3, <1>5 DEF RequeueEnqueue, LocksCleanupRelease
  <1>6. ASSUME NEW a \in Admins, RequeueRefused(a) \/ RequeueBook(a) \/ LocksCleanupPurge(a)
        PROVE  AdminTypeOK'
    BY <1>1, <1>2, <1>6 DEF RequeueRefused, RequeueBook, LocksCleanupPurge
  <1>7. ASSUME NEW w \in Workers, RunnerStep(w) PROVE UNCHANGED admin
    BY <1>7 DEF RunnerStep, StartRunner, StartupRelease, StartupPurge, ScanTick, MoveRow,
                MoveRowFails, ReleaseTick, Fetch, HandlerSucceeds, CompleteHook,
                HandlerFails, FailHook, Crash
  <1>8. ASSUME Enqueue \/ DeleteDlqJob \/ RemoveJob \/ FailJobs \/ AddToDlq \/ UNCHANGED vars
        PROVE  UNCHANGED admin
    BY <1>8 DEF Enqueue, DeleteDlqJob, RemoveJob, FailJobs, AddToDlq, vars
  <1>9. ASSUME UNCHANGED admin PROVE AdminTypeOK'
    BY <1>0, <1>9 DEF AdminTypeOK
  <1>10. QED
    BY <1>4, <1>5, <1>6, <1>7, <1>8, <1>9 DEF Next, AdminStep

LEMMA NextCounterType ==
    ASSUME TypeOK, [Next]_vars
    PROVE  CounterTypeOK'
  <1>0. CounterTypeOK
    BY DEF TypeOK
  <1>1. ASSUME UNCHANGED <<bounds, history>> PROVE CounterTypeOK'
    BY <1>0, <1>1 DEF CounterTypeOK, bounds, history
  <1>2. ASSUME NEW w \in Workers,
               \/ StartRunner(w) \/ StartupRelease(w) \/ StartupPurge(w) \/ ScanTick(w)
               \/ MoveRow(w) \/ MoveRowFails(w) \/ ReleaseTick(w) \/ Fetch(w)
               \/ HandlerFails(w) \/ FailHook(w)
        PROVE  UNCHANGED <<bounds, history>>
    BY <1>2 DEF StartRunner, StartupRelease, StartupPurge, ScanTick, MoveRow,
                MoveRowFails, ReleaseTick, Fetch, HandlerFails, FailHook
  <1>3. ASSUME NEW a \in Admins, RequeueRefused(a) \/ RequeueBook(a) \/ LocksCleanupPurge(a)
        PROVE  UNCHANGED <<bounds, history>>
    BY <1>3 DEF RequeueRefused, RequeueBook, LocksCleanupPurge
  <1>4. ASSUME FailJobs \/ UNCHANGED vars PROVE UNCHANGED <<bounds, history>>
    BY <1>4 DEF FailJobs, vars
  <1>5. ASSUME NEW w \in Workers, HandlerSucceeds(w) PROVE CounterTypeOK'
    <2>1. exec[w].item \in Items
      BY <1>5 DEF HandlerSucceeds, TypeOK, ActorTypeOK
    <2>2. QED
      BY <1>0, <1>5, <2>1 DEF HandlerSucceeds, CounterTypeOK, bounds
  <1>6. ASSUME NEW w \in Workers, CompleteHook(w) PROVE CounterTypeOK'
    <2>1. settled' \subseteq settled \cup {dlq[d].item : d \in DOMAIN dlq}
      BY <1>6 DEF CompleteHook, RowsForKey
    <2>2. \A d \in DOMAIN dlq : dlq[d].item \in Items
      BY DEF TypeOK, DlqTypeOK, DlqRow
    <2>3. QED
      BY <1>0, <1>6, <2>1, <2>2 DEF CompleteHook, CounterTypeOK, bounds
  <1>7. ASSUME NEW w \in Workers, Crash(w) PROVE CounterTypeOK'
    BY <1>0, <1>7, DeadLetterAssumption DEF Crash, CounterTypeOK, history
  <1>8. ASSUME NEW a \in Admins, RequeueRead(a) \/ LocksCleanupRelease(a) PROVE CounterTypeOK'
    BY <1>0, <1>8, DeadLetterAssumption
    DEF RequeueRead, LocksCleanupRelease, CounterTypeOK, history
  <1>9. ASSUME NEW a \in Admins, RequeueEnqueue(a) PROVE CounterTypeOK'
    <2>1. admin[a].item \in Items /\ admin[a].key \in AnyKey
      BY <1>9 DEF RequeueEnqueue, TypeOK, ActorTypeOK, Operation
    <2>2. settled' \subseteq Items
      BY <1>0, <1>9, <2>1, AddJobQueueStep DEF RequeueEnqueue, TypeOK, CounterTypeOK
    <2>3. spawned' \in [DOMAIN spawned' -> Nat]
      <3>1. spawned \in [DOMAIN spawned -> Nat]
        BY <1>0 DEF CounterTypeOK
      <3>2. QED
        BY <1>9, <3>1 DEF RequeueEnqueue, Put
    <2>4. QED
      BY <1>0, <1>9, <2>2, <2>3 DEF RequeueEnqueue, CounterTypeOK, bounds
  <1>10. ASSUME Enqueue PROVE CounterTypeOK'
    <2>1. nextItem \in Items /\ KeyOf[nextItem] \in AnyKey
      BY <1>0, <1>10, DeadLetterAssumption DEF Enqueue, CounterTypeOK, Items, AnyKey
    <2>2. settled' \subseteq Items
      BY <1>0, <1>10, <2>1, AddJobQueueStep DEF Enqueue, TypeOK, CounterTypeOK
    <2>3. nextItem' \in 1..(MaxItems + 1)
      BY <1>0, <1>10, DeadLetterAssumption DEF Enqueue, CounterTypeOK
    <2>4. QED
      BY <1>0, <1>10, <2>2, <2>3 DEF Enqueue, CounterTypeOK
  <1>11. ASSUME DeleteDlqJob \/ RemoveJob PROVE CounterTypeOK'
    <2>1. /\ \A d \in DOMAIN dlq : dlq[d].item \in Items
          /\ \A j \in DOMAIN jobs : jobs[j].item \in Items
      BY DEF TypeOK, DlqTypeOK, DlqRow, JobsTypeOK, JobRow
    <2>2. settled' \subseteq Items
      <3>1. settled \subseteq Items
        BY <1>0 DEF CounterTypeOK
      <3>2. CASE DeleteDlqJob
        BY <2>1, <3>1, <3>2 DEF DeleteDlqJob
      <3>3. CASE RemoveJob
        BY <2>1, <3>1, <3>3 DEF RemoveJob
      <3>4. QED
        BY <1>11, <3>2, <3>3
    <2>3. QED
      BY <1>0, <1>11, <2>2 DEF DeleteDlqJob, RemoveJob, CounterTypeOK, bounds
  <1>12. ASSUME AddToDlq PROVE CounterTypeOK'
    BY <1>0, <1>12, DeadLetterAssumption DEF AddToDlq, CounterTypeOK, history
  <1>13. QED
    BY <1>1, <1>2, <1>3, <1>4, <1>5, <1>6, <1>7, <1>8, <1>9, <1>10, <1>11, <1>12
    DEF Next, RunnerStep, AdminStep

-----------------------------------------------------------------------------
(* Theorems.                                                                *)

\* Type correctness, for every number of runners, admins, rows and payloads and
\* every combination of disturbances: attempts never pass max_attempts, rows only
\* have ids their sequence has issued.
THEOREM TypeCorrect == Spec => []TypeOK
  <1>1. Init => TypeOK
    BY DeadLetterAssumption
    DEF Init, TypeOK, JobsTypeOK, DlqTypeOK, ActorTypeOK, CounterTypeOK, EmptyTable, Resting,
        NoOperation, Execution, Operation, AnyKey
  <1>2. TypeOK /\ [Next]_vars => TypeOK'
    BY NextQueueStep, NextDlqStep, NextBatchStep, NextRunnerType, NextExecType, NextAdminType,
       NextCounterType
    DEF TypeOK, ActorTypeOK, QueueStep, ExecTypeOK, AdminTypeOK
  <1>3. QED
    BY <1>1, <1>2, PTL DEF Spec

\* Whatever writes to a row once it is exhausted (a replace, a lock release, a
\* plugin, a late handler, an operator), it gets no attempt back and no other
\* payload, and its id is not reused.
THEOREM ExhaustedForGood == Spec => ExhaustedStays
  <1>1. TypeOK /\ [Next]_vars => RowsStay
    BY NextQueueStep DEF QueueStep
  <1>2. QED
    BY <1>1, TypeCorrect, PTL DEF Spec, ExhaustedStays, RowsStay

\* The scan's DELETE by id is safe without repeating the SELECT's predicate: a row
\* of a snapshot that still exists is exhausted and holds the payload read.
SnapshotsIssued == \A w \in Workers : \A s \in batch[w] : s.job < nextJob
SnapshotInv == TypeOK /\ SnapshotsIssued /\ SnapshotsStable

LEMMA SnapshotsIssuedStep ==
    ASSUME TypeOK, SnapshotsIssued, [Next]_vars
    PROVE  SnapshotsIssued'
  <1>1. ASSUME NEW w \in Workers, NEW s \in batch'[w] PROVE s.job < nextJob'
    <2>1. s \in batch[w] \/ (Fresh(s) /\ UNCHANGED queueTable)
      BY <1>1, NextBatchStep
    <2>2. nextJob' >= nextJob /\ nextJob \in Nat /\ nextJob' \in Nat
      BY NextQueueStep DEF QueueStep, TypeOK, JobsTypeOK
    <2>3. CASE s \in batch[w]
      BY <2>2, <2>3 DEF SnapshotsIssued, TypeOK, ActorTypeOK, Snapshot
    <2>4. CASE Fresh(s) /\ UNCHANGED queueTable
      BY <2>2, <2>4 DEF Fresh, queueTable, TypeOK, JobsTypeOK
    <2>5. QED
      BY <2>1, <2>3, <2>4
  <1>2. QED
    BY <1>1 DEF SnapshotsIssued

\* Every row of a snapshot that still exists is exhausted and holds what was read:
\* the scan's DELETE by id alone takes no job that came back to life.
THEOREM SnapshotsAlwaysStable == Spec => []SnapshotsStable
  <1>1. Init => SnapshotsIssued /\ SnapshotsStable
    BY DEF Init, SnapshotsIssued, SnapshotsStable
  <1>2. TypeOK /\ SnapshotsIssued /\ SnapshotsStable /\ [Next]_vars
        => (SnapshotsIssued /\ SnapshotsStable)'
    <2> SUFFICES ASSUME SnapshotInv, [Next]_vars, NEW w \in Workers, NEW s \in batch'[w]
                 PROVE  /\ s.job < nextJob'
                        /\ s.job \in DOMAIN jobs' =>
                              /\ jobs'[s.job].attempts >= MaxAttempts
                              /\ jobs'[s.job].item = s.item
      BY DEF SnapshotInv, SnapshotsIssued, SnapshotsStable, Exhausted
    <2> USE DEF SnapshotInv
    <2>1. s \in batch[w] \/ (Fresh(s) /\ UNCHANGED queueTable)
      BY NextBatchStep
    <2>2. /\ nextJob' >= nextJob /\ nextJob \in Nat /\ nextJob' \in Nat
          /\ RowsStay /\ JobsTypeOK
      BY NextQueueStep DEF QueueStep, TypeOK, JobsTypeOK
    <2>3. CASE s \in batch[w]
      <3>1. s.job < nextJob /\ s.job \in Nat
        BY <2>3 DEF SnapshotsIssued, TypeOK, ActorTypeOK, Snapshot
      <3>2. s.job \in DOMAIN jobs => jobs[s.job].attempts >= MaxAttempts /\ jobs[s.job].item = s.item
        BY <2>3 DEF SnapshotsStable, Exhausted
      <3>3. s.job \in DOMAIN jobs' => s.job \in DOMAIN jobs
        BY <2>2, <3>1 DEF RowsStay
      <3>4. QED
        BY <2>2, <3>1, <3>2, <3>3 DEF RowsStay
    <2>4. CASE Fresh(s) /\ UNCHANGED queueTable
      BY <2>2, <2>4 DEF Fresh, Exhausted, queueTable, JobsTypeOK
    <2>5. QED
      BY <2>1, <2>3, <2>4
  <1>3. QED
    BY <1>1, <1>2, TypeCorrect, PTL DEF Spec

\* Unless add_to_dlq is called, the DLQ gains or touches a row only in the step in
\* which the job it then names leaves _private_jobs.
THEOREM CaptureMoves == ASSUME "manual_add" \notin Env PROVE Spec => CaptureIsMove
  <1>1. TypeOK /\ [Next]_vars
        => \A d \in DOMAIN dlq' :
              Touched(d) => /\ dlq'[d].origin \in DOMAIN jobs
                            /\ dlq'[d].origin \notin DOMAIN jobs'
    BY NextDlqStep DEF AddToDlq, Delete, Restrict, Same, Touched
  <1>2. QED
    BY <1>1, TypeCorrect, PTL DEF Spec, CaptureIsMove

\* And that job has used up its attempts: the capture of a row read some time ago
\* never takes a job that may still be retried.
THEOREM CapturesExhausted == ASSUME "manual_add" \notin Env PROVE Spec => CaptureOnlyExhausted
  <1>1. TypeOK /\ SnapshotsStable /\ [Next]_vars
        => \A d \in DOMAIN dlq' : Touched(d) => Exhausted(dlq'[d].origin)
    BY NextDlqStep DEF AddToDlq, SnapshotsStable, Same, Touched
  <1>2. QED
    BY <1>1, TypeCorrect, SnapshotsAlwaysStable, PTL DEF Spec, CaptureOnlyExhausted

\* Requeues, repeated failures and add_to_dlq never leave two rows for one key.
THEOREM DlqKeysUnique == Spec => []DlqKeyUnique
  <1>1. Init => DlqKeyUnique
    BY DEF Init, EmptyTable, DlqKeyUnique
  <1>2. TypeOK /\ DlqKeyUnique /\ [Next]_vars => DlqKeyUnique'
    BY NextDlqStep
  <1>3. QED
    BY <1>1, <1>2, TypeCorrect, PTL DEF Spec

\* A job that is in the DLQ cannot come back under its id: the ids the DLQ names,
\* and those the snapshots name, have been issued before.
OriginsIssued == \A d \in DOMAIN dlq : dlq[d].origin < nextJob

\* Unless add_to_dlq is called, no job is in the queue and in the DLQ at once.
THEOREM OneHomeAlways == ASSUME "manual_add" \notin Env PROVE Spec => []OneHome
  <1>1. Init => OneHome /\ OriginsIssued
    BY DEF Init, EmptyTable, OneHome, OriginsIssued
  <1>2. TypeOK /\ OneHome /\ OriginsIssued /\ [Next]_vars => (OneHome /\ OriginsIssued)'
    <2> SUFFICES ASSUME TypeOK, OneHome, OriginsIssued, [Next]_vars, NEW d \in DOMAIN dlq'
                 PROVE  dlq'[d].origin \notin DOMAIN jobs' /\ dlq'[d].origin < nextJob'
      BY DEF OneHome, OriginsIssued
    <2>1. /\ nextJob' >= nextJob /\ nextJob \in Nat /\ nextJob' \in Nat
          /\ RowsStay /\ JobsTypeOK
      BY NextQueueStep DEF QueueStep, TypeOK, JobsTypeOK
    <2>2. CASE Same(d)
      <3>1. dlq'[d].origin \in Nat /\ dlq'[d].origin < nextJob /\ dlq'[d].origin \notin DOMAIN jobs
        BY <2>2 DEF Same, OneHome, OriginsIssued, TypeOK, DlqTypeOK, DlqRow
      <3>2. QED
        BY <2>1, <3>1 DEF RowsStay
    <2>3. CASE \E w \in Workers : \E s \in batch[w] :
                  /\ s.job \in DOMAIN jobs /\ jobs' = Delete(jobs, {s.job})
                  /\ dlq'[d].origin = s.job
      BY <2>1, <2>3 DEF Delete, Restrict, JobsTypeOK
    <2>4. QED
      BY <2>2, <2>3, NextDlqStep DEF AddToDlq
  <1>3. QED
    BY <1>1, <1>2, TypeCorrect, PTL DEF Spec

-----------------------------------------------------------------------------
(* requeued_count against the requeues that were made.                      *)

Bookers(d) == {a \in Admins : admin[a].phase = "book" /\ admin[a].row = d}
Made(d) == IF d \in DOMAIN spawned THEN spawned[d] ELSE 0

\* Only rows that were inserted have been requeued, or are about to be.
RowsIssued ==
    /\ \A a \in Admins : admin[a].phase \in {"enqueue", "book"} => admin[a].row < nextDlq
    /\ \A d \in DOMAIN spawned : d \in Nat /\ d < nextDlq
Balanced(requeued, bookings, made) ==
    /\ requeued + bookings <= made
    /\ "db_error" \notin Env => requeued + bookings = made
CountInv ==
    /\ RowsIssued
    /\ \A d \in DOMAIN dlq : Balanced(dlq[d].requeued, Cardinality(Bookers(d)), Made(d))

\* What a step does to the rows: those it keeps have their requeued_count, and a new
\* one starts from zero.
CountsKept ==
    /\ nextDlq' >= nextDlq
    /\ \A d \in DOMAIN dlq' : \/ d \in DOMAIN dlq /\ dlq'[d].requeued = dlq[d].requeued
                              \/ d = nextDlq /\ nextDlq' = nextDlq + 1 /\ dlq'[d].requeued = 0

LEMMA UpsertCounts ==
    ASSUME DlqTypeOK, NEW s, UpsertDlq(s)
    PROVE  CountsKept
  <1>1. CASE \E d \in RowsForKey(s.key) :
                /\ dlq' = [dlq EXCEPT ![d].origin = s.job, ![d].failures = @ + 1]
                /\ UNCHANGED nextDlq
    <2>1. PICK d \in RowsForKey(s.key) :
             dlq' = [dlq EXCEPT ![d].origin = s.job, ![d].failures = @ + 1]
      BY <1>1
    <2>2. d \in DOMAIN dlq /\ dlq[d] \in DlqRow
      BY DEF RowsForKey, DlqTypeOK
    <2>3. DOMAIN dlq' = DOMAIN dlq /\ dlq'[d].requeued = dlq[d].requeued
      BY <2>1, <2>2 DEF DlqRow
    <2>4. \A e \in DOMAIN dlq \ {d} : dlq'[e] = dlq[e]
      BY <2>1
    <2>5. nextDlq' >= nextDlq
      BY <1>1 DEF DlqTypeOK
    <2>6. QED
      BY <2>3, <2>4, <2>5 DEF CountsKept
  <1>2. CASE /\ dlq' = Put(dlq, nextDlq, [origin |-> s.job, key |-> s.key, item |-> s.item,
                                        failures |-> 1, requeued |-> 0])
             /\ nextDlq' = nextDlq + 1
    <2> DEFINE r == [origin |-> s.job, key |-> s.key, item |-> s.item,
                     failures |-> 1, requeued |-> 0]
    <2>1. r.requeued = 0 /\ dlq' = Put(dlq, nextDlq, r)
      BY <1>2
    <2> HIDE DEF r
    <2>2. nextDlq \notin DOMAIN dlq /\ nextDlq' >= nextDlq
      BY <1>2 DEF DlqTypeOK
    <2>3. /\ DOMAIN dlq' = DOMAIN dlq \cup {nextDlq} /\ dlq'[nextDlq] = r
          /\ \A d \in DOMAIN dlq : dlq'[d] = dlq[d]
      BY <2>1, <2>2 DEF Put
    <2>4. QED
      BY <1>2, <2>1, <2>2, <2>3 DEF CountsKept
  <1>3. QED
    BY <1>1, <1>2 DEF UpsertDlq

LEMMA NextCounts ==
    ASSUME TypeOK, [Next]_vars, \A a \in Admins : ~RequeueBook(a)
    PROVE  CountsKept
  <1>0. DlqTypeOK /\ nextDlq \in Nat
    BY DEF TypeOK, DlqTypeOK
  <1>1. ASSUME UNCHANGED dlqTable PROVE CountsKept
    BY <1>0, <1>1 DEF dlqTable, CountsKept
  <1>2. ASSUME NEW ids, dlq' = Delete(dlq, ids), UNCHANGED nextDlq PROVE CountsKept
    BY <1>0, <1>2 DEF Delete, Restrict, CountsKept
  <1>3. ASSUME NEW w \in Workers, MoveRow(w) PROVE CountsKept
    BY <1>0, <1>1, <1>3, UpsertCounts DEF MoveRow, dlqTable
  <1>4. ASSUME NEW w \in Workers, CompleteHook(w) PROVE CountsKept
    <2>1. dlq' = Delete(dlq, RowsForKey(exec[w].key)) \/ UNCHANGED dlqTable
      BY <1>4 DEF CompleteHook, dlqTable
    <2>2. UNCHANGED nextDlq
      BY <1>4 DEF CompleteHook
    <2>3. QED
      BY <1>1, <1>2, <2>1, <2>2
  <1>5. ASSUME DeleteDlqJob PROVE CountsKept
    BY <1>2, <1>5 DEF DeleteDlqJob
  <1>6. ASSUME AddToDlq PROVE CountsKept
    BY <1>0, <1>6, UpsertCounts DEF AddToDlq
  <1>7. ASSUME NEW w \in Workers, RunnerStep(w), ~MoveRow(w), ~CompleteHook(w)
        PROVE  UNCHANGED dlqTable
    BY <1>7 DEF RunnerStep, StartRunner, StartupRelease, StartupPurge, ScanTick, MoveRowFails,
                ReleaseTick, Fetch, HandlerSucceeds, HandlerFails, FailHook, Crash
  <1>8. ASSUME NEW a \in Admins, AdminStep(a) PROVE UNCHANGED dlqTable
    BY <1>8 DEF AdminStep, RequeueRead, RequeueEnqueue, RequeueRefused, LocksCleanupRelease,
                LocksCleanupPurge
  <1>9. ASSUME Enqueue \/ RemoveJob \/ FailJobs \/ UNCHANGED vars PROVE UNCHANGED dlqTable
    BY <1>9 DEF Enqueue, RemoveJob, FailJobs, vars
  <1>10. QED
    BY <1>1, <1>3, <1>4, <1>5, <1>6, <1>7, <1>8, <1>9 DEF Next

\* As long as the requeues made and the bookings under way stay, so does the balance.
LEMMA SameBookings ==
    ASSUME TypeOK, CountInv, CountsKept, IsFiniteSet(Admins),
           \A d \in Nat : Bookers(d)' = Bookers(d), UNCHANGED spawned, DlqTypeOK'
    PROVE  \A d \in DOMAIN dlq' :
              Balanced(dlq'[d].requeued, Cardinality(Bookers(d)'), Made(d)')
  <1>0. nextDlq \in Nat /\ \A d \in DOMAIN dlq' : d \in Nat
    BY DEF TypeOK, DlqTypeOK
  <1> SUFFICES ASSUME NEW d \in DOMAIN dlq'
               PROVE  Balanced(dlq'[d].requeued, Cardinality(Bookers(d)'), Made(d)')
    OBVIOUS
  <1>1. Made(d)' = Made(d) /\ Bookers(d)' = Bookers(d)
    BY <1>0 DEF Made
  <1>2. CASE d \in DOMAIN dlq /\ dlq'[d].requeued = dlq[d].requeued
    BY <1>1, <1>2 DEF CountInv
  <1>3. CASE d = nextDlq /\ dlq'[d].requeued = 0
    <2>1. Made(d) = 0
      BY <1>0, <1>3 DEF CountInv, RowsIssued, Made
    <2>2. Bookers(d) = {}
      BY <1>0, <1>3 DEF CountInv, RowsIssued, Bookers
    <2>3. Cardinality(Bookers(d)) = 0
      BY <2>2, FS_EmptySet
    <2>4. QED
      BY <1>1, <1>3, <2>1, <2>3 DEF Balanced
  <1>4. QED
    BY <1>2, <1>3 DEF CountsKept

LEMMA EnqueueCounts ==
    ASSUME TypeOK, CountInv, IsFiniteSet(Admins), NEW a \in Admins, RequeueEnqueue(a)
    PROVE  \A d \in DOMAIN dlq' :
              Balanced(dlq'[d].requeued, Cardinality(Bookers(d)'), Made(d)')
  <1> DEFINE r == admin[a].row
  <1>1. /\ admin[a] \in Operation /\ admin[a].phase = "enqueue" /\ admin \in [Admins -> Operation]
        /\ UNCHANGED dlq /\ spawned' = Put(spawned, r, 1 + Made(r))
        /\ \/ admin' = [admin EXCEPT ![a].phase = "book"]
           \/ "db_error" \in Env /\ admin' = [admin EXCEPT ![a] = NoOperation]
    BY DEF RequeueEnqueue, TypeOK, ActorTypeOK, Made, dlqTable
  <1>2. \/ admin'[a].phase = "book" /\ admin'[a].row = r
        \/ "db_error" \in Env /\ admin'[a].phase # "book"
    BY <1>1 DEF Operation, NoOperation
  <1>3. \A b \in Admins \ {a} : admin'[b] = admin[b]
    BY <1>1
  <1> HIDE DEF r
  <1>4. \A d : d # r => Bookers(d)' = Bookers(d) /\ Made(d)' = Made(d)
    BY <1>1, <1>2, <1>3 DEF Bookers, Made, Put
  <1>5. \A d : d = r => /\ a \notin Bookers(d)
                        /\ \/ Bookers(d)' = Bookers(d) \cup {a}
                           \/ "db_error" \in Env /\ Bookers(d)' = Bookers(d)
    BY <1>1, <1>2, <1>3 DEF Bookers
  <1>6. \A d : d = r => Made(d)' = Made(d) + 1 /\ Made(d) \in Nat
    BY <1>1 DEF Made, Put, TypeOK, CounterTypeOK
  <1> SUFFICES ASSUME NEW d \in DOMAIN dlq'
               PROVE  Balanced(dlq'[d].requeued, Cardinality(Bookers(d)'), Made(d)')
    OBVIOUS
  <1>7. dlq[d].requeued \in Nat /\ d \in DOMAIN dlq /\ dlq' = dlq
    BY <1>1 DEF TypeOK, DlqTypeOK, DlqRow
  <1>8. Balanced(dlq[d].requeued, Cardinality(Bookers(d)), Made(d))
    BY <1>7 DEF CountInv
  <1>9. CASE d = r
    <2>1. IsFiniteSet(Bookers(d)) /\ Cardinality(Bookers(d)) \in Nat
      BY FS_Subset, FS_CardinalityType DEF Bookers
    <2>2. Cardinality(Bookers(d) \cup {a}) = Cardinality(Bookers(d)) + 1
      BY <1>5, <1>9, <2>1, FS_AddElement
    <2>3. Made(d)' = Made(d) + 1 /\ Made(d) \in Nat
      BY <1>6, <1>9
    <2>4. CASE Bookers(d)' = Bookers(d) \cup {a}
      BY <1>7, <1>8, <2>1, <2>2, <2>3, <2>4 DEF Balanced
    <2>5. CASE "db_error" \in Env /\ Bookers(d)' = Bookers(d)
      BY <1>7, <1>8, <2>1, <2>3, <2>5 DEF Balanced
    <2>6. QED
      BY <1>5, <1>9, <2>4, <2>5
  <1>10. CASE d # r
    BY <1>4, <1>7, <1>8, <1>10
  <1>11. QED
    BY <1>9, <1>10

LEMMA BookCounts ==
    ASSUME TypeOK, CountInv, IsFiniteSet(Admins), NEW a \in Admins, RequeueBook(a)
    PROVE  \A d \in DOMAIN dlq' :
              Balanced(dlq'[d].requeued, Cardinality(Bookers(d)'), Made(d)')
  <1> DEFINE r == admin[a].row
  <1>1. /\ admin[a].phase = "book" /\ admin' = [admin EXCEPT ![a] = NoOperation]
        /\ admin \in [Admins -> Operation] /\ UNCHANGED spawned
        /\ \/ r \in DOMAIN dlq /\ dlq' = [dlq EXCEPT ![r].requeued = @ + 1]
           \/ (r \notin DOMAIN dlq \/ "db_error" \in Env) /\ UNCHANGED dlq
    BY DEF RequeueBook, TypeOK, ActorTypeOK, history
  <1> HIDE DEF r
  <1>2. admin'[a].phase # "book" /\ \A b \in Admins \ {a} : admin'[b] = admin[b]
    BY <1>1 DEF NoOperation
  <1>3. \A d : d # r => Bookers(d)' = Bookers(d)
    BY <1>1, <1>2 DEF Bookers, r
  <1>4. \A d : d = r => Bookers(d)' = Bookers(d) \ {a} /\ a \in Bookers(d)
    BY <1>1, <1>2 DEF Bookers, r
  <1>5. \A d : Made(d)' = Made(d)
    BY <1>1 DEF Made
  <1> SUFFICES ASSUME NEW d \in DOMAIN dlq'
               PROVE  Balanced(dlq'[d].requeued, Cardinality(Bookers(d)'), Made(d)')
    OBVIOUS
  <1>6. d \in DOMAIN dlq /\ dlq[d] \in DlqRow /\ Made(d) \in Nat
    BY <1>1 DEF TypeOK, DlqTypeOK, CounterTypeOK, Made
  <1>7. Balanced(dlq[d].requeued, Cardinality(Bookers(d)), Made(d))
    BY <1>6 DEF CountInv
  <1>8. CASE d # r
    BY <1>1, <1>3, <1>5, <1>7, <1>8
  <1>9. CASE d = r
    <2>1. IsFiniteSet(Bookers(d)) /\ Cardinality(Bookers(d)) \in Nat
      BY FS_Subset, FS_CardinalityType DEF Bookers
    <2>2. Cardinality(Bookers(d) \ {a}) = Cardinality(Bookers(d)) - 1
      BY <1>4, <1>9, <2>1, FS_RemoveElement
    <2>3. Cardinality(Bookers(d)') = Cardinality(Bookers(d)) - 1 /\ Made(d)' = Made(d)
      BY <1>4, <1>5, <1>9, <2>2
    <2>4. CASE dlq' = [dlq EXCEPT ![r].requeued = @ + 1]
      <3>1. dlq'[d].requeued = dlq[d].requeued + 1 /\ dlq[d].requeued \in Nat
        BY <1>6, <1>9, <2>4 DEF DlqRow
      <3>2. QED
        BY <1>6, <1>7, <2>1, <2>3, <3>1 DEF Balanced
    <2>5. CASE "db_error" \in Env /\ UNCHANGED dlq
      <3>1. dlq'[d].requeued = dlq[d].requeued /\ dlq[d].requeued \in Nat
        BY <1>6, <2>5 DEF DlqRow
      <3>2. QED
        BY <1>6, <1>7, <2>1, <2>3, <2>5, <3>1 DEF Balanced
    <2>6. QED
      BY <1>1, <1>6, <1>9, <2>4, <2>5
  <1>10. QED
    BY <1>8, <1>9

\* The steps of an admin that neither make a requeue nor book one.
LEMMA OtherAdminSteps ==
    ASSUME TypeOK, CountInv, CountsKept, NEW a \in Admins, AdminStep(a), ~RequeueEnqueue(a), ~RequeueBook(a)
    PROVE  /\ \A d : Bookers(d)' = Bookers(d)
           /\ UNCHANGED spawned
           /\ \A b \in Admins : admin'[b].phase \in {"enqueue", "book"} => admin'[b].row < nextDlq
  <1>0. admin \in [Admins -> Operation] /\ UNCHANGED spawned
    BY DEF AdminStep, RequeueRead, RequeueRefused, LocksCleanupRelease, LocksCleanupPurge,
           TypeOK, ActorTypeOK, history
  <1>1. PICK o : /\ admin' = [admin EXCEPT ![a] = o] /\ o.phase # "book" /\ admin[a].phase # "book"
                 /\ o.phase = "enqueue" => o.row < nextDlq
    <2>1. CASE RequeueRead(a)
      <3>1. PICK d \in DOMAIN dlq :
               admin' = [admin EXCEPT ![a] = [phase |-> "enqueue", row |-> d,
                                              key |-> dlq[d].key, item |-> dlq[d].item]]
        BY <2>1 DEF RequeueRead
      <3>2. d < nextDlq
        BY DEF TypeOK, DlqTypeOK
      <3> DEFINE o == [phase |-> "enqueue", row |-> d, key |-> dlq[d].key, item |-> dlq[d].item]
      <3>3. o.phase = "enqueue" /\ o.row < nextDlq /\ admin' = [admin EXCEPT ![a] = o]
        BY <3>1, <3>2
      <3>4. admin[a].phase = "idle"
        BY <2>1 DEF RequeueRead
      <3> HIDE DEF o
      <3>5. QED
        BY <3>3, <3>4
    <2>2. CASE RequeueRefused(a) \/ LocksCleanupPurge(a)
      <3>1. NoOperation.phase = "idle"
        BY DEF NoOperation
      <3>2. QED
        BY <2>2, <3>1 DEF RequeueRefused, LocksCleanupPurge
    <2>3. CASE LocksCleanupRelease(a)
      <3> DEFINE o == [admin[a] EXCEPT !.phase = "purge"]
      <3>1. o.phase = "purge" /\ admin' = [admin EXCEPT ![a] = o] /\ admin[a].phase # "book"
        BY <1>0, <2>3 DEF LocksCleanupRelease, Operation
      <3> HIDE DEF o
      <3>2. QED
        BY <3>1
    <2>4. QED
      BY <2>1, <2>2, <2>3 DEF AdminStep
  <1>2. admin'[a] = o /\ \A b \in Admins \ {a} : admin'[b] = admin[b]
    BY <1>0, <1>1
  <1>3. \A d : Bookers(d)' = Bookers(d)
    BY <1>1, <1>2 DEF Bookers
  <1>4. \A b \in Admins : admin'[b].phase \in {"enqueue", "book"} => admin'[b].row < nextDlq
    BY <1>1, <1>2 DEF CountInv, RowsIssued
  <1>5. QED
    BY <1>0, <1>3, <1>4

LEMMA CountStep ==
    ASSUME TypeOK, TypeOK', CountInv, IsFiniteSet(Admins), [Next]_vars
    PROVE  CountInv'
  <1> DEFINE Even == \A d \in DOMAIN dlq' :
                        Balanced(dlq'[d].requeued, Cardinality(Bookers(d)'), Made(d)')
             Issued(n) == /\ \A b \in Admins : admin'[b].phase \in {"enqueue", "book"}
                                                => admin'[b].row < n
                          /\ \A d \in DOMAIN spawned' : d \in Nat /\ d < n
  <1>0. /\ nextDlq \in Nat /\ nextDlq' \in Nat /\ admin' \in [Admins -> Operation]
        /\ admin \in [Admins -> Operation] /\ DlqTypeOK'
    BY DEF TypeOK, DlqTypeOK, ActorTypeOK
  <1>1. CASE \E a \in Admins : RequeueBook(a)
    <2>1. PICK a \in Admins : RequeueBook(a)
      BY <1>1
    <2>2. Even
      BY <2>1, BookCounts
    <2>3. /\ admin' = [admin EXCEPT ![a] = NoOperation] /\ NoOperation.phase = "idle"
          /\ UNCHANGED <<spawned, nextDlq>>
      BY <2>1 DEF RequeueBook, NoOperation, history
    <2>4. Issued(nextDlq')
      BY <1>0, <2>3 DEF CountInv, RowsIssued
    <2>5. QED
      BY <2>2, <2>4 DEF CountInv, RowsIssued
  <1>2. CASE \A a \in Admins : ~RequeueBook(a)
    <2>1. CountsKept
      BY <1>2, NextCounts
    <2>2. ASSUME Issued(nextDlq) PROVE Issued(nextDlq')
      <3>1. nextDlq' >= nextDlq
        BY <2>1 DEF CountsKept
      <3>2. \A b \in Admins : admin'[b].row \in Nat
        BY <1>0 DEF Operation
      <3>3. QED
        BY <1>0, <2>2, <3>1, <3>2
    <2>3. ASSUME UNCHANGED <<admin, spawned>> PROVE Even /\ Issued(nextDlq)
      <3>1. \A d \in Nat : Bookers(d)' = Bookers(d)
        BY <2>3 DEF Bookers
      <3>2. QED
        BY <1>0, <2>1, <2>3, <3>1, SameBookings DEF CountInv, RowsIssued
    <2>4. ASSUME NEW a \in Admins, RequeueEnqueue(a) PROVE Even /\ Issued(nextDlq)
      <3>1. /\ admin[a].phase = "enqueue" /\ admin[a].row < nextDlq /\ admin[a].row \in Nat
            /\ \/ admin' = [admin EXCEPT ![a].phase = "book"]
               \/ admin' = [admin EXCEPT ![a] = NoOperation]
            /\ DOMAIN spawned' = DOMAIN spawned \cup {admin[a].row}
        BY <1>0, <2>4 DEF RequeueEnqueue, CountInv, RowsIssued, Operation, Put
      <3>2. /\ admin'[a].row = admin[a].row \/ admin'[a].phase = "idle"
            /\ \A b \in Admins \ {a} : admin'[b] = admin[b]
        BY <1>0, <3>1 DEF Operation, NoOperation
      <3>3. Issued(nextDlq)
        BY <3>1, <3>2 DEF CountInv, RowsIssued
      <3>4. QED
        BY <2>4, <3>3, EnqueueCounts
    <2>5. ASSUME NEW a \in Admins, AdminStep(a), ~RequeueEnqueue(a) PROVE Even /\ Issued(nextDlq)
      <3>1. /\ \A d \in Nat : Bookers(d)' = Bookers(d)
            /\ UNCHANGED spawned
            /\ \A b \in Admins : admin'[b].phase \in {"enqueue", "book"} => admin'[b].row < nextDlq
        BY <1>2, <2>1, <2>5, OtherAdminSteps
      <3>2. QED
        BY <1>0, <2>1, <3>1, SameBookings DEF CountInv, RowsIssued
    <2>6. ASSUME NEW w \in Workers, RunnerStep(w) PROVE UNCHANGED <<admin, spawned>>
      BY <2>6 DEF RunnerStep, StartRunner, StartupRelease, StartupPurge, ScanTick, MoveRow,
                  MoveRowFails, ReleaseTick, Fetch, HandlerSucceeds, CompleteHook, HandlerFails,
                  FailHook, Crash, history
    <2>7. ASSUME Enqueue \/ DeleteDlqJob \/ RemoveJob \/ FailJobs \/ AddToDlq \/ UNCHANGED vars
          PROVE  UNCHANGED <<admin, spawned>>
      BY <2>7 DEF Enqueue, DeleteDlqJob, RemoveJob, FailJobs, AddToDlq, vars, history
    <2>8. Even /\ Issued(nextDlq)
      BY <2>3, <2>4, <2>5, <2>6, <2>7 DEF Next
    <2>9. QED
      BY <2>2, <2>8 DEF CountInv, RowsIssued
  <1>3. QED
    BY <1>1, <1>2

\* requeued_count, with the requeues not yet booked, never claims a requeue that did
\* not enqueue a job; unless a statement fails it misses none.
THEOREM RequeuesCounted == ASSUME IsFiniteSet(Admins) PROVE Spec => []RequeuedCount
  <1>1. Init => CountInv
    BY DEF Init, EmptyTable, NoOperation, CountInv, RowsIssued
  <1>2. CountInv => RequeuedCount
    BY DEF CountInv, Balanced, Made, Bookers, RequeuedCount, Bookings
  <1>3. TypeOK /\ TypeOK' /\ CountInv /\ [Next]_vars => CountInv'
    BY CountStep
  <1>4. QED
    BY <1>1, <1>2, <1>3, TypeCorrect, PTL DEF Spec

-----------------------------------------------------------------------------
(* Payloads: which row or copy goes with which, and how one is lost.        *)

\* A row, or a copy of one, goes with a payload that was accepted, under its key.
Keyed(r) == r.key \in {NoKey, KeyOf[r.item]}
Owned(r) == r.item < nextItem /\ Keyed(r)
Owners ==
    /\ \A j \in DOMAIN jobs : Owned(jobs[j])
    /\ \A d \in DOMAIN dlq : Owned(dlq[d])
    /\ \A w \in Workers : \A s \in batch[w] : Owned(s)
    /\ \A w \in Workers : exec[w].phase # "idle" => Owned(exec[w])
    /\ \A a \in Admins : admin[a].phase = "enqueue" => Owned(admin[a])
    /\ \A i \in done \cup settled : i < nextItem

\* A running handler holds the row it fetched, if that is still there.
Holding ==
    \A w \in Workers :
        /\ exec[w].phase # "idle" => runner[w] = "up" /\ exec[w].job < nextJob
        /\ exec[w].phase = "running" /\ exec[w].job \in DOMAIN jobs
           => jobs[exec[w].job].lockedBy = w /\ jobs[exec[w].job].item = exec[w].item

\* TypeOK and SnapshotsStable hold already.
Known == TypeOK /\ SnapshotsStable /\ SnapshotsIssued

LEMMA Typed ==
    ASSUME TypeOK
    PROVE  /\ \A j \in DOMAIN jobs : jobs[j] \in JobRow /\ jobs[j].item \in Items /\ j < nextJob
           /\ \A d \in DOMAIN dlq : dlq[d].item \in Items /\ dlq[d].origin \in Nat
           /\ nextJob \in Nat /\ nextItem \in Nat
  BY DEF TypeOK, JobsTypeOK, DlqTypeOK, CounterTypeOK, JobRow, DlqRow


\* add_job with a key: no row goes, a row keeps its payload and its lock unless it is
\* available and replaced, which settles what it held, and some row has the payload.
AddOutcome(k, i) ==
    /\ settled \subseteq settled'
    /\ settled' \subseteq settled \cup {jobs[j].item : j \in DOMAIN jobs}
    /\ DOMAIN jobs \subseteq DOMAIN jobs'
    /\ \A j \in DOMAIN jobs :
          \/ /\ jobs'[j].item = jobs[j].item
             /\ jobs'[j].key \in {NoKey, jobs[j].key}
             /\ jobs'[j].lockedBy = jobs[j].lockedBy
          \/ /\ Available(j) /\ jobs'[j] = NewRow(k, i)
             /\ jobs[j].item \in settled' \cup {i}
    /\ \A j \in DOMAIN jobs' \ DOMAIN jobs : j = nextJob /\ jobs'[j] = NewRow(k, i)
    /\ \E n \in DOMAIN jobs' : jobs'[n].item = i

LEMMA AddJobOutcome ==
    ASSUME TypeOK, NEW k \in AnyKey, NEW i \in Items, AddJob(k, i)
    PROVE  AddOutcome(k, i)
  <1>1. NewRow(k, i).item = i
    BY DEF NewRow
  <1>2. nextJob \notin DOMAIN jobs
    BY Typed
  <1>3. CASE ReplaceInPlace(k, i)
    <2>1. PICK j \in Holders(k) :
            /\ Available(j)
            /\ jobs' = [jobs EXCEPT ![j] = NewRow(k, i)]
            /\ settled' = settled \cup ({jobs[j].item} \ {i})
      BY <1>3 DEF ReplaceInPlace
    <2>2. j \in DOMAIN jobs /\ DOMAIN jobs' = DOMAIN jobs /\ jobs'[j] = NewRow(k, i)
      BY <2>1 DEF Holders
    <2>3. \A x \in DOMAIN jobs \ {j} : jobs'[x] = jobs[x]
      BY <2>1
    <2>4. QED
      BY <1>1, <2>1, <2>2, <2>3 DEF AddOutcome
  <1>4. CASE InsertBeside(k, i)
    <2>1. PICK j \in Holders(k) :
            /\ \E n \in {jobs[j].attempts, MaxAttempts} :
                  jobs' = Put([jobs EXCEPT ![j] = Keyless(jobs[j], n)],
                              nextJob, NewRow(k, i))
            /\ settled' = settled \cup ({jobs[j].item} \ {i})
      BY <1>4 DEF InsertBeside
    <2>2. PICK n \in {jobs[j].attempts, MaxAttempts} :
            jobs' = Put([jobs EXCEPT ![j] = Keyless(jobs[j], n)], nextJob, NewRow(k, i))
      BY <2>1
    <2>3. j \in DOMAIN jobs /\ jobs[j] \in JobRow
      BY Typed DEF Holders
    <2>4. /\ Keyless(jobs[j], n).item = jobs[j].item /\ Keyless(jobs[j], n).key = NoKey
          /\ Keyless(jobs[j], n).lockedBy = jobs[j].lockedBy
      BY <2>3 DEF Keyless, JobRow
    <2> DEFINE stripped == [jobs EXCEPT ![j] = Keyless(jobs[j], n)]
    <2>5. /\ DOMAIN stripped = DOMAIN jobs
          /\ \A x \in DOMAIN jobs : /\ stripped[x].item = jobs[x].item
                                   /\ stripped[x].key \in {NoKey, jobs[x].key}
                                   /\ stripped[x].lockedBy = jobs[x].lockedBy
      BY <2>3, <2>4
    <2>6. jobs' = Put(stripped, nextJob, NewRow(k, i))
      BY <2>2
    <2> HIDE DEF stripped
    <2>7. /\ DOMAIN jobs' = DOMAIN jobs \cup {nextJob} /\ jobs'[nextJob] = NewRow(k, i)
          /\ \A x \in DOMAIN jobs : jobs'[x] = stripped[x]
      BY <1>2, <2>5, <2>6 DEF Put
    <2>8. QED
      BY <1>1, <2>1, <2>3, <2>5, <2>7 DEF AddOutcome
  <1>5. CASE Insert(k, i)
    <2>1. /\ DOMAIN jobs' = DOMAIN jobs \cup {nextJob} /\ jobs'[nextJob] = NewRow(k, i)
          /\ \A x \in DOMAIN jobs : jobs'[x] = jobs[x]
          /\ UNCHANGED settled
      BY <1>2, <1>5 DEF Insert, Put
    <2>2. QED
      BY <1>1, <2>1 DEF AddOutcome
  <1>6. QED
    BY <1>3, <1>4, <1>5 DEF AddJob

\* Every other write to the queue leaves the rows it does not delete their payloads.
KeptRows == /\ DOMAIN jobs' \subseteq DOMAIN jobs
            /\ \A j \in DOMAIN jobs' : /\ jobs'[j].item = jobs[j].item
                                        /\ jobs'[j].key \in {NoKey, jobs[j].key}

LEMMA DeleteKeeps ==
    ASSUME NEW ids, jobs' = Delete(jobs, ids)
    PROVE  KeptRows /\ DOMAIN jobs' = DOMAIN jobs \ ids /\ \A j \in DOMAIN jobs' : jobs'[j] = jobs[j]
  BY DEF Delete, Restrict, KeptRows

LEMMA ReleaseKeeps ==
    ASSUME TypeOK, ReleaseStaleJobLocks
    PROVE  /\ KeptRows /\ DOMAIN jobs' = DOMAIN jobs
           /\ \A j \in DOMAIN jobs : jobs'[j].attempts = jobs[j].attempts
           /\ \A j \in DOMAIN jobs : ~Orphaned(j) => jobs'[j].lockedBy = jobs[j].lockedBy
  <1>1. PICK R \in SUBSET {j \in DOMAIN jobs : Orphaned(j)} :
           jobs' = [j \in DOMAIN jobs |->
                      IF j \in R THEN [jobs[j] EXCEPT !.lockedBy = NoWorker] ELSE jobs[j]]
    BY DEF ReleaseStaleJobLocks
  <1>2. \A j \in DOMAIN jobs : jobs[j] \in JobRow
    BY Typed
  <1>3. \A j \in DOMAIN jobs :
           /\ jobs'[j].attempts = jobs[j].attempts /\ jobs'[j].item = jobs[j].item
           /\ jobs'[j].key = jobs[j].key
           /\ ~Orphaned(j) => jobs'[j].lockedBy = jobs[j].lockedBy
    BY <1>1, <1>2 DEF JobRow
  <1>4. QED
    BY <1>1, <1>3 DEF KeptRows

LEMMA EditKeeps ==
    ASSUME TypeOK, NEW j \in DOMAIN jobs,
           \/ \E w \in Workers : jobs' = [jobs EXCEPT ![j].attempts = @ + 1, ![j].lockedBy = w]
           \/ jobs' = [jobs EXCEPT ![j].lockedBy = NoWorker]
           \/ jobs' = [jobs EXCEPT ![j].attempts = MaxAttempts]
    PROVE  /\ KeptRows /\ DOMAIN jobs' = DOMAIN jobs
           /\ \A x \in DOMAIN jobs \ {j} : jobs'[x] = jobs[x]
  <1>1. jobs[j] \in JobRow
    BY Typed
  <1>2. jobs'[j].item = jobs[j].item /\ jobs'[j].key = jobs[j].key
    BY <1>1 DEF JobRow
  <1>3. QED
    BY <1>2 DEF KeptRows

LEMMA StripKeeps ==
    ASSUME TypeOK, NEW j \in DOMAIN jobs, jobs' = [jobs EXCEPT ![j] = Keyless(jobs[j], MaxAttempts)]
    PROVE  /\ KeptRows /\ DOMAIN jobs' = DOMAIN jobs
           /\ \A x \in DOMAIN jobs : jobs'[x].lockedBy = jobs[x].lockedBy
           /\ \A x \in DOMAIN jobs \ {j} : jobs'[x] = jobs[x]
  <1>1. jobs[j] \in JobRow
    BY Typed
  <1>2. /\ jobs'[j].item = jobs[j].item /\ jobs'[j].key = NoKey
        /\ jobs'[j].lockedBy = jobs[j].lockedBy
    BY <1>1 DEF JobRow, Keyless
  <1>3. QED
    BY <1>2 DEF KeptRows

\* What a step may do to the queue: add a job for a payload, with all else unchanged,
\* or keep and delete rows.
Inserting(k, i) ==
    /\ k \in AnyKey /\ i \in Items /\ k \in {NoKey, KeyOf[i]}
    /\ AddOutcome(k, i) /\ nextJob' >= nextJob
    /\ UNCHANGED <<dlqTable, runner, batch, exec, done>>
    /\ \/ Enqueue /\ i = nextItem /\ nextItem' = nextItem + 1
       \/ UNCHANGED nextItem /\ i < nextItem

LEMMA NextJobsOutcome ==
    ASSUME TypeOK, Owners, [Next]_vars
    PROVE  \/ \E k, i : Inserting(k, i)
           \/ KeptRows /\ UNCHANGED <<nextJob, nextItem>>
  <1>0. ASSUME UNCHANGED <<queueTable, nextItem>> PROVE KeptRows /\ UNCHANGED <<nextJob, nextItem>>
    BY <1>0 DEF KeptRows, queueTable
  <1>1. ASSUME Enqueue PROVE \E k, i : Inserting(k, i)
    <2>1. /\ nextItem \in Items /\ KeyOf[nextItem] \in AnyKey /\ nextItem' = nextItem + 1
          /\ AddJob(KeyOf[nextItem], nextItem)
      BY <1>1, DeadLetterAssumption DEF Enqueue, TypeOK, CounterTypeOK, Items, AnyKey
    <2>2. AddOutcome(KeyOf[nextItem], nextItem)
      BY <2>1, AddJobOutcome
    <2>3. nextJob' >= nextJob
      BY NextQueueStep DEF QueueStep
    <2>4. Inserting(KeyOf[nextItem], nextItem)
      BY <1>1, <2>1, <2>2, <2>3 DEF Enqueue, Inserting
    <2>5. QED
      BY <2>4
  <1>2. ASSUME NEW a \in Admins, RequeueEnqueue(a) PROVE \E k, i : Inserting(k, i)
    <2>1. /\ admin[a].item \in Items /\ admin[a].key \in AnyKey /\ UNCHANGED nextItem
          /\ AddJob(admin[a].key, admin[a].item) /\ Owned(admin[a])
      BY <1>2 DEF RequeueEnqueue, bounds, TypeOK, ActorTypeOK, Operation, Owners
    <2>2. AddOutcome(admin[a].key, admin[a].item)
      BY <2>1, AddJobOutcome
    <2>3. nextJob' >= nextJob
      BY NextQueueStep DEF QueueStep
    <2>4. Inserting(admin[a].key, admin[a].item)
      BY <1>2, <2>1, <2>2, <2>3 DEF RequeueEnqueue, Inserting, Owned, Keyed
    <2>5. QED
      BY <2>4
  <1>3. ASSUME NEW w \in Workers, RunnerStep(w) PROVE KeptRows /\ UNCHANGED <<nextJob, nextItem>>
    <2>1. CASE MoveRow(w)
      BY <2>1, DeleteKeeps DEF MoveRow, KeptRows, bounds
    <2>2. CASE StartupRelease(w)
      BY <2>2, ReleaseKeeps DEF StartupRelease, KeptRows, bounds
    <2>3. CASE StartupPurge(w)
      BY <2>3, DeleteKeeps DEF StartupPurge, CleanupPermanentlyFailed, KeptRows, bounds
    <2>4. CASE ReleaseTick(w)
      BY <2>4, ReleaseKeeps DEF ReleaseTick, bounds
    <2>5. CASE Fetch(w)
      BY <2>5, EditKeeps DEF Fetch, bounds
    <2>6. CASE HandlerSucceeds(w)
      BY <2>6, DeleteKeeps DEF HandlerSucceeds, bounds
    <2>7. CASE HandlerFails(w)
      BY <2>7, EditKeeps DEF HandlerFails, KeptRows, bounds
    <2>8. CASE FailHook(w)
      BY <2>8, EditKeeps DEF FailHook, KeptRows, bounds
    <2>9. CASE \/ StartRunner(w) \/ ScanTick(w) \/ MoveRowFails(w) \/ CompleteHook(w) \/ Crash(w)
      BY <1>0, <2>9
      DEF StartRunner, ScanTick, MoveRowFails, CompleteHook, Crash, queueTable, bounds
    <2>10. QED
      BY <1>3, <2>1, <2>2, <2>3, <2>4, <2>5, <2>6, <2>7, <2>8, <2>9 DEF RunnerStep
  <1>4. ASSUME NEW a \in Admins,
               \/ RequeueRead(a) \/ RequeueRefused(a) \/ RequeueBook(a)
               \/ LocksCleanupRelease(a) \/ LocksCleanupPurge(a)
        PROVE  KeptRows /\ UNCHANGED <<nextJob, nextItem>>
    BY <1>0, <1>4, ReleaseKeeps, DeleteKeeps
    DEF RequeueRead, RequeueRefused, RequeueBook, LocksCleanupRelease, LocksCleanupPurge,
        CleanupPermanentlyFailed, KeptRows, queueTable, bounds
  <1>5. ASSUME RemoveJob \/ FailJobs PROVE KeptRows /\ UNCHANGED <<nextJob, nextItem>>
    BY <1>5, DeleteKeeps, EditKeeps, StripKeeps DEF RemoveJob, FailJobs, bounds
  <1>6. ASSUME DeleteDlqJob \/ AddToDlq \/ UNCHANGED vars
        PROVE  KeptRows /\ UNCHANGED <<nextJob, nextItem>>
    BY <1>0, <1>6 DEF DeleteDlqJob, AddToDlq, vars, queueTable, bounds
  <1>7. QED
    BY <1>1, <1>2, <1>3, <1>4, <1>5, <1>6 DEF Next, AdminStep

LEMMA SnapshotOwned ==
    ASSUME TypeOK, Owners, NEW j \in DOMAIN jobs
    PROVE  SnapshotOf(j) \in Snapshot /\ Owned(SnapshotOf(j))
  BY DEF SnapshotOf, Snapshot, TypeOK, JobsTypeOK, JobRow, Owners, Owned, Keyed

LEMMA NextDlqOwned ==
    ASSUME Known, Owners, [Next]_vars
    PROVE  \A d \in DOMAIN dlq' : Owned(dlq'[d])
  <1> USE DEF Known
  <1>0. ASSUME UNCHANGED dlqTable PROVE \A d \in DOMAIN dlq' : Owned(dlq'[d])
    BY <1>0 DEF dlqTable, Owners
  <1>d. ASSUME NEW ids, dlq' = Delete(dlq, ids) PROVE \A d \in DOMAIN dlq' : Owned(dlq'[d])
    BY <1>d DEF Delete, Restrict, Owners
  <1>u. ASSUME NEW s \in Snapshot, Owned(s), UpsertDlq(s)
        PROVE  \A d \in DOMAIN dlq' : Owned(dlq'[d])
    <2>1. CASE \E d \in RowsForKey(s.key) :
                  dlq' = [dlq EXCEPT ![d].origin = s.job, ![d].failures = @ + 1]
      <3>1. \A d \in DOMAIN dlq : dlq[d] \in DlqRow
        BY DEF TypeOK, DlqTypeOK
      <3>2. \A d \in DOMAIN dlq' : /\ d \in DOMAIN dlq
                                  /\ dlq'[d].item = dlq[d].item /\ dlq'[d].key = dlq[d].key
        BY <2>1, <3>1 DEF RowsForKey, DlqRow
      <3>3. QED
        BY <3>2 DEF Owners, Owned, Keyed
    <2>2. CASE dlq' = Put(dlq, nextDlq, [origin |-> s.job, key |-> s.key, item |-> s.item,
                                        failures |-> 1, requeued |-> 0])
      <3> DEFINE r == [origin |-> s.job, key |-> s.key, item |-> s.item,
                       failures |-> 1, requeued |-> 0]
      <3>1. Owned(r) /\ dlq' = Put(dlq, nextDlq, r)
        BY <1>u, <2>2 DEF Owned, Keyed
      <3> HIDE DEF r
      <3>2. QED
        BY <3>1 DEF Put, Owners
    <2>3. QED
      BY <1>u, <2>1, <2>2 DEF UpsertDlq
  <1>1. ASSUME NEW w \in Workers, MoveRow(w) PROVE \A d \in DOMAIN dlq' : Owned(dlq'[d])
    <2>1. PICK s \in batch[w] : UpsertDlq(s) \/ UNCHANGED dlqTable
      BY <1>1 DEF MoveRow
    <2>2. s \in Snapshot /\ Owned(s)
      BY DEF TypeOK, ActorTypeOK, Owners
    <2>3. QED
      BY <1>0, <1>u, <2>1, <2>2
  <1>2. ASSUME AddToDlq PROVE \A d \in DOMAIN dlq' : Owned(dlq'[d])
    <2>1. PICK j \in DOMAIN jobs : UpsertDlq(SnapshotOf(j))
      BY <1>2 DEF AddToDlq
    <2>2. QED
      BY <1>u, <2>1, SnapshotOwned
  <1>3. ASSUME NEW w \in Workers, CompleteHook(w) PROVE \A d \in DOMAIN dlq' : Owned(dlq'[d])
    <2>1. dlq' = Delete(dlq, RowsForKey(exec[w].key)) \/ UNCHANGED dlqTable
      BY <1>3 DEF CompleteHook, dlqTable
    <2>2. QED
      BY <1>0, <1>d, <2>1
  <1>4. ASSUME DeleteDlqJob PROVE \A d \in DOMAIN dlq' : Owned(dlq'[d])
    BY <1>d, <1>4 DEF DeleteDlqJob
  <1>5. ASSUME NEW a \in Admins, RequeueBook(a) PROVE \A d \in DOMAIN dlq' : Owned(dlq'[d])
    <2>1. CASE UNCHANGED dlq
      BY <2>1 DEF Owners
    <2>2. CASE admin[a].row \in DOMAIN dlq
               /\ dlq' = [dlq EXCEPT ![admin[a].row].requeued = @ + 1]
      <3>1. dlq[admin[a].row] \in DlqRow
        BY <2>2 DEF TypeOK, DlqTypeOK
      <3>2. \A d \in DOMAIN dlq' : /\ d \in DOMAIN dlq
                                  /\ dlq'[d].item = dlq[d].item /\ dlq'[d].key = dlq[d].key
        BY <2>2, <3>1 DEF DlqRow
      <3>3. QED
        BY <3>2 DEF Owners, Owned, Keyed
    <2>3. QED
      BY <1>5, <2>1, <2>2 DEF RequeueBook
  <1>6. ASSUME NEW w \in Workers, RunnerStep(w), ~MoveRow(w), ~CompleteHook(w)
        PROVE  UNCHANGED dlqTable
    BY <1>6 DEF RunnerStep, StartRunner, StartupRelease, StartupPurge, ScanTick, MoveRowFails,
                ReleaseTick, Fetch, HandlerSucceeds, HandlerFails, FailHook, Crash
  <1>7. ASSUME NEW a \in Admins, AdminStep(a), ~RequeueBook(a) PROVE UNCHANGED dlqTable
    BY <1>7 DEF AdminStep, RequeueRead, RequeueEnqueue, RequeueRefused, LocksCleanupRelease,
                LocksCleanupPurge
  <1>8. ASSUME Enqueue \/ RemoveJob \/ FailJobs \/ UNCHANGED vars PROVE UNCHANGED dlqTable
    BY <1>8 DEF Enqueue, RemoveJob, FailJobs, vars
  <1>9. QED
    BY <1>0, <1>1, <1>2, <1>3, <1>4, <1>5, <1>6, <1>7, <1>8 DEF Next

\* What a step settles was accepted before it.
LEMMA NextSettled ==
    ASSUME Known, Owners, [Next]_vars
    PROVE  /\ done \cup settled \subseteq done' \cup settled'
           /\ \A i \in done' \cup settled' : i < nextItem
  <1> USE DEF Known
  <1>0. ASSUME UNCHANGED <<done, settled>>
        PROVE  /\ done \cup settled \subseteq done' \cup settled'
               /\ \A i \in done' \cup settled' : i < nextItem
    BY <1>0 DEF Owners
  <1>1. CASE \E k, i : AddOutcome(k, i) /\ UNCHANGED done
    BY <1>1 DEF AddOutcome, Owners, Owned
  <1>2. CASE \E w \in Workers : HandlerSucceeds(w)
    BY <1>2 DEF HandlerSucceeds, Owners, Owned
  <1>3. CASE \E w \in Workers : CompleteHook(w)
    BY <1>3 DEF CompleteHook, Owners, Owned, RowsForKey
  <1>4. CASE DeleteDlqJob
    BY <1>4 DEF DeleteDlqJob, Owners, Owned
  <1>5. CASE RemoveJob
    BY <1>5 DEF RemoveJob, Owners, Owned
  <1>6. ASSUME NEW w \in Workers, RunnerStep(w), ~HandlerSucceeds(w), ~CompleteHook(w)
        PROVE  UNCHANGED <<done, settled>>
    BY <1>6 DEF RunnerStep, StartRunner, StartupRelease, StartupPurge, ScanTick, MoveRow,
                MoveRowFails, ReleaseTick, Fetch, HandlerFails, FailHook, Crash, history
  <1>7. ASSUME NEW a \in Admins, AdminStep(a), ~RequeueEnqueue(a)
        PROVE  UNCHANGED <<done, settled>>
    BY <1>7 DEF AdminStep, RequeueRead, RequeueRefused, RequeueBook, LocksCleanupRelease,
                LocksCleanupPurge, history
  <1>8. ASSUME FailJobs \/ AddToDlq \/ UNCHANGED vars PROVE UNCHANGED <<done, settled>>
    BY <1>8 DEF FailJobs, AddToDlq, vars, history
  <1>9. ASSUME Enqueue \/ \E a \in Admins : RequeueEnqueue(a)
        PROVE  \E k, i : AddOutcome(k, i) /\ UNCHANGED done
    <2>1. CASE Enqueue
      <3>1. /\ nextItem \in Items /\ KeyOf[nextItem] \in AnyKey
            /\ AddJob(KeyOf[nextItem], nextItem) /\ UNCHANGED done
        BY <2>1, DeadLetterAssumption DEF Enqueue, TypeOK, CounterTypeOK, Items, AnyKey
      <3>2. QED
        BY <3>1, AddJobOutcome
    <2>2. CASE \E a \in Admins : RequeueEnqueue(a)
      <3>1. PICK a \in Admins : RequeueEnqueue(a)
        BY <2>2
      <3>2. /\ admin[a].item \in Items /\ admin[a].key \in AnyKey
            /\ AddJob(admin[a].key, admin[a].item) /\ Owned(admin[a]) /\ UNCHANGED done
        BY <3>1 DEF RequeueEnqueue, TypeOK, ActorTypeOK, Operation, Owners
      <3>3. QED
        BY <3>2, AddJobOutcome
    <2>3. QED
      BY <1>9, <2>1, <2>2
  <1>10. QED
    BY <1>0, <1>1, <1>2, <1>3, <1>4, <1>5, <1>6, <1>7, <1>8, <1>9 DEF Next

LEMMA NextItemGrows ==
    ASSUME TypeOK, Owners, [Next]_vars
    PROVE  nextItem' \in Nat /\ nextItem' >= nextItem
  BY NextJobsOutcome, Typed DEF Inserting

LEMMA JobsOwned ==
    ASSUME Known, Owners, [Next]_vars, NEW j \in DOMAIN jobs'
    PROVE  Owned(jobs[j])'
  <1>0. TypeOK /\ nextItem' \in Nat /\ nextItem' >= nextItem /\ nextItem \in Nat
    BY NextItemGrows, Typed DEF Known
  <1>1. ASSUME NEW k, NEW i, Inserting(k, i) PROVE Owned(jobs[j])'
    <2>0. /\ NewRow(k, i).item = i /\ NewRow(k, i).key \in {NoKey, KeyOf[i]}
          /\ i < nextItem'
      BY <1>0, <1>1 DEF NewRow, Inserting, Items
    <2>1. CASE j \in DOMAIN jobs
      <3>1. \/ /\ Owned(jobs[j]) /\ jobs'[j].item = jobs[j].item
               /\ jobs'[j].key \in {NoKey, jobs[j].key}
            \/ jobs'[j] = NewRow(k, i)
        BY <1>1, <2>1 DEF Owners, Inserting, AddOutcome
      <3>2. QED
        BY <1>0, <2>0, <2>1, <3>1, Typed DEF Owned, Keyed, Items
    <2>2. CASE j \notin DOMAIN jobs
      BY <1>1, <2>0, <2>2 DEF Inserting, AddOutcome, Owned, Keyed
    <2>3. QED
      BY <2>1, <2>2
  <1>2. CASE KeptRows
    <2>1. /\ j \in DOMAIN jobs /\ Owned(jobs[j]) /\ jobs'[j].item = jobs[j].item
          /\ jobs'[j].key \in {NoKey, jobs[j].key}
      BY <1>2 DEF KeptRows, Owners
    <2>2. QED
      BY <1>0, <2>1, Typed DEF Owned, Keyed, Items
  <1>3. QED
    BY <1>0, <1>1, <1>2, NextJobsOutcome

\* An execution, a snapshot or a requeue is new, or goes on with what it had.
LEMMA NextCopies ==
    ASSUME Known, Owners, [Next]_vars
    PROVE  /\ \A w \in Workers : \A s \in batch'[w] : Owned(s)
           /\ \A w \in Workers : exec'[w].phase # "idle" => Owned(exec'[w])
           /\ \A a \in Admins : admin'[a].phase = "enqueue" => Owned(admin'[a])
  <1> USE DEF Known
  <1>b. \A w \in Workers : \A s \in batch'[w] : Owned(s)
    <2>1. ASSUME NEW v \in Workers, Select(v) PROVE \A w \in Workers : \A s \in batch'[w] : Owned(s)
      <3>1. PICK S \in SUBSET FailedJobs :
               batch' = [batch EXCEPT ![v] = {SnapshotOf(j) : j \in S}]
        BY <2>1 DEF Select
      <3>2. \A j \in S : Owned(SnapshotOf(j))
        BY SnapshotOwned DEF FailedJobs
      <3>3. \A w \in Workers : \A s \in batch'[w] : s \in batch[w] \/ \E j \in S : s = SnapshotOf(j)
        BY <3>1 DEF TypeOK, ActorTypeOK
      <3>4. QED
        BY <3>2, <3>3 DEF Owners
    <2>2. ASSUME NEW v \in Workers, NEW S \in SUBSET batch[v], batch' = [batch EXCEPT ![v] = S]
          PROVE  \A w \in Workers : \A s \in batch'[w] : Owned(s)
      BY <2>2 DEF Owners, TypeOK, ActorTypeOK
    <2>3. ASSUME UNCHANGED batch PROVE \A w \in Workers : \A s \in batch'[w] : Owned(s)
      BY <2>3 DEF Owners
    <2>4. ASSUME NEW v \in Workers, RunnerStep(v)
          PROVE  \A w \in Workers : \A s \in batch'[w] : Owned(s)
      <3>1. CASE StartRunner(v) \/ ScanTick(v)
        <4>1. Select(v) \/ UNCHANGED batch
          BY <3>1 DEF StartRunner, ScanTick
        <4>2. QED
          BY <2>1, <2>3, <4>1
      <3>2. CASE MoveRow(v) \/ MoveRowFails(v)
        <4>1. PICK s \in batch[v] : batch' = [batch EXCEPT ![v] = batch[v] \ {s}]
          BY <3>2 DEF MoveRow, MoveRowFails
        <4>2. QED
          BY <2>2, <4>1
      <3>3. CASE Crash(v)
        BY <2>2, <3>3 DEF Crash
      <3>4. CASE \/ StartupRelease(v) \/ StartupPurge(v) \/ ReleaseTick(v) \/ Fetch(v)
                 \/ HandlerSucceeds(v) \/ CompleteHook(v) \/ HandlerFails(v) \/ FailHook(v)
        BY <2>3, <3>4 DEF StartupRelease, StartupPurge, ReleaseTick, Fetch, HandlerSucceeds,
                          CompleteHook, HandlerFails, FailHook
      <3>5. QED
        BY <2>4, <3>1, <3>2, <3>3, <3>4 DEF RunnerStep
    <2>5. ASSUME NEW a \in Admins, AdminStep(a) PROVE UNCHANGED batch
      BY <2>5 DEF AdminStep, RequeueRead, RequeueEnqueue, RequeueRefused, RequeueBook,
                  LocksCleanupRelease, LocksCleanupPurge
    <2>6. ASSUME Enqueue \/ DeleteDlqJob \/ RemoveJob \/ FailJobs \/ AddToDlq \/ UNCHANGED vars
          PROVE  UNCHANGED batch
      BY <2>6 DEF Enqueue, DeleteDlqJob, RemoveJob, FailJobs, AddToDlq, vars
    <2>7. QED
      BY <2>3, <2>4, <2>5, <2>6 DEF Next
  <1>e. \A w \in Workers : exec'[w].phase # "idle" => Owned(exec'[w])
    <2>0. exec \in [Workers -> Execution]
      BY DEF TypeOK, ActorTypeOK
    <2>1. ASSUME NEW v \in Workers, NEW e, exec' = [exec EXCEPT ![v] = e],
                 e.phase = "idle" \/ Owned(e)
          PROVE  \A w \in Workers : exec'[w].phase # "idle" => Owned(exec'[w])
      BY <2>0, <2>1 DEF Owners
    <2>2. Resting.phase = "idle"
      BY DEF Resting
    <2>3. ASSUME NEW v \in Workers, exec[v].phase = "running", NEW p \in {"completeHook", "failHook"}
          PROVE  Owned([exec[v] EXCEPT !.phase = p])
      BY <2>0, <2>3 DEF Owners, Owned, Keyed, Execution
    <2>4. ASSUME UNCHANGED exec PROVE \A w \in Workers : exec'[w].phase # "idle" => Owned(exec'[w])
      BY <2>4 DEF Owners
    <2>5. ASSUME NEW v \in Workers, RunnerStep(v)
          PROVE  \A w \in Workers : exec'[w].phase # "idle" => Owned(exec'[w])
      <3>1. CASE Fetch(v)
        <4>1. PICK j \in DOMAIN jobs :
                 exec' = [exec EXCEPT ![v] =
                   [phase |-> "running", job |-> j, key |-> jobs[j].key,
                    item |-> jobs[j].item, final |-> jobs[j].attempts + 1 >= MaxAttempts]]
          BY <3>1 DEF Fetch
        <4>2. Owned([phase |-> "running", job |-> j, key |-> jobs[j].key,
                     item |-> jobs[j].item, final |-> jobs[j].attempts + 1 >= MaxAttempts])
          BY DEF Owners, Owned, Keyed
        <4>3. QED
          BY <2>1, <4>1, <4>2
      <3>2. CASE HandlerSucceeds(v)
        BY <2>1, <2>2, <2>3, <3>2 DEF HandlerSucceeds
      <3>3. CASE HandlerFails(v)
        BY <2>1, <2>2, <2>3, <3>3 DEF HandlerFails
      <3>4. CASE CompleteHook(v) \/ FailHook(v) \/ Crash(v)
        BY <2>1, <2>2, <3>4 DEF CompleteHook, FailHook, Crash
      <3>5. CASE \/ StartRunner(v) \/ StartupRelease(v) \/ StartupPurge(v) \/ ScanTick(v)
                 \/ MoveRow(v) \/ MoveRowFails(v) \/ ReleaseTick(v)
        BY <2>4, <3>5 DEF StartRunner, StartupRelease, StartupPurge, ScanTick, MoveRow,
                          MoveRowFails, ReleaseTick
      <3>6. QED
        BY <2>5, <3>1, <3>2, <3>3, <3>4, <3>5 DEF RunnerStep
    <2>6. ASSUME NEW a \in Admins, AdminStep(a) PROVE UNCHANGED exec
      BY <2>6 DEF AdminStep, RequeueRead, RequeueEnqueue, RequeueRefused, RequeueBook,
                  LocksCleanupRelease, LocksCleanupPurge
    <2>7. ASSUME Enqueue \/ DeleteDlqJob \/ RemoveJob \/ FailJobs \/ AddToDlq \/ UNCHANGED vars
          PROVE  UNCHANGED exec
      BY <2>7 DEF Enqueue, DeleteDlqJob, RemoveJob, FailJobs, AddToDlq, vars
    <2>8. QED
      BY <2>4, <2>5, <2>6, <2>7 DEF Next
  <1>a. \A a \in Admins : admin'[a].phase = "enqueue" => Owned(admin'[a])
    <2>0. admin \in [Admins -> Operation]
      BY DEF TypeOK, ActorTypeOK
    <2>1. ASSUME NEW b \in Admins, NEW o, admin' = [admin EXCEPT ![b] = o],
                 o.phase # "enqueue" \/ Owned(o)
          PROVE  \A a \in Admins : admin'[a].phase = "enqueue" => Owned(admin'[a])
      BY <2>0, <2>1 DEF Owners
    <2>2. NoOperation.phase = "idle"
      BY DEF NoOperation
    <2>3. ASSUME NEW b \in Admins, NEW p \in {"book", "purge"},
                 admin' = [admin EXCEPT ![b].phase = p]
          PROVE  \A a \in Admins : admin'[a].phase = "enqueue" => Owned(admin'[a])
      BY <2>0, <2>3 DEF Owners, Operation
    <2>4. ASSUME UNCHANGED admin
          PROVE  \A a \in Admins : admin'[a].phase = "enqueue" => Owned(admin'[a])
      BY <2>4 DEF Owners
    <2>5. ASSUME NEW b \in Admins, AdminStep(b)
          PROVE  \A a \in Admins : admin'[a].phase = "enqueue" => Owned(admin'[a])
      <3>1. CASE RequeueRead(b)
        <4>1. PICK d \in DOMAIN dlq :
                 admin' = [admin EXCEPT ![b] = [phase |-> "enqueue", row |-> d,
                                                key |-> dlq[d].key, item |-> dlq[d].item]]
          BY <3>1 DEF RequeueRead
        <4>2. Owned([phase |-> "enqueue", row |-> d, key |-> dlq[d].key, item |-> dlq[d].item])
          BY DEF Owners, Owned, Keyed
        <4>3. QED
          BY <2>1, <4>1, <4>2
      <3>2. CASE RequeueEnqueue(b) \/ LocksCleanupRelease(b)
        BY <2>1, <2>2, <2>3, <3>2 DEF RequeueEnqueue, LocksCleanupRelease
      <3>3. CASE RequeueRefused(b) \/ RequeueBook(b) \/ LocksCleanupPurge(b)
        BY <2>1, <2>2, <3>3 DEF RequeueRefused, RequeueBook, LocksCleanupPurge
      <3>4. QED
        BY <2>5, <3>1, <3>2, <3>3 DEF AdminStep
    <2>6. ASSUME NEW w \in Workers, RunnerStep(w) PROVE UNCHANGED admin
      BY <2>6 DEF RunnerStep, StartRunner, StartupRelease, StartupPurge, ScanTick, MoveRow,
                  MoveRowFails, ReleaseTick, Fetch, HandlerSucceeds, CompleteHook,
                  HandlerFails, FailHook, Crash
    <2>7. ASSUME Enqueue \/ DeleteDlqJob \/ RemoveJob \/ FailJobs \/ AddToDlq \/ UNCHANGED vars
          PROVE  UNCHANGED admin
      BY <2>7 DEF Enqueue, DeleteDlqJob, RemoveJob, FailJobs, AddToDlq, vars
    <2>8. QED
      BY <2>4, <2>5, <2>6, <2>7 DEF Next
  <1>q. QED
    BY <1>b, <1>e, <1>a

LEMMA OwnersStep ==
    ASSUME Known, Owners, [Next]_vars
    PROVE  Owners'
  <1>0. TypeOK /\ TypeOK' /\ nextItem' \in Nat /\ nextItem' >= nextItem /\ nextItem \in Nat
    BY NextItemGrows, Typed, NextQueueStep, NextDlqStep, NextBatchStep, NextRunnerType,
       NextExecType, NextAdminType, NextCounterType
    DEF Known, TypeOK, ActorTypeOK, QueueStep, ExecTypeOK, AdminTypeOK
  <1>1. ASSUME NEW r, Owned(r), r.item \in Nat
        PROVE  r.item < nextItem' /\ Keyed(r)
    BY <1>0, <1>1 DEF Owned
  <1>2. ASSUME NEW d \in DOMAIN dlq' PROVE Owned(dlq[d])'
    <2>1. dlq'[d].item \in Nat
      BY <1>0, <1>2 DEF TypeOK, DlqTypeOK, DlqRow, Items
    <2>2. QED
      BY <1>1, <1>2, <2>1, NextDlqOwned DEF Owned, Keyed
  <1>3. ASSUME NEW w \in Workers, NEW s \in batch'[w] PROVE s.item < nextItem' /\ Keyed(s)
    <2>1. s.item \in Nat
      BY <1>0 DEF TypeOK, ActorTypeOK, Snapshot, Items
    <2>2. QED
      BY <1>1, <2>1, NextCopies
  <1>4. ASSUME NEW w \in Workers, exec'[w].phase # "idle" PROVE Owned(exec[w])'
    <2>1. exec'[w].item \in Nat
      BY <1>0, <1>4 DEF TypeOK, ActorTypeOK, Items
    <2>2. QED
      BY <1>1, <1>4, <2>1, NextCopies DEF Owned, Keyed
  <1>5. ASSUME NEW a \in Admins, admin'[a].phase = "enqueue" PROVE Owned(admin[a])'
    <2>1. admin'[a].item \in Nat
      BY <1>0, <1>5 DEF TypeOK, ActorTypeOK, Items
    <2>2. QED
      BY <1>1, <1>5, <2>1, NextCopies DEF Owned, Keyed
  <1>6. ASSUME NEW i \in done' \cup settled' PROVE i < nextItem'
    <2>1. i < nextItem /\ i \in Nat
      BY <1>0, NextSettled DEF TypeOK, CounterTypeOK, Items
    <2>2. QED
      BY <1>0, <2>1
  <1>7. QED
    BY <1>2, <1>3, <1>4, <1>5, <1>6, JobsOwned DEF Owners, Owned, Keyed

\* A step that leaves a running handler its row leaves it the lock.
LEMMA LocksStay ==
    ASSUME Known, Owners, Holding, [Next]_vars,
           NEW w \in Workers, exec[w].phase = "running", exec'[w] = exec[w],
           exec[w].job \in DOMAIN jobs, exec[w].job \in DOMAIN jobs'
    PROVE  jobs'[exec[w].job].lockedBy = w
  <1> DEFINE x == exec[w].job
  <1>0. /\ TypeOK /\ jobs[x] \in JobRow /\ jobs[x].lockedBy = w /\ w # NoWorker
        /\ exec \in [Workers -> Execution]
    BY Typed, DeadLetterAssumption DEF Known, Holding, TypeOK, ActorTypeOK
  <1>f. ~Available(x) /\ ~Orphaned(x)
    BY <1>0 DEF Available, Orphaned
  <1>1. ASSUME NEW k, NEW i, AddOutcome(k, i) PROVE jobs'[x].lockedBy = w
    BY <1>0, <1>1, <1>f DEF AddOutcome
  <1>2. ASSUME NEW ids, jobs' = Delete(jobs, ids) PROVE jobs'[x].lockedBy = w
    BY <1>0, <1>2, DeleteKeeps
  <1>3. ASSUME ReleaseStaleJobLocks PROVE jobs'[x].lockedBy = w
    BY <1>0, <1>3, <1>f, ReleaseKeeps
  <1>4. ASSUME UNCHANGED jobs PROVE jobs'[x].lockedBy = w
    BY <1>0, <1>4
  <1>5. ASSUME NEW j \in DOMAIN jobs, jobs[j].lockedBy # w,
               \/ \E v \in Workers : jobs' = [jobs EXCEPT ![j].attempts = @ + 1, ![j].lockedBy = v]
               \/ jobs' = [jobs EXCEPT ![j].lockedBy = NoWorker]
               \/ jobs' = [jobs EXCEPT ![j].attempts = MaxAttempts]
        PROVE  jobs'[x].lockedBy = w
    BY <1>0, <1>5, EditKeeps
  <1>s. ASSUME NEW j \in DOMAIN jobs, jobs' = [jobs EXCEPT ![j] = Keyless(jobs[j], MaxAttempts)]
        PROVE  jobs'[x].lockedBy = w
    BY <1>0, <1>s, StripKeeps
  <1> HIDE DEF x
  <1>6. ASSUME NEW v \in Workers, RunnerStep(v) PROVE jobs'[x].lockedBy = w
    <2>1. CASE MoveRow(v)
      BY <1>2, <1>4, <2>1 DEF MoveRow
    <2>2. CASE StartupRelease(v)
      BY <1>3, <1>4, <2>2 DEF StartupRelease
    <2>3. CASE StartupPurge(v)
      BY <1>2, <1>4, <2>3 DEF StartupPurge, CleanupPermanentlyFailed
    <2>4. CASE ReleaseTick(v)
      BY <1>3, <2>4 DEF ReleaseTick
    <2>5. CASE Fetch(v)
      <3>1. PICK j \in DOMAIN jobs :
              /\ Available(j)
              /\ jobs' = [jobs EXCEPT ![j].attempts = @ + 1, ![j].lockedBy = v]
        BY <2>5 DEF Fetch
      <3>2. jobs[j].lockedBy # w
        BY <1>0, <3>1 DEF Available
      <3>3. QED
        BY <1>5, <3>1, <3>2
    <2>6. CASE HandlerSucceeds(v)
      BY <1>2, <2>6 DEF HandlerSucceeds
    <2>7. CASE HandlerFails(v)
      <3>1. CASE UNCHANGED jobs
        BY <1>4, <3>1
      <3>2. CASE /\ exec[v].job \in DOMAIN jobs /\ jobs[exec[v].job].lockedBy = v
                 /\ jobs' = [jobs EXCEPT ![exec[v].job].lockedBy = NoWorker]
        <4>1. v # w
          <5>1. ASSUME v = w PROVE exec'[w] # exec[w]
            <6>1. PICK retryable \in BOOLEAN :
                     exec' = [exec EXCEPT ![w] = IF retryable \/ exec[w].final THEN Resting
                                                 ELSE [exec[w] EXCEPT !.phase = "failHook"]]
              BY <2>7, <5>1 DEF HandlerFails
            <6>2. exec'[w].phase # "running"
              BY <1>0, <6>1 DEF Resting, Execution
            <6>3. QED
              BY <6>2
          <5>2. QED
            BY <5>1
        <4>2. QED
          BY <1>5, <3>2, <4>1
      <3>3. QED
        BY <2>7, <3>1, <3>2 DEF HandlerFails
    <2>8. CASE FailHook(v)
      <3>1. CASE UNCHANGED jobs
        BY <1>4, <3>1
      <3>2. CASE /\ exec[v].job \in DOMAIN jobs /\ Available(exec[v].job)
                 /\ jobs' = [jobs EXCEPT ![exec[v].job].attempts = MaxAttempts]
        <4>1. jobs[exec[v].job].lockedBy # w
          BY <1>0, <3>2 DEF Available
        <4>2. QED
          BY <1>5, <3>2, <4>1
      <3>3. QED
        BY <2>8, <3>1, <3>2 DEF FailHook
    <2>9. CASE \/ StartRunner(v) \/ ScanTick(v) \/ MoveRowFails(v) \/ CompleteHook(v) \/ Crash(v)
      BY <1>4, <2>9 DEF StartRunner, ScanTick, MoveRowFails, CompleteHook, Crash, queueTable
    <2>10. QED
      BY <1>6, <2>1, <2>2, <2>3, <2>4, <2>5, <2>6, <2>7, <2>8, <2>9 DEF RunnerStep
  <1>7. ASSUME NEW a \in Admins,
               \/ RequeueRead(a) \/ RequeueRefused(a) \/ RequeueBook(a)
               \/ LocksCleanupRelease(a) \/ LocksCleanupPurge(a)
        PROVE  jobs'[x].lockedBy = w
    BY <1>2, <1>3, <1>4, <1>7
    DEF RequeueRead, RequeueRefused, RequeueBook, LocksCleanupRelease, LocksCleanupPurge,
        CleanupPermanentlyFailed, queueTable
  <1>8. ASSUME RemoveJob PROVE jobs'[x].lockedBy = w
    BY <1>2, <1>s, <1>8 DEF RemoveJob
  <1>9. ASSUME DeleteDlqJob \/ AddToDlq \/ UNCHANGED vars PROVE jobs'[x].lockedBy = w
    BY <1>4, <1>9 DEF DeleteDlqJob, AddToDlq, vars, queueTable
  <1>10. ASSUME FailJobs PROVE jobs'[x].lockedBy = w
    <2>1. PICK j \in DOMAIN jobs :
             jobs[j].lockedBy = NoWorker /\ jobs' = [jobs EXCEPT ![j].attempts = MaxAttempts]
      BY <1>10 DEF FailJobs
    <2>2. QED
      BY <1>0, <1>5, <2>1
  <1>11. ASSUME Enqueue \/ \E a \in Admins : RequeueEnqueue(a) PROVE jobs'[x].lockedBy = w
    <2>1. CASE Enqueue
      <3>1. /\ nextItem \in Items /\ KeyOf[nextItem] \in AnyKey
            /\ AddJob(KeyOf[nextItem], nextItem)
        BY <1>0, <2>1, DeadLetterAssumption DEF Enqueue, TypeOK, CounterTypeOK, Items, AnyKey
      <3>2. QED
        BY <1>0, <1>1, <3>1, AddJobOutcome
    <2>2. CASE \E a \in Admins : RequeueEnqueue(a)
      <3>1. PICK a \in Admins : RequeueEnqueue(a)
        BY <2>2
      <3>2. /\ admin[a].item \in Items /\ admin[a].key \in AnyKey
            /\ AddJob(admin[a].key, admin[a].item)
        BY <1>0, <3>1 DEF RequeueEnqueue, TypeOK, ActorTypeOK, Operation
      <3>3. QED
        BY <1>0, <1>1, <3>2, AddJobOutcome
    <2>3. QED
      BY <1>11, <2>1, <2>2
  <1>12. QED
    BY <1>6, <1>7, <1>8, <1>9, <1>10, <1>11 DEF Next, AdminStep, x

LEMMA HoldingStep ==
    ASSUME Known, Owners, Holding, [Next]_vars
    PROVE  Holding'
  <1>0. /\ TypeOK /\ exec \in [Workers -> Execution]
        /\ runner \in [Workers -> {"down", "premove", "purge", "up"}]
        /\ nextJob \in Nat /\ nextJob' \in Nat /\ nextJob' >= nextJob /\ RowsStay
    BY NextQueueStep, Typed DEF Known, TypeOK, ActorTypeOK, QueueStep, JobsTypeOK
  <1> SUFFICES ASSUME NEW w \in Workers
               PROVE  /\ exec'[w].phase # "idle" => runner'[w] = "up" /\ exec'[w].job < nextJob'
                      /\ exec'[w].phase = "running" /\ exec'[w].job \in DOMAIN jobs' =>
                            /\ jobs'[exec'[w].job].lockedBy = w
                            /\ jobs'[exec'[w].job].item = exec'[w].item
    BY DEF Holding
  <1> DEFINE Goal == /\ exec'[w].phase # "idle" => runner'[w] = "up" /\ exec'[w].job < nextJob'
                     /\ exec'[w].phase = "running" /\ exec'[w].job \in DOMAIN jobs' =>
                           /\ jobs'[exec'[w].job].lockedBy = w
                           /\ jobs'[exec'[w].job].item = exec'[w].item
  <1>1. ASSUME exec'[w] = exec[w], exec[w].phase # "idle" => runner'[w] = runner[w] PROVE Goal
    <2>1. exec[w].job \in Nat
      BY <1>0 DEF Execution
    <2>2. exec'[w].phase # "idle" => runner'[w] = "up" /\ exec'[w].job < nextJob'
      BY <1>0, <1>1, <2>1 DEF Holding
    <2>3. ASSUME exec[w].phase = "running", exec[w].job \in DOMAIN jobs'
          PROVE  /\ jobs'[exec[w].job].lockedBy = w
                 /\ jobs'[exec[w].job].item = exec[w].item
      <3>1. exec[w].job \in DOMAIN jobs
        <4>1. exec[w].job < nextJob
          BY <2>3 DEF Holding
        <4>2. QED
          BY <1>0, <2>1, <2>3, <4>1 DEF RowsStay
      <3>2. jobs'[exec[w].job].item = jobs[exec[w].job].item
        <4>1. /\ jobs[exec[w].job].lockedBy = w /\ w # NoWorker
              /\ ~Available(exec[w].job)
          BY <2>3, <3>1, DeadLetterAssumption DEF Holding, Available
        <4>2. QED
          BY <1>0, <2>3, <3>1, <4>1, NextJobsOutcome DEF Inserting, AddOutcome, KeptRows
      <3>3. QED
        BY <1>1, <2>3, <3>1, <3>2, LocksStay DEF Holding
    <2>4. QED
      BY <1>1, <2>2, <2>3
  <1>2. ASSUME exec'[w].phase = "idle" PROVE Goal
    BY <1>2
  <1>3. Resting.phase = "idle"
    BY DEF Resting
  <1>4. ASSUME NEW v \in Workers, RunnerStep(v) PROVE Goal
    <2>1. CASE StartRunner(v)
      BY <1>0, <1>1, <2>1 DEF StartRunner, Holding
    <2>2. CASE StartupRelease(v) \/ StartupPurge(v)
      BY <1>0, <1>1, <2>2 DEF StartupRelease, StartupPurge, Holding
    <2>3. CASE Fetch(v)
      <3>1. CASE v = w
        <4>1. PICK j \in DOMAIN jobs :
                /\ jobs' = [jobs EXCEPT ![j].attempts = @ + 1, ![j].lockedBy = w]
                /\ exec' = [exec EXCEPT ![w] =
                     [phase |-> "running", job |-> j, key |-> jobs[j].key,
                      item |-> jobs[j].item, final |-> jobs[j].attempts + 1 >= MaxAttempts]]
          BY <2>3, <3>1 DEF Fetch
        <4>2. exec'[w].job = j /\ exec'[w].item = jobs[j].item
          BY <1>0, <4>1
        <4>3. j < nextJob' /\ runner'[w] = "up"
          BY <1>0, <2>3, <3>1, Typed DEF Fetch
        <4>4. jobs'[j].lockedBy = w /\ jobs'[j].item = jobs[j].item
          BY <1>0, <4>1, Typed DEF JobRow
        <4>5. QED
          BY <4>2, <4>3, <4>4
      <3>2. CASE v # w
        BY <1>0, <1>1, <2>3, <3>2 DEF Fetch
      <3>3. QED
        BY <3>1, <3>2
    <2>4. CASE HandlerSucceeds(v)
      <3>1. CASE v = w
        <4>1. exec'[w] = Resting \/ exec'[w] = [exec[w] EXCEPT !.phase = "completeHook"]
          BY <1>0, <2>4, <3>1 DEF HandlerSucceeds
        <4>2. UNCHANGED <<runner, nextJob>> /\ exec[w].phase = "running"
          BY <2>4, <3>1 DEF HandlerSucceeds
        <4>3. exec'[w].phase # "running" /\ (exec'[w].phase # "idle" => exec'[w].job = exec[w].job)
          BY <1>0, <1>3, <4>1 DEF Execution
        <4>4. QED
          BY <4>2, <4>3 DEF Holding
      <3>2. CASE v # w
        BY <1>0, <1>1, <2>4, <3>2 DEF HandlerSucceeds
      <3>3. QED
        BY <3>1, <3>2
    <2>5. CASE HandlerFails(v)
      <3>1. CASE v = w
        <4>1. exec'[w] = Resting \/ exec'[w] = [exec[w] EXCEPT !.phase = "failHook"]
          BY <1>0, <2>5, <3>1 DEF HandlerFails
        <4>2. UNCHANGED <<runner, nextJob>> /\ exec[w].phase = "running"
          BY <2>5, <3>1 DEF HandlerFails
        <4>3. exec'[w].phase # "running" /\ (exec'[w].phase # "idle" => exec'[w].job = exec[w].job)
          BY <1>0, <1>3, <4>1 DEF Execution
        <4>4. QED
          BY <4>2, <4>3 DEF Holding
      <3>2. CASE v # w
        BY <1>0, <1>1, <2>5, <3>2 DEF HandlerFails
      <3>3. QED
        BY <3>1, <3>2
    <2>6. CASE CompleteHook(v) \/ FailHook(v) \/ Crash(v)
      <3>1. CASE v = w
        BY <1>0, <1>2, <1>3, <2>6, <3>1 DEF CompleteHook, FailHook, Crash
      <3>2. CASE v # w
        BY <1>0, <1>1, <2>6, <3>2 DEF CompleteHook, FailHook, Crash
      <3>3. QED
        BY <3>1, <3>2
    <2>7. CASE ScanTick(v) \/ MoveRow(v) \/ MoveRowFails(v) \/ ReleaseTick(v)
      BY <1>1, <2>7 DEF ScanTick, MoveRow, MoveRowFails, ReleaseTick
    <2>8. QED
      BY <1>4, <2>1, <2>2, <2>3, <2>4, <2>5, <2>6, <2>7 DEF RunnerStep
  <1>5. ASSUME NEW a \in Admins, AdminStep(a) PROVE Goal
    BY <1>1, <1>5 DEF AdminStep, RequeueRead, RequeueEnqueue, RequeueRefused, RequeueBook,
                      LocksCleanupRelease, LocksCleanupPurge
  <1>6. ASSUME Enqueue \/ DeleteDlqJob \/ RemoveJob \/ FailJobs \/ AddToDlq \/ UNCHANGED vars
        PROVE  Goal
    BY <1>1, <1>6 DEF Enqueue, DeleteDlqJob, RemoveJob, FailJobs, AddToDlq, vars
  <1>7. QED
    BY <1>4, <1>5, <1>6 DEF Next

\* How a row leaves _private_jobs: captured, purged, or with its payload settled.
Purging ==
    \/ \E w \in Workers : runner[w] = "purge" /\ runner'[w] = "up"
    \/ \E a \in Admins : admin[a].phase = "purge" /\ admin'[a].phase = "idle"
Gone(j) ==
    \/ \E w \in Workers : \E s \in batch[w] : s.job = j /\ UpsertDlq(s)
    \/ Purging /\ Exhausted(j) /\ jobs[j].lockedBy = NoWorker
    \/ jobs[j].item \in done' \cup settled'

LEMMA RowLeaves ==
    ASSUME Known, Owners, Holding, [Next]_vars, NEW j \in DOMAIN jobs, j \notin DOMAIN jobs'
    PROVE  Gone(j)
  <1>0. TypeOK /\ runner \in [Workers -> {"down", "premove", "purge", "up"}]
        /\ admin \in [Admins -> Operation]
    BY DEF Known, TypeOK, ActorTypeOK
  <1>1. ASSUME NEW ids, jobs' = Delete(jobs, ids) PROVE j \in ids
    BY <1>1, DeleteKeeps
  <1>2. ASSUME DOMAIN jobs \subseteq DOMAIN jobs' PROVE FALSE
    BY <1>2
  <1>3. ASSUME NEW w \in Workers, RunnerStep(w) PROVE Gone(j)
    <2>1. CASE MoveRow(w)
      <3>1. PICK s \in batch[w] : \/ jobs' = Delete(jobs, {s.job}) /\ UpsertDlq(s)
                                  \/ UNCHANGED jobs
        BY <2>1 DEF MoveRow
      <3>2. jobs' = Delete(jobs, {s.job}) /\ UpsertDlq(s)
        BY <1>2, <3>1
      <3>3. QED
        BY <1>1, <3>2 DEF Gone
    <2>2. CASE StartupPurge(w)
      <3>1. runner[w] = "purge" /\ runner'[w] = "up"
        BY <1>0, <2>2 DEF StartupPurge
      <3>2. CleanupPermanentlyFailed
        BY <1>2, <2>2 DEF StartupPurge
      <3>3. QED
        BY <1>1, <3>1, <3>2 DEF CleanupPermanentlyFailed, Gone, Purging
    <2>3. CASE HandlerSucceeds(w)
      <3>1. jobs' = Delete(jobs, {exec[w].job}) /\ exec[w].item \in done'
            /\ exec[w].phase = "running"
        BY <2>3 DEF HandlerSucceeds
      <3>2. j = exec[w].job
        BY <1>1, <3>1
      <3>3. QED
        BY <3>1, <3>2 DEF Holding, Gone
    <2>4. CASE Fetch(w) \/ HandlerFails(w) \/ FailHook(w)
      BY <1>2, <2>4 DEF Fetch, HandlerFails, FailHook
    <2>5. CASE StartupRelease(w) \/ ReleaseTick(w)
      BY <1>0, <1>2, <2>5, ReleaseKeeps DEF StartupRelease, ReleaseTick
    <2>6. CASE \/ StartRunner(w) \/ ScanTick(w) \/ MoveRowFails(w) \/ CompleteHook(w) \/ Crash(w)
      BY <1>2, <2>6 DEF StartRunner, ScanTick, MoveRowFails, CompleteHook, Crash, queueTable
    <2>7. QED
      BY <1>3, <2>1, <2>2, <2>3, <2>4, <2>5, <2>6 DEF RunnerStep
  <1>4. ASSUME NEW a \in Admins, LocksCleanupPurge(a) PROVE Gone(j)
    <2>1. admin[a].phase = "purge" /\ admin'[a].phase = "idle"
      BY <1>0, <1>4 DEF LocksCleanupPurge, NoOperation
    <2>2. CleanupPermanentlyFailed
      BY <1>2, <1>4 DEF LocksCleanupPurge
    <2>3. QED
      BY <1>1, <2>1, <2>2 DEF CleanupPermanentlyFailed, Gone, Purging
  <1>5. ASSUME NEW a \in Admins,
               RequeueRead(a) \/ RequeueRefused(a) \/ RequeueBook(a) \/ LocksCleanupRelease(a)
        PROVE  Gone(j)
    BY <1>0, <1>2, <1>5, ReleaseKeeps
    DEF RequeueRead, RequeueRefused, RequeueBook, LocksCleanupRelease, queueTable
  <1>6. ASSUME Enqueue \/ \E a \in Admins : RequeueEnqueue(a) PROVE Gone(j)
    <2>1. CASE Enqueue
      <3>1. /\ nextItem \in Items /\ KeyOf[nextItem] \in AnyKey
            /\ AddJob(KeyOf[nextItem], nextItem)
        BY <1>0, <2>1, DeadLetterAssumption DEF Enqueue, TypeOK, CounterTypeOK, Items, AnyKey
      <3>2. QED
        BY <1>0, <1>2, <3>1, AddJobOutcome DEF AddOutcome
    <2>2. CASE \E a \in Admins : RequeueEnqueue(a)
      <3>1. PICK a \in Admins : RequeueEnqueue(a)
        BY <2>2
      <3>2. /\ admin[a].item \in Items /\ admin[a].key \in AnyKey
            /\ AddJob(admin[a].key, admin[a].item)
        BY <1>0, <3>1 DEF RequeueEnqueue, TypeOK, ActorTypeOK, Operation
      <3>3. QED
        BY <1>0, <1>2, <3>2, AddJobOutcome DEF AddOutcome
    <2>3. QED
      BY <1>6, <2>1, <2>2
  <1>7. ASSUME RemoveJob PROVE Gone(j)
    <2>1. PICK x \in DOMAIN jobs :
            /\ jobs' = Delete(jobs, {x}) \/ jobs' = [jobs EXCEPT ![x] = Keyless(jobs[x], MaxAttempts)]
            /\ jobs[x].item \in settled'
      BY <1>7 DEF RemoveJob
    <2>2. QED
      BY <1>1, <1>2, <2>1 DEF Gone
  <1>8. ASSUME FailJobs \/ DeleteDlqJob \/ AddToDlq \/ UNCHANGED vars PROVE Gone(j)
    BY <1>2, <1>8 DEF FailJobs, DeleteDlqJob, AddToDlq, vars, queueTable
  <1>9. QED
    BY <1>3, <1>4, <1>5, <1>6, <1>7, <1>8 DEF Next, AdminStep

LEMMA EditDlqKeeps ==
    ASSUME TypeOK, NEW d \in DOMAIN dlq,
           \/ \E o : dlq' = [dlq EXCEPT ![d].origin = o, ![d].failures = @ + 1]
           \/ dlq' = [dlq EXCEPT ![d].requeued = @ + 1]
    PROVE  DOMAIN dlq' = DOMAIN dlq /\ \A e \in DOMAIN dlq : dlq'[e].item = dlq[e].item
  <1>1. dlq[d] \in DlqRow
    BY DEF TypeOK, DlqTypeOK
  <1>2. dlq'[d].item = dlq[d].item /\ \A e \in DOMAIN dlq \ {d} : dlq'[e] = dlq[e]
    BY <1>1 DEF DlqRow
  <1>3. QED
    BY <1>2

\* How a row leaves backfill_dlq: by the hook of a success under its key, or dismissed.
LEMMA DlqRowLeaves ==
    ASSUME Known, [Next]_vars, NEW d \in DOMAIN dlq
    PROVE  \/ d \in DOMAIN dlq' /\ dlq'[d].item = dlq[d].item
           \/ dlq[d].item \in settled'
           \/ \E w \in Workers :
                 /\ exec[w].phase = "completeHook" /\ exec'[w].phase = "idle"
                 /\ d \in RowsForKey(exec[w].key)
                 /\ dlq[d].item <= exec[w].item => dlq[d].item \in settled'
  <1> USE DEF Known
  <1> DEFINE Stays == d \in DOMAIN dlq' /\ dlq'[d].item = dlq[d].item
  <1>0. \A x \in DOMAIN dlq : x < nextDlq /\ nextDlq \in Nat
    BY DEF TypeOK, DlqTypeOK
  <1>1. ASSUME UNCHANGED dlq PROVE Stays
    BY <1>1
  <1>2. ASSUME NEW s, UpsertDlq(s) PROVE Stays
    <2>1. CASE \E e \in RowsForKey(s.key) :
                  dlq' = [dlq EXCEPT ![e].origin = s.job, ![e].failures = @ + 1]
      BY <2>1, EditDlqKeeps DEF RowsForKey
    <2>2. CASE \E r : dlq' = Put(dlq, nextDlq, r)
      BY <1>0, <2>2 DEF Put
    <2>3. QED
      BY <1>2, <2>1, <2>2 DEF UpsertDlq
  <1>3. ASSUME NEW w \in Workers, MoveRow(w) PROVE Stays
    BY <1>1, <1>2, <1>3 DEF MoveRow, dlqTable
  <1>4. ASSUME AddToDlq PROVE Stays
    BY <1>2, <1>4 DEF AddToDlq
  <1>5. ASSUME NEW a \in Admins, RequeueBook(a) PROVE Stays
    BY <1>1, <1>5, EditDlqKeeps DEF RequeueBook
  <1>6. ASSUME DeleteDlqJob PROVE Stays \/ dlq[d].item \in settled'
    BY <1>6 DEF DeleteDlqJob, Delete, Restrict
  <1>7. ASSUME NEW w \in Workers, CompleteHook(w), ~Stays
        PROVE  /\ exec[w].phase = "completeHook" /\ exec'[w].phase = "idle"
               /\ d \in RowsForKey(exec[w].key)
               /\ dlq[d].item <= exec[w].item => dlq[d].item \in settled'
    <2>1. exec[w].phase = "completeHook" /\ exec'[w].phase = "idle"
      BY <1>7 DEF CompleteHook, Resting, TypeOK, ActorTypeOK
    <2>2. /\ dlq' = Delete(dlq, RowsForKey(exec[w].key))
          /\ settled' = settled \cup
               {dlq[e].item : e \in {r \in RowsForKey(exec[w].key) : dlq[r].item <= exec[w].item}}
      BY <1>1, <1>7 DEF CompleteHook
    <2>3. d \in RowsForKey(exec[w].key)
      BY <1>7, <2>2 DEF Delete, Restrict
    <2>4. QED
      BY <2>1, <2>2, <2>3
  <1> HIDE DEF Stays
  <1>8. ASSUME NEW w \in Workers, RunnerStep(w), ~MoveRow(w), ~CompleteHook(w) PROVE Stays
    BY <1>1, <1>8 DEF RunnerStep, StartRunner, StartupRelease, StartupPurge, ScanTick, MoveRowFails,
                ReleaseTick, Fetch, HandlerSucceeds, HandlerFails, FailHook, Crash, dlqTable
  <1>9. ASSUME NEW a \in Admins, AdminStep(a), ~RequeueBook(a) PROVE Stays
    BY <1>1, <1>9 DEF AdminStep, RequeueRead, RequeueEnqueue, RequeueRefused, LocksCleanupRelease,
                LocksCleanupPurge, dlqTable
  <1>10. ASSUME Enqueue \/ RemoveJob \/ FailJobs \/ UNCHANGED vars PROVE Stays
    BY <1>1, <1>10 DEF Enqueue, RemoveJob, FailJobs, vars, dlqTable
  <1>11. Stays \/ dlq[d].item \in settled' \/ \E w \in Workers : CompleteHook(w) /\ ~Stays
    BY <1>3, <1>4, <1>5, <1>6, <1>8, <1>9, <1>10 DEF Next
  <1>12. QED
    BY <1>7, <1>11 DEF Stays

\* A payload whose row leaves unsettled was purged, or met the DLQ row of its key, or
\* its DLQ row went with the success of an earlier payload of its key.
LEMMA LossStep ==
    ASSUME Known, Owners, Holding, [Next]_vars, NEW i \in 1..(nextItem - 1), There(i), ~There(i)'
    PROVE  Purged(i) \/ Overruled(i) \/ Hooked(i)
  <1> USE DEF Known
  <1>1. i \notin done' \cup settled' /\ i \notin done \cup settled
    BY NextSettled DEF There, Settled
  <1>2. \A j \in DOMAIN jobs' : jobs'[j].item # i
    BY DEF There, Queued
  <1>3. \A d \in DOMAIN dlq' : dlq'[d].item # i
    BY DEF There, Kept
  <1>4. ASSUME NEW j \in DOMAIN jobs, jobs[j].item = i PROVE Purged(i) \/ Overruled(i)
    <2>1. j \notin DOMAIN jobs'
      <3>1. ASSUME NEW k, NEW n, Inserting(k, n) PROVE FALSE
        BY <1>1, <1>2, <1>4, <3>1 DEF Inserting, AddOutcome
      <3>2. KeptRows
        BY <3>1, NextJobsOutcome
      <3>3. QED
        BY <1>2, <1>4, <3>2 DEF KeptRows
    <2>2. CASE Purging /\ Exhausted(j) /\ jobs[j].lockedBy = NoWorker
      BY <1>4, <2>1, <2>2 DEF Purged, Purging
    <2>3. ASSUME NEW w \in Workers, NEW s \in batch[w], s.job = j, UpsertDlq(s) PROVE Overruled(i)
      <3>1. s.item = i /\ s.key \in {NoKey, KeyOf[i]}
        BY <1>4, <2>3 DEF SnapshotsStable, Owners, Owned, Keyed
      <3>2. nextDlq \notin DOMAIN dlq
        BY DEF TypeOK, DlqTypeOK
      <3>3. \A r : r.item = i => dlq' # Put(dlq, nextDlq, r)
        BY <1>3 DEF Put
      <3>4. PICK d \in RowsForKey(s.key) :
              dlq' = [dlq EXCEPT ![d].origin = s.job, ![d].failures = @ + 1]
        BY <2>3, <3>1, <3>3 DEF UpsertDlq
      <3>5. d \in DOMAIN dlq /\ d \in DOMAIN dlq' /\ dlq[d] \in DlqRow
            /\ dlq[d].key = s.key /\ s.key # NoKey
        BY <3>4 DEF RowsForKey, TypeOK, DlqTypeOK
      <3>6. dlq'[d].origin = j /\ dlq'[d].failures = dlq[d].failures + 1
        BY <2>3, <3>4, <3>5 DEF DlqRow
      <3>7. Touched(d)
        BY <3>5, <3>6 DEF Touched, DlqRow
      <3>8. QED
        BY <1>4, <3>1, <3>5, <3>6, <3>7 DEF Overruled
    <2>4. Gone(j)
      BY <2>1, RowLeaves
    <2>5. QED
      BY <1>1, <1>4, <2>2, <2>3, <2>4 DEF Gone
  <1>5. ASSUME NEW d \in DOMAIN dlq, dlq[d].item = i PROVE Hooked(i)
    <2>1. PICK w \in Workers :
             /\ exec[w].phase = "completeHook" /\ exec'[w].phase = "idle"
             /\ d \in RowsForKey(exec[w].key)
             /\ ~(dlq[d].item <= exec[w].item)
      BY <1>1, <1>3, <1>5, DlqRowLeaves
    <2>2. exec[w].item \in Nat /\ i \in Nat
      BY <2>1, Typed DEF TypeOK, ActorTypeOK, Items
    <2>3. exec[w].item < i
      BY <1>5, <2>1, <2>2
    <2>4. exec[w].key = KeyOf[i]
      BY <1>5, <2>1 DEF RowsForKey, Owners, Owned, Keyed
    <2>5. QED
      BY <2>1, <2>3, <2>4 DEF Hooked
  <1>6. QED
    BY <1>1, <1>4, <1>5 DEF There, Settled, Queued, Kept

\* An accepted payload that is not settled is lost in three ways only, whatever the
\* environment does and whichever statements fail: a purge of its exhausted, unlocked
\* job; a capture that meets the DLQ row of its key; a hook of an earlier success.
THEOREM LossesKnown == Spec => KnownLossesOnly
  <1>1. Init => Owners /\ Holding /\ SnapshotsIssued
    BY DEF Init, Owners, Holding, SnapshotsIssued, EmptyTable, Resting, NoOperation
  <1>2. TypeOK /\ SnapshotsStable /\ SnapshotsIssued /\ Owners /\ Holding /\ [Next]_vars
        => SnapshotsIssued' /\ Owners' /\ Holding'
    <2>1. ASSUME TypeOK, SnapshotsIssued, [Next]_vars PROVE SnapshotsIssued'
      BY <2>1, SnapshotsIssuedStep
    <2>2. QED
      BY <2>1, OwnersStep, HoldingStep DEF Known
  <1>3. TypeOK /\ SnapshotsStable /\ SnapshotsIssued /\ Owners /\ Holding /\ [Next]_vars
        => \A i \in 1..(nextItem - 1) :
              There(i) /\ ~There(i)' => Purged(i) \/ Overruled(i) \/ Hooked(i)
    BY LossStep DEF Known
  <1>4. QED
    BY <1>1, <1>2, <1>3, TypeCorrect, SnapshotsAlwaysStable, PTL DEF Spec, KnownLossesOnly

=============================================================================
