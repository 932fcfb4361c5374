----------------------- MODULE DeadLetterDurableProofs -----------------------
(* Theorems about what becomes of a payload, for every number of admins,    *)
(* rows and payloads, in the environment in which none is lost.             *)
EXTENDS DeadLetterDurable, DeadLetterProofs, FiniteSetTheorems

\* One runner, no statement of the library that fails, no exhausting or purging from
\* outside, a scan that takes all there is, and no key that two payloads share.
SafeEnvironment ==
    /\ Env \subseteq {"operator", "manual_add"}
    /\ \A v, w \in Workers : v = w
    /\ BatchLimit >= MaxJobs
    /\ \A i, j \in Items : KeyOf[i] = KeyOf[j] /\ KeyOf[i] # NoKey => i = j

\* The DLQ row that names a job still in the queue has its payload.
Origins ==
    \A d \in DOMAIN dlq :
        /\ dlq[d].origin < nextJob
        /\ dlq[d].origin \in DOMAIN jobs => dlq[d].item = jobs[dlq[d].origin].item

\* During a startup every exhausted job is about to be moved, or its payload does not
\* depend on it.
Sheltered(i) ==
    \/ Settled(i) \/ Kept(i)
    \/ \E n \in DOMAIN jobs : jobs[n].item = i /\ jobs[n].attempts < MaxAttempts
Covered ==
    \A w \in Workers :
        /\ runner[w] = "purge" => batch[w] = {}
        /\ runner[w] \in {"premove", "purge"} =>
              \A j \in DOMAIN jobs :
                 jobs[j].attempts >= MaxAttempts =>
                    (\E s \in batch[w] : s.job = j) \/ Sheltered(jobs[j].item)

\* Rows are inserted up to the bound, and nobody is between the two statements of the
\* endpoint /locks/cleanup.
Bounded == /\ nextJob <= MaxJobs + 1
           /\ \A a \in Admins : admin[a].phase # "purge"

SafeInv == Owners /\ Holding /\ Origins /\ Bounded /\ Covered /\ NothingLost

-----------------------------------------------------------------------------
(* What the statements do to the payloads of the tables.                    *)

LEMMA SolePayload ==
    ASSUME SafeEnvironment, NEW r, NEW q, Keyed(r), Keyed(q), r.item \in Items, q.item \in Items,
           r.key = q.key, r.key # NoKey
    PROVE  r.item = q.item
  BY DEF SafeEnvironment, Keyed

\* add_job settles nothing, rewrites rows for the same payload, and leaves a row for
\* the payload that has attempts left.
AddEffect(k, i) ==
    /\ UNCHANGED settled
    /\ DOMAIN jobs \subseteq DOMAIN jobs'
    /\ \A j \in DOMAIN jobs : /\ jobs'[j].item = jobs[j].item
                              /\ jobs'[j].key \in {NoKey, jobs[j].key}
                              /\ jobs'[j].lockedBy = jobs[j].lockedBy
                              /\ jobs'[j].attempts >= MaxAttempts
                                   => jobs[j].attempts >= MaxAttempts \/ jobs[j].item = i
    /\ \A j \in DOMAIN jobs' \ DOMAIN jobs : j = nextJob /\ jobs'[j] = NewRow(k, i)
    /\ \E n \in DOMAIN jobs' : jobs'[n].item = i /\ jobs'[n].attempts < MaxAttempts

LEMMA AddJobEffect ==
    ASSUME SafeEnvironment, TypeOK, Owners, NEW k \in AnyKey, NEW i \in Items,
           k \in {NoKey, KeyOf[i]}, AddJob(k, i)
    PROVE  AddEffect(k, i)
  <1>1. /\ NewRow(k, i).item = i /\ NewRow(k, i).key = k
        /\ NewRow(k, i).attempts = 0 /\ NewRow(k, i).lockedBy = NoWorker /\ 0 < MaxAttempts
    BY DeadLetterAssumption DEF NewRow
  <1>2. Keyed(NewRow(k, i))
    BY <1>1 DEF Keyed
  <1>3. \A j \in Holders(k) : j \in DOMAIN jobs /\ jobs[j].key = k /\ k # NoKey /\ jobs[j].item = i
    BY <1>1, <1>2, Typed, SolePayload DEF Holders, Owners, Owned
  <1>4. nextJob \notin DOMAIN jobs
    BY Typed
  <1>5. CASE ReplaceInPlace(k, i)
    <2>1. PICK j \in Holders(k) :
            /\ jobs[j].lockedBy = NoWorker
            /\ jobs' = [jobs EXCEPT ![j] = NewRow(k, i)]
            /\ settled' = settled \cup ({jobs[j].item} \ {i})
      BY <1>5 DEF ReplaceInPlace, Available
    <2>2. UNCHANGED settled
      BY <1>3, <2>1
    <2>3. QED
      BY <1>1, <1>3, <2>1, <2>2 DEF AddEffect
  <1>6. CASE InsertBeside(k, i)
    <2>1. PICK j \in Holders(k) :
            /\ \E n \in {jobs[j].attempts, MaxAttempts} :
                  jobs' = Put([jobs EXCEPT ![j] = Keyless(jobs[j], n)],
                              nextJob, NewRow(k, i))
            /\ settled' = settled \cup ({jobs[j].item} \ {i})
      BY <1>6 DEF InsertBeside
    <2>2. PICK n \in {jobs[j].attempts, MaxAttempts} :
            jobs' = Put([jobs EXCEPT ![j] = Keyless(jobs[j], n)], nextJob, NewRow(k, i))
      BY <2>1
    <2>3. jobs[j] \in JobRow
      BY <1>3, Typed
    <2>4. /\ Keyless(jobs[j], n).item = jobs[j].item /\ Keyless(jobs[j], n).key = NoKey
          /\ Keyless(jobs[j], n).lockedBy = jobs[j].lockedBy
      BY <2>3 DEF Keyless, JobRow
    <2> DEFINE stripped == [jobs EXCEPT ![j] = Keyless(jobs[j], n)]
    <2>5. /\ DOMAIN stripped = DOMAIN jobs
          /\ \A x \in DOMAIN jobs :
                /\ stripped[x].item = jobs[x].item
                /\ stripped[x].key \in {NoKey, jobs[x].key}
                /\ stripped[x].lockedBy = jobs[x].lockedBy
                /\ x # j => stripped[x] = jobs[x]
      BY <1>3, <2>4
    <2>6. jobs' = Put(stripped, nextJob, NewRow(k, i))
      BY <2>2
    <2> HIDE DEF stripped
    <2>7. /\ DOMAIN jobs' = DOMAIN jobs \cup {nextJob}
          /\ jobs'[nextJob] = NewRow(k, i)
          /\ \A x \in DOMAIN jobs : jobs'[x] = stripped[x]
      BY <1>4, <2>5, <2>6 DEF Put
    <2>8. UNCHANGED settled
      BY <1>3, <2>1
    <2>9. QED
      BY <1>1, <1>3, <2>5, <2>7, <2>8 DEF AddEffect
  <1>7. CASE Insert(k, i)
    <2>1. /\ DOMAIN jobs' = DOMAIN jobs \cup {nextJob}
          /\ jobs'[nextJob] = NewRow(k, i)
          /\ \A x \in DOMAIN jobs : jobs'[x] = jobs[x]
          /\ UNCHANGED settled
      BY <1>4, <1>7 DEF Insert, Put
    <2>2. QED
      BY <1>1, <2>1 DEF AddEffect
  <1>8. QED
    BY <1>5, <1>6, <1>7 DEF AddJob

\* The upsert leaves a row with the payload of the snapshot, and every row with its own.
UpsertEffect(s) ==
    /\ DOMAIN dlq \subseteq DOMAIN dlq'
    /\ \A d \in DOMAIN dlq : dlq'[d].item = dlq[d].item /\ dlq'[d].key = dlq[d].key
    /\ \A d \in DOMAIN dlq' : \/ d \in DOMAIN dlq /\ dlq'[d].origin = dlq[d].origin
                              \/ dlq'[d].origin = s.job /\ dlq'[d].item = s.item
    /\ \A d \in DOMAIN dlq' \ DOMAIN dlq : dlq'[d].item = s.item /\ dlq'[d].key = s.key
    /\ \E d \in DOMAIN dlq' : dlq'[d].item = s.item

LEMMA UpsertDlqEffect ==
    ASSUME SafeEnvironment, TypeOK, Owners, NEW s \in Snapshot, Keyed(s), UpsertDlq(s)
    PROVE  UpsertEffect(s)
  <1>1. CASE \E d \in RowsForKey(s.key) :
                dlq' = [dlq EXCEPT ![d].origin = s.job, ![d].failures = @ + 1]
    <2>1. PICK d \in RowsForKey(s.key) :
             dlq' = [dlq EXCEPT ![d].origin = s.job, ![d].failures = @ + 1]
      BY <1>1
    <2>2. d \in DOMAIN dlq /\ dlq[d].key = s.key /\ s.key # NoKey /\ dlq[d] \in DlqRow
      BY DEF RowsForKey, TypeOK, DlqTypeOK
    <2>3. dlq[d].item = s.item
      BY <2>2, Typed, SolePayload DEF Owners, Owned, Snapshot
    <2> DEFINE r == [dlq[d] EXCEPT !.origin = s.job, !.failures = dlq[d].failures + 1]
    <2>4. r.origin = s.job /\ r.key = dlq[d].key /\ r.item = dlq[d].item
      BY <2>2 DEF DlqRow
    <2>5. dlq' = [dlq EXCEPT ![d] = r]
      BY <2>1 DEF TypeOK, DlqTypeOK
    <2> HIDE DEF r
    <2>6. QED
      BY <2>2, <2>3, <2>4, <2>5 DEF UpsertEffect
  <1>2. CASE dlq' = Put(dlq, nextDlq, [origin |-> s.job, key |-> s.key, item |-> s.item,
                                      failures |-> 1, requeued |-> 0])
    <2> DEFINE r == [origin |-> s.job, key |-> s.key, item |-> s.item,
                     failures |-> 1, requeued |-> 0]
    <2>1. r.origin = s.job /\ r.key = s.key /\ r.item = s.item
      OBVIOUS
    <2>2. dlq' = Put(dlq, nextDlq, r) /\ nextDlq \notin DOMAIN dlq
      BY <1>2 DEF TypeOK, DlqTypeOK
    <2> HIDE DEF r
    <2>3. /\ DOMAIN dlq' = DOMAIN dlq \cup {nextDlq} /\ dlq'[nextDlq] = r
          /\ \A d \in DOMAIN dlq : dlq'[d] = dlq[d]
      BY <2>2 DEF Put
    <2>4. QED
      BY <2>1, <2>3 DEF UpsertEffect
  <1>3. QED
    BY <1>1, <1>2 DEF UpsertDlq

\* What a step may do to the queue: add a job for a payload, with all else unchanged,
\* or keep and delete rows.
Adding(k, i) ==
    /\ k \in AnyKey /\ i \in Items /\ k \in {NoKey, KeyOf[i]} /\ i < nextItem'
    /\ AddEffect(k, i) /\ nextJob' >= nextJob
    /\ UNCHANGED <<dlqTable, runner, batch, exec, done>>
    /\ \/ i = nextItem /\ nextItem' = nextItem + 1 /\ UNCHANGED admin
       \/ /\ UNCHANGED nextItem
          /\ \E a \in Admins :
                /\ admin[a].phase = "enqueue" /\ admin[a].item = i
                /\ admin' = [admin EXCEPT ![a].phase = "book"]

LEMMA NextJobsEffect ==
    ASSUME SafeEnvironment, TypeOK, Owners, [Next]_vars
    PROVE  \/ \E k, i : Adding(k, i)
           \/ KeptRows /\ UNCHANGED <<nextJob, nextItem>>
  <1>0. ASSUME UNCHANGED <<queueTable, nextItem>> PROVE KeptRows /\ UNCHANGED <<nextJob, nextItem>>
    BY <1>0 DEF KeptRows, queueTable
  <1>1. ASSUME Enqueue PROVE \E k, i : Adding(k, i)
    <2>1. /\ nextItem \in Items /\ KeyOf[nextItem] \in AnyKey /\ nextItem' = nextItem + 1
          /\ AddJob(KeyOf[nextItem], nextItem)
      BY <1>1, DeadLetterAssumption DEF Enqueue, TypeOK, CounterTypeOK, Items, AnyKey
    <2>2. AddEffect(KeyOf[nextItem], nextItem)
      BY <2>1, AddJobEffect
    <2>3. nextJob' >= nextJob
      BY NextQueueStep DEF QueueStep
    <2>4. nextItem < nextItem'
      BY <2>1, Typed
    <2>5. Adding(KeyOf[nextItem], nextItem)
      BY <1>1, <2>1, <2>2, <2>3, <2>4 DEF Enqueue, Adding
    <2>6. QED
      BY <2>5
  <1>2. ASSUME NEW a \in Admins, RequeueEnqueue(a) PROVE \E k, i : Adding(k, i)
    <2>1. /\ admin[a].item \in Items /\ admin[a].key \in AnyKey /\ UNCHANGED nextItem
          /\ AddJob(admin[a].key, admin[a].item) /\ Owned(admin[a])
      BY <1>2 DEF RequeueEnqueue, bounds, TypeOK, ActorTypeOK, Operation, Owners
    <2>b. admin' = [admin EXCEPT ![a].phase = "book"] /\ admin[a].phase = "enqueue"
      BY <1>2 DEF RequeueEnqueue, SafeEnvironment
    <2>2. AddEffect(admin[a].key, admin[a].item)
      BY <2>1, AddJobEffect DEF Owned, Keyed
    <2>3. nextJob' >= nextJob
      BY NextQueueStep DEF QueueStep
    <2>4. Adding(admin[a].key, admin[a].item)
      BY <1>2, <2>1, <2>b, <2>2, <2>3 DEF RequeueEnqueue, Adding, Owned, Keyed
    <2>5. QED
      BY <2>4
  <1>3. ASSUME NEW w \in Workers, RunnerStep(w) PROVE KeptRows /\ UNCHANGED <<nextJob, nextItem>>
    <2>1. CASE MoveRow(w)
      BY <2>1, DeleteKeeps DEF MoveRow, KeptRows, bounds
    <2>2. CASE StartupRelease(w)
      BY <2>2, ReleaseKeeps DEF StartupRelease, KeptRows, bounds
    <2>3. CASE StartupPurge(w)
      BY <2>3, DeleteKeeps DEF StartupPurge, CleanupPermanentlyFailed, KeptRows, bounds
    <2>4. CASE ReleaseTick(w)
      BY <2>4, ReleaseKeeps DEF ReleaseTick, bounds
    <2>5. CASE Fetch(w)
      BY <2>5, EditKeeps DEF Fetch, bounds
    <2>6. CASE HandlerSucceeds(w)
      BY <2>6, DeleteKeeps DEF HandlerSucceeds, bounds
    <2>7. CASE HandlerFails(w)
      BY <2>7, EditKeeps DEF HandlerFails, KeptRows, bounds
    <2>8. CASE FailHook(w)
      BY <2>8, EditKeeps DEF FailHook, KeptRows, bounds
    <2>9. CASE \/ StartRunner(w) \/ ScanTick(w) \/ MoveRowFails(w) \/ CompleteHook(w) \/ Crash(w)
      BY <1>0, <2>9
      DEF StartRunner, ScanTick, MoveRowFails, CompleteHook, Crash, queueTable, bounds
    <2>10. QED
      BY <1>3, <2>1, <2>2, <2>3, <2>4, <2>5, <2>6, <2>7, <2>8, <2>9 DEF RunnerStep
  <1>4. ASSUME NEW a \in Admins,
               \/ RequeueRead(a) \/ RequeueRefused(a) \/ RequeueBook(a)
               \/ LocksCleanupRelease(a) \/ LocksCleanupPurge(a)
        PROVE  KeptRows /\ UNCHANGED <<nextJob, nextItem>>
    BY <1>0, <1>4, ReleaseKeeps, DeleteKeeps
    DEF RequeueRead, RequeueRefused, RequeueBook, LocksCleanupRelease, LocksCleanupPurge,
        CleanupPermanentlyFailed, KeptRows, queueTable, bounds
  <1>5. ASSUME RemoveJob \/ FailJobs PROVE KeptRows /\ UNCHANGED <<nextJob, nextItem>>
    BY <1>5, DeleteKeeps, EditKeeps, StripKeeps DEF RemoveJob, FailJobs, bounds
  <1>6. ASSUME DeleteDlqJob \/ AddToDlq \/ UNCHANGED vars
        PROVE  KeptRows /\ UNCHANGED <<nextJob, nextItem>>
    BY <1>0, <1>6 DEF DeleteDlqJob, AddToDlq, vars, queueTable, bounds
  <1>7. QED
    BY <1>1, <1>2, <1>3, <1>4, <1>5, <1>6 DEF Next, AdminStep

\* A row of the DLQ after a step is one of before, or takes its payload from a job.
FromDlq(d) == /\ d \in DOMAIN dlq
              /\ dlq'[d].item = dlq[d].item /\ dlq'[d].key = dlq[d].key
              /\ dlq'[d].origin = dlq[d].origin
FromJob(d) == /\ dlq'[d].origin \in DOMAIN jobs /\ dlq'[d].item = jobs[dlq'[d].origin].item
              /\ Owned(dlq'[d])

LEMMA UpsertKeeps ==
    ASSUME SafeEnvironment, TypeOK, Owners, NEW s \in Snapshot, Owned(s), UpsertDlq(s),
           s.job \in DOMAIN jobs, jobs[s.job].item = s.item
    PROVE  \A d \in DOMAIN dlq' : FromDlq(d) \/ FromJob(d)
  <1>1. UpsertEffect(s)
    BY UpsertDlqEffect DEF Owned
  <1> SUFFICES ASSUME NEW d \in DOMAIN dlq', ~FromDlq(d)
               PROVE  FromJob(d)
    OBVIOUS
  <1>2. dlq'[d].origin = s.job /\ dlq'[d].item = s.item
    BY <1>1 DEF UpsertEffect, FromDlq
  <1>3. Owned(dlq'[d])
    <2>1. CASE d \in DOMAIN dlq
      BY <1>1, <2>1 DEF UpsertEffect, Owners, Owned, Keyed
    <2>2. CASE d \notin DOMAIN dlq
      BY <1>1, <2>2 DEF UpsertEffect, Owned, Keyed
    <2>3. QED
      BY <2>1, <2>2
  <1>4. QED
    BY <1>2, <1>3 DEF FromJob

LEMMA NextDlqEffect ==
    ASSUME SafeEnvironment, Known, Owners, [Next]_vars
    PROVE  \A d \in DOMAIN dlq' : FromDlq(d) \/ FromJob(d)
  <1> USE DEF Known
  <1>0. ASSUME UNCHANGED dlqTable PROVE \A d \in DOMAIN dlq' : FromDlq(d)
    BY <1>0 DEF dlqTable, FromDlq
  <1>d. ASSUME NEW ids, dlq' = Delete(dlq, ids) PROVE \A d \in DOMAIN dlq' : FromDlq(d)
    BY <1>d DEF Delete, Restrict, FromDlq
  <1>1. ASSUME NEW w \in Workers, MoveRow(w)
        PROVE  \A d \in DOMAIN dlq' : FromDlq(d) \/ FromJob(d)
    <2>1. PICK s \in batch[w] :
             \/ s.job \in DOMAIN jobs /\ UpsertDlq(s)
             \/ UNCHANGED dlqTable
      BY <1>1 DEF MoveRow
    <2>2. s \in Snapshot /\ Owned(s) /\ (s.job \in DOMAIN jobs => jobs[s.job].item = s.item)
      BY DEF TypeOK, ActorTypeOK, Owners, SnapshotsStable
    <2>3. QED
      BY <1>0, <2>1, <2>2, UpsertKeeps
  <1>2. ASSUME AddToDlq PROVE \A d \in DOMAIN dlq' : FromDlq(d) \/ FromJob(d)
    <2>1. PICK j \in DOMAIN jobs : UpsertDlq(SnapshotOf(j))
      BY <1>2 DEF AddToDlq
    <2>2. SnapshotOf(j).job = j /\ SnapshotOf(j).item = jobs[j].item
      BY DEF SnapshotOf
    <2>3. QED
      BY <2>1, <2>2, SnapshotOwned, UpsertKeeps
  <1>3. ASSUME NEW w \in Workers, CompleteHook(w) PROVE \A d \in DOMAIN dlq' : FromDlq(d)
    <2>1. dlq' = Delete(dlq, RowsForKey(exec[w].key)) \/ UNCHANGED dlqTable
      BY <1>3 DEF CompleteHook, dlqTable
    <2>2. QED
      BY <1>0, <1>d, <2>1
  <1>4. ASSUME DeleteDlqJob PROVE \A d \in DOMAIN dlq' : FromDlq(d)
    BY <1>d, <1>4 DEF DeleteDlqJob
  <1>5. ASSUME NEW a \in Admins, RequeueBook(a) PROVE \A d \in DOMAIN dlq' : FromDlq(d)
    <2>1. CASE UNCHANGED dlq
      BY <2>1 DEF FromDlq
    <2>2. CASE admin[a].row \in DOMAIN dlq
               /\ dlq' = [dlq EXCEPT ![admin[a].row].requeued = @ + 1]
      <3>1. dlq[admin[a].row] \in DlqRow
        BY <2>2 DEF TypeOK, DlqTypeOK
      <3>2. QED
        BY <2>2, <3>1 DEF FromDlq, DlqRow
    <2>3. QED
      BY <1>5, <2>1, <2>2 DEF RequeueBook
  <1>6. ASSUME NEW w \in Workers, RunnerStep(w), ~MoveRow(w), ~CompleteHook(w)
        PROVE  UNCHANGED dlqTable
    BY <1>6 DEF RunnerStep, StartRunner, StartupRelease, StartupPurge, ScanTick, MoveRowFails,
                ReleaseTick, Fetch, HandlerSucceeds, HandlerFails, FailHook, Crash
  <1>7. ASSUME NEW a \in Admins, AdminStep(a), ~RequeueBook(a) PROVE UNCHANGED dlqTable
    BY <1>7 DEF AdminStep, RequeueRead, RequeueEnqueue, RequeueRefused, LocksCleanupRelease,
                LocksCleanupPurge
  <1>8. ASSUME Enqueue \/ RemoveJob \/ FailJobs \/ UNCHANGED vars PROVE UNCHANGED dlqTable
    BY <1>8 DEF Enqueue, RemoveJob, FailJobs, vars
  <1>9. QED
    BY <1>0, <1>1, <1>2, <1>3, <1>4, <1>5, <1>6, <1>7, <1>8 DEF Next

-----------------------------------------------------------------------------
(* The parts of the invariant.                                              *)

LEMMA OriginsStep ==
    ASSUME SafeEnvironment, Known, Owners, Origins, [Next]_vars
    PROVE  Origins'
  <1>0. /\ TypeOK /\ nextJob \in Nat /\ nextJob' \in Nat /\ nextJob' >= nextJob /\ RowsStay
    BY NextQueueStep, Typed DEF Known, TypeOK, QueueStep, JobsTypeOK
  <1>1. \A j \in DOMAIN jobs \cap DOMAIN jobs' : jobs'[j].item = jobs[j].item
    BY <1>0, NextJobsEffect DEF Adding, AddEffect, KeptRows
  <1> SUFFICES ASSUME NEW d \in DOMAIN dlq'
               PROVE  /\ dlq'[d].origin < nextJob'
                      /\ dlq'[d].origin \in DOMAIN jobs'
                         => dlq'[d].item = jobs'[dlq'[d].origin].item
    BY DEF Origins
  <1>2. CASE FromDlq(d)
    <2>1. dlq[d].origin < nextJob /\ dlq[d].origin \in Nat
      BY <1>0, <1>2, Typed DEF FromDlq, Origins
    <2>2. dlq[d].origin \in DOMAIN jobs' => dlq[d].origin \in DOMAIN jobs
      BY <1>0, <2>1 DEF RowsStay
    <2>3. QED
      BY <1>0, <1>1, <1>2, <2>1, <2>2 DEF FromDlq, Origins
  <1>3. CASE FromJob(d)
    <2>1. /\ dlq'[d].origin \in DOMAIN jobs /\ dlq'[d].item = jobs[dlq'[d].origin].item
          /\ dlq'[d].origin \in Nat /\ dlq'[d].origin < nextJob
      BY <1>0, <1>3, Typed DEF FromJob, TypeOK, JobsTypeOK
    <2>2. dlq'[d].origin < nextJob'
      BY <1>0, <2>1
    <2>3. QED
      BY <1>1, <2>1, <2>2
  <1>4. QED
    BY <1>2, <1>3, NextDlqEffect

LEMMA BoundedStep ==
    ASSUME SafeEnvironment, Known, Bounded, [Next]_vars
    PROVE  Bounded'
  <1>0. /\ TypeOK /\ nextJob \in Nat /\ MaxJobs \in Nat /\ nextJob <= MaxJobs + 1
        /\ "locks_cleanup" \notin Env
    BY Typed, DeadLetterAssumption DEF Known, Bounded, SafeEnvironment
  <1>1. nextJob' <= MaxJobs + 1
    <2>1. ASSUME NEW k, NEW i, AddJob(k, i) PROVE nextJob' <= MaxJobs + 1
      <3>1. nextJob' = nextJob \/ (nextJob <= MaxJobs /\ nextJob' = nextJob + 1)
        BY <2>1, Zenon DEF AddJob, ReplaceInPlace, InsertBeside, Insert
      <3>2. QED
        BY <1>0, <3>1
    <2>2. ASSUME NEW w \in Workers, RunnerStep(w) PROVE UNCHANGED nextJob
      BY <2>2 DEF RunnerStep, StartRunner, StartupRelease, StartupPurge, ScanTick, MoveRow,
                  MoveRowFails, ReleaseTick, Fetch, HandlerSucceeds, CompleteHook, HandlerFails,
                  FailHook, Crash, queueTable
    <2>3. ASSUME NEW a \in Admins, AdminStep(a), ~RequeueEnqueue(a) PROVE UNCHANGED nextJob
      BY <2>3 DEF AdminStep, RequeueRead, RequeueRefused, RequeueBook, LocksCleanupRelease,
                  LocksCleanupPurge, queueTable
    <2>4. ASSUME DeleteDlqJob \/ RemoveJob \/ FailJobs \/ AddToDlq \/ UNCHANGED vars
          PROVE  UNCHANGED nextJob
      BY <2>4 DEF DeleteDlqJob, RemoveJob, FailJobs, AddToDlq, vars, queueTable
    <2>5. QED
      BY <1>0, <2>1, <2>2, <2>3, <2>4 DEF Next, Enqueue, RequeueEnqueue
  <1>2. ASSUME NEW b \in Admins PROVE admin'[b].phase # "purge"
    <2>0. admin \in [Admins -> Operation] /\ admin[b].phase # "purge"
      BY <1>0 DEF TypeOK, ActorTypeOK, Bounded
    <2>1. ASSUME NEW a \in Admins, NEW o, admin' = [admin EXCEPT ![a] = o], o.phase # "purge"
          PROVE  admin'[b].phase # "purge"
      BY <2>0, <2>1
    <2>2. ASSUME NEW a \in Admins, AdminStep(a) PROVE admin'[b].phase # "purge"
      <3>1. CASE RequeueRead(a)
        BY <2>1, <3>1 DEF RequeueRead
      <3>2. CASE RequeueEnqueue(a)
        <4>1. admin' = [admin EXCEPT ![a].phase = "book"]
          BY <3>2 DEF RequeueEnqueue, SafeEnvironment
        <4> DEFINE o == [admin[a] EXCEPT !.phase = "book"]
        <4>2. o.phase # "purge"
          BY <2>0 DEF Operation
        <4>3. admin' = [admin EXCEPT ![a] = o]
          BY <2>0, <4>1
        <4> HIDE DEF o
        <4>4. QED
          BY <2>1, <4>2, <4>3
      <3>3. CASE RequeueRefused(a) \/ RequeueBook(a) \/ LocksCleanupPurge(a)
        <4>1. NoOperation.phase # "purge"
          BY DEF NoOperation
        <4>2. admin' = [admin EXCEPT ![a] = NoOperation]
          BY <3>3 DEF RequeueRefused, RequeueBook, LocksCleanupPurge
        <4>3. QED
          BY <2>1, <4>1, <4>2
      <3>4. ~LocksCleanupRelease(a)
        BY <1>0 DEF LocksCleanupRelease
      <3>5. QED
        BY <2>2, <3>1, <3>2, <3>3, <3>4 DEF AdminStep
    <2>3. ASSUME NEW w \in Workers, RunnerStep(w) PROVE UNCHANGED admin
      BY <2>3 DEF RunnerStep, StartRunner, StartupRelease, StartupPurge, ScanTick, MoveRow,
                  MoveRowFails, ReleaseTick, Fetch, HandlerSucceeds, CompleteHook, HandlerFails,
                  FailHook, Crash
    <2>4. ASSUME Enqueue \/ DeleteDlqJob \/ RemoveJob \/ FailJobs \/ AddToDlq \/ UNCHANGED vars
          PROVE  UNCHANGED admin
      BY <2>4 DEF Enqueue, DeleteDlqJob, RemoveJob, FailJobs, AddToDlq, vars
    <2>5. QED
      BY <2>0, <2>2, <2>3, <2>4 DEF Next
  <1>3. QED
    BY <1>1, <1>2 DEF Bounded

\* A row that leaves the queue leaves its payload sheltered.
LEMMA GoneSheltered ==
    ASSUME SafeEnvironment, Known, Owners, Holding, Bounded, Covered, [Next]_vars,
           NEW j \in DOMAIN jobs, j \notin DOMAIN jobs', NEW i \in Items, i = jobs[j].item
    PROVE  Sheltered(i)'
  <1>0. /\ TypeOK /\ "db_error" \notin Env
        /\ \A v \in Workers : batch[v] \in SUBSET Snapshot
    BY DEF Known, SafeEnvironment, TypeOK, ActorTypeOK
  <1>1. ASSUME NEW k, NEW p, AddJob(k, p), k \in AnyKey, p \in Items, k \in {NoKey, KeyOf[p]}
        PROVE  FALSE
    BY <1>0, <1>1, AddJobEffect DEF AddEffect
  <1>2. ASSUME NEW ids, jobs' = Delete(jobs, ids) PROVE j \in ids
    BY <1>2, DeleteKeeps
  <1>3. ASSUME \/ DOMAIN jobs' = DOMAIN jobs PROVE FALSE
    BY <1>3
  <1>4. ASSUME NEW v \in Workers, RunnerStep(v) PROVE Sheltered(i)'
    <2>1. CASE MoveRow(v)
      <3>1. PICK s \in batch[v] : jobs' = Delete(jobs, {s.job}) /\ UpsertDlq(s)
        BY <1>3, <2>1 DEF MoveRow
      <3>2. s.job = j /\ s.item = i /\ s \in Snapshot
        BY <1>0, <1>2, <3>1 DEF Known, SnapshotsStable
      <3>3. \E d \in DOMAIN dlq' : dlq'[d].item = s.item
        BY <1>0, <3>1, <3>2, UpsertDlqEffect DEF UpsertEffect, Owners, Owned
      <3>4. QED
        BY <3>2, <3>3 DEF Sheltered, Kept
    <2>2. CASE HandlerSucceeds(v)
      <3>1. j = exec[v].job
        BY <1>2, <2>2 DEF HandlerSucceeds
      <3>2. exec[v].item = i
        BY <2>2, <3>1 DEF HandlerSucceeds, Holding
      <3>3. QED
        BY <2>2, <3>2 DEF HandlerSucceeds, Sheltered, Settled
    <2>3. CASE StartupPurge(v)
      <3>1. /\ batch[v] = {} /\ runner[v] = "purge" /\ UNCHANGED <<dlq, done, settled>>
            /\ jobs' = Delete(jobs, {x \in DOMAIN jobs : Exhausted(x) /\ jobs[x].lockedBy = NoWorker})
        BY <1>0, <2>3 DEF StartupPurge, CleanupPermanentlyFailed, Covered, dlqTable, history
      <3>2. Exhausted(j)
        BY <1>2, <3>1
      <3>3. Sheltered(i)
        BY <3>1, <3>2 DEF Covered, Exhausted
      <3>4. CASE Settled(i) \/ Kept(i)
        BY <3>1, <3>4 DEF Sheltered, Settled, Kept
      <3>5. CASE \E n \in DOMAIN jobs : jobs[n].item = i /\ jobs[n].attempts < MaxAttempts
        <4>1. PICK n \in DOMAIN jobs : jobs[n].item = i /\ jobs[n].attempts < MaxAttempts
          BY <3>5
        <4>2. jobs[n].attempts \in Nat /\ MaxAttempts \in Nat
          BY <1>0, Typed, DeadLetterAssumption DEF JobRow
        <4>3. n \in DOMAIN jobs' /\ jobs'[n] = jobs[n]
          <5>1. ~Exhausted(n)
            BY <4>1, <4>2 DEF Exhausted
          <5> DEFINE spent == {x \in DOMAIN jobs : Exhausted(x) /\ jobs[x].lockedBy = NoWorker}
          <5>2. n \notin spent /\ jobs' = Delete(jobs, spent)
            BY <3>1, <5>1
          <5> HIDE DEF spent
          <5>3. QED
            BY <4>1, <5>2, DeleteKeeps
        <4>4. QED
          BY <4>1, <4>3 DEF Sheltered
      <3>6. QED
        BY <3>3, <3>4, <3>5 DEF Sheltered
    <2>4. CASE \/ StartupRelease(v) \/ ReleaseTick(v)
      BY <1>0, <1>3, <2>4, ReleaseKeeps DEF StartupRelease, ReleaseTick
    <2>5. CASE \/ StartRunner(v) \/ ScanTick(v) \/ MoveRowFails(v) \/ Fetch(v) \/ CompleteHook(v)
               \/ HandlerFails(v) \/ FailHook(v) \/ Crash(v)
      BY <1>3, <2>5 DEF StartRunner, ScanTick, MoveRowFails, Fetch, CompleteHook, HandlerFails,
                        FailHook, Crash, queueTable
    <2>6. QED
      BY <1>4, <2>1, <2>2, <2>3, <2>4, <2>5 DEF RunnerStep
  <1>5. ASSUME NEW a \in Admins, AdminStep(a) PROVE FALSE
    <2>1. ~LocksCleanupRelease(a) /\ ~LocksCleanupPurge(a)
      BY DEF SafeEnvironment, Bounded, LocksCleanupRelease, LocksCleanupPurge
    <2>2. ~RequeueEnqueue(a)
      BY <1>0, <1>1 DEF RequeueEnqueue, TypeOK, ActorTypeOK, Operation, Owners, Owned, Keyed
    <2>3. QED
      BY <1>3, <1>5, <2>1, <2>2 DEF AdminStep, RequeueRead, RequeueRefused, RequeueBook, queueTable
  <1>6. ASSUME RemoveJob PROVE Sheltered(i)'
    <2>1. PICK x \in DOMAIN jobs : jobs' = Delete(jobs, {x}) /\ settled' = settled \cup {jobs[x].item}
      BY <1>6 DEF RemoveJob
    <2>2. x = j
      BY <1>2, <2>1
    <2>3. QED
      BY <2>1, <2>2 DEF Sheltered, Settled
  <1>7. ~Enqueue
    <2>1. ASSUME Enqueue
          PROVE  /\ nextItem \in Items /\ KeyOf[nextItem] \in AnyKey
                 /\ AddJob(KeyOf[nextItem], nextItem)
      BY <1>0, <2>1, DeadLetterAssumption DEF Enqueue, TypeOK, CounterTypeOK, Items, AnyKey
    <2>2. QED
      BY <1>1, <2>1
  <1>8. ~FailJobs /\ ~DeleteDlqJob /\ ~AddToDlq /\ ~UNCHANGED vars
    BY <1>3 DEF SafeEnvironment, FailJobs, DeleteDlqJob, AddToDlq, vars, queueTable
  <1>9. QED
    BY <1>4, <1>5, <1>6, <1>7, <1>8 DEF Next

\* A row that leaves the DLQ leaves its payload settled.
LEMMA KeptStays ==
    ASSUME SafeEnvironment, Known, Owners, [Next]_vars, NEW i, Settled(i) \/ Kept(i)
    PROVE  (Settled(i) \/ Kept(i))'
  <1>1. CASE Settled(i)
    BY <1>1, NextSettled DEF Settled
  <1>2. ASSUME NEW d \in DOMAIN dlq, dlq[d].item = i PROVE (Settled(i) \/ Kept(i))'
    <2>0. /\ TypeOK /\ dlq[d].item \in Items
      BY Typed DEF Known
    <2>1. ASSUME NEW ids, dlq' = Delete(dlq, ids), d \notin ids PROVE Kept(i)'
      BY <1>2, <2>1 DEF Delete, Restrict, Kept
    <2>2. ASSUME UNCHANGED dlqTable PROVE Kept(i)'
      BY <1>2, <2>2 DEF dlqTable, Kept
    <2>3. ASSUME NEW s \in Snapshot, Owned(s), UpsertDlq(s) PROVE Kept(i)'
      <3>1. UpsertEffect(s)
        BY <2>0, <2>3, UpsertDlqEffect DEF Owned
      <3>2. QED
        BY <1>2, <3>1 DEF UpsertEffect, Kept
    <2>4. ASSUME NEW w \in Workers, RunnerStep(w) PROVE (Settled(i) \/ Kept(i))'
      <3>1. CASE MoveRow(w)
        BY <2>0, <2>2, <2>3, <3>1 DEF MoveRow, dlqTable, Owners, TypeOK, ActorTypeOK
      <3>2. CASE CompleteHook(w)
        <4>1. CASE UNCHANGED dlq
          BY <1>2, <4>1 DEF Kept
        <4>2. CASE /\ dlq' = Delete(dlq, RowsForKey(exec[w].key))
                   /\ settled' = settled \cup
                       {dlq[x].item : x \in {r \in RowsForKey(exec[w].key) : dlq[r].item <= exec[w].item}}
          <5>1. CASE d \in RowsForKey(exec[w].key)
            <6>1. Keyed(dlq[d]) /\ Keyed(exec[w]) /\ exec[w].item \in Items
              BY <2>0, <3>2 DEF Owners, Owned, CompleteHook, TypeOK, ActorTypeOK
            <6>2. dlq[d].item = exec[w].item
              BY <2>0, <5>1, <6>1, SolePayload DEF RowsForKey
            <6>3. dlq[d].item <= exec[w].item
              BY <2>0, <6>2 DEF Items
            <6>4. QED
              BY <1>2, <4>2, <5>1, <6>3 DEF Settled
          <5>2. CASE d \notin RowsForKey(exec[w].key)
            BY <2>1, <4>2, <5>2
          <5>3. QED
            BY <5>1, <5>2
        <4>3. QED
          BY <3>2, <4>1, <4>2 DEF CompleteHook
      <3>3. CASE ~MoveRow(w) /\ ~CompleteHook(w)
        BY <2>2, <2>4, <3>3
        DEF RunnerStep, StartRunner, StartupRelease, StartupPurge, ScanTick, MoveRowFails,
            ReleaseTick, Fetch, HandlerSucceeds, HandlerFails, FailHook, Crash
      <3>4. QED
        BY <3>1, <3>2, <3>3
    <2>5. ASSUME NEW a \in Admins, AdminStep(a) PROVE Kept(i)'
      <3>1. CASE RequeueBook(a)
        <4>1. CASE UNCHANGED dlq
          BY <1>2, <4>1 DEF Kept
        <4>2. CASE /\ admin[a].row \in DOMAIN dlq
                   /\ dlq' = [dlq EXCEPT ![admin[a].row].requeued = @ + 1]
          <5>1. dlq[admin[a].row] \in DlqRow
            BY <2>0, <4>2 DEF TypeOK, DlqTypeOK
          <5>2. dlq'[d].item = i /\ d \in DOMAIN dlq'
            BY <1>2, <4>2, <5>1 DEF DlqRow
          <5>3. QED
            BY <5>2 DEF Kept
        <4>3. QED
          BY <3>1, <4>1, <4>2 DEF RequeueBook
      <3>2. CASE ~RequeueBook(a)
        BY <2>2, <2>5, <3>2 DEF AdminStep, RequeueRead, RequeueEnqueue, RequeueRefused,
                                LocksCleanupRelease, LocksCleanupPurge
      <3>3. QED
        BY <3>1, <3>2
    <2>6. ASSUME DeleteDlqJob PROVE (Settled(i) \/ Kept(i))'
      <3>1. PICK x \in DOMAIN dlq : dlq' = Delete(dlq, {x}) /\ settled' = settled \cup {dlq[x].item}
        BY <2>6 DEF DeleteDlqJob
      <3>2. CASE x = d
        BY <1>2, <3>1, <3>2 DEF Settled
      <3>3. CASE x # d
        BY <2>1, <3>1, <3>3
      <3>4. QED
        BY <3>2, <3>3
    <2>7. ASSUME AddToDlq PROVE Kept(i)'
      BY <2>0, <2>3, <2>7, SnapshotOwned DEF AddToDlq
    <2>8. ASSUME Enqueue \/ RemoveJob \/ FailJobs \/ UNCHANGED vars PROVE Kept(i)'
      BY <2>2, <2>8 DEF Enqueue, RemoveJob, FailJobs, vars
    <2>9. QED
      BY <2>4, <2>5, <2>6, <2>7, <2>8 DEF Next
  <1>3. QED
    BY <1>1, <1>2 DEF Kept

\* What a step does to attempts: only add_job on the row's own key, and remove_job,
\* may use them up while a startup is under way.
LEMMA SpentSheltered ==
    ASSUME SafeEnvironment, Known, Owners, Holding, [Next]_vars,
           NEW w \in Workers, runner[w] \in {"premove", "purge"},
           NEW j \in DOMAIN jobs, j \in DOMAIN jobs', jobs[j].attempts < MaxAttempts,
           jobs'[j].attempts >= MaxAttempts, NEW i \in Items, i = jobs[j].item
    PROVE  Sheltered(i)'
  <1>0. /\ TypeOK /\ jobs[j].attempts \in Nat /\ MaxAttempts \in Nat
        /\ \A v \in Workers : exec[v].phase = "idle" /\ runner[v] # "up"
    <2>1. \A v \in Workers : v = w
      BY DEF SafeEnvironment
    <2>2. \A v \in Workers : runner[v] # "up"
      BY <2>1
    <2>3. QED
      BY <2>2, Typed, DeadLetterAssumption DEF Known, Holding, JobRow
  <1>1. ASSUME NEW k, NEW p, AddEffect(k, p) PROVE Sheltered(i)'
    <2>1. jobs[j].item = p
      BY <1>0, <1>1 DEF AddEffect
    <2>2. QED
      BY <1>1, <2>1 DEF AddEffect, Sheltered
  <1>2. ASSUME jobs'[j].attempts = jobs[j].attempts PROVE FALSE
    BY <1>0, <1>2
  <1>3. ASSUME NEW v \in Workers, RunnerStep(v) PROVE FALSE
    <2>1. CASE MoveRow(v)
      BY <1>2, <2>1, DeleteKeeps DEF MoveRow
    <2>2. CASE StartupRelease(v)
      BY <1>0, <1>2, <2>2, ReleaseKeeps DEF StartupRelease
    <2>3. CASE StartupPurge(v)
      BY <1>2, <2>3, DeleteKeeps DEF StartupPurge, CleanupPermanentlyFailed
    <2>4. ~ReleaseTick(v) /\ ~Fetch(v) /\ ~HandlerSucceeds(v) /\ ~HandlerFails(v) /\ ~FailHook(v)
      BY <1>0 DEF ReleaseTick, Fetch, HandlerSucceeds, HandlerFails, FailHook
    <2>5. CASE StartRunner(v) \/ ScanTick(v) \/ MoveRowFails(v) \/ CompleteHook(v) \/ Crash(v)
      BY <1>2, <2>5 DEF StartRunner, ScanTick, MoveRowFails, CompleteHook, Crash, queueTable
    <2>6. QED
      BY <1>3, <2>1, <2>2, <2>3, <2>4, <2>5 DEF RunnerStep
  <1>4. ASSUME NEW a \in Admins, AdminStep(a) PROVE Sheltered(i)'
    <2>1. ~LocksCleanupRelease(a)
      BY DEF SafeEnvironment, LocksCleanupRelease
    <2>2. CASE LocksCleanupPurge(a)
      BY <1>2, <2>2, DeleteKeeps DEF LocksCleanupPurge, CleanupPermanentlyFailed
    <2>3. CASE RequeueEnqueue(a)
      <3>1. /\ admin[a].item \in Items /\ admin[a].key \in AnyKey
            /\ AddJob(admin[a].key, admin[a].item) /\ Owned(admin[a])
        BY <1>0, <2>3 DEF RequeueEnqueue, TypeOK, ActorTypeOK, Operation, Owners
      <3>2. QED
        BY <1>0, <1>1, <3>1, AddJobEffect DEF Owned, Keyed
    <2>4. CASE RequeueRead(a) \/ RequeueRefused(a) \/ RequeueBook(a)
      BY <1>2, <2>4 DEF RequeueRead, RequeueRefused, RequeueBook, queueTable
    <2>5. QED
      BY <1>4, <2>1, <2>2, <2>3, <2>4 DEF AdminStep
  <1>5. ASSUME Enqueue PROVE Sheltered(i)'
    <2>1. /\ nextItem \in Items /\ KeyOf[nextItem] \in AnyKey
          /\ AddJob(KeyOf[nextItem], nextItem)
      BY <1>0, <1>5, DeadLetterAssumption DEF Enqueue, TypeOK, CounterTypeOK, Items, AnyKey
    <2>2. QED
      BY <1>0, <1>1, <2>1, AddJobEffect
  <1>6. ASSUME RemoveJob PROVE Sheltered(i)'
    <2>1. PICK x \in DOMAIN jobs :
            /\ jobs' = Delete(jobs, {x}) \/ jobs' = [jobs EXCEPT ![x] = Keyless(jobs[x], MaxAttempts)]
            /\ settled' = settled \cup {jobs[x].item}
      BY <1>6 DEF RemoveJob
    <2>2. x = j
      BY <1>0, <1>2, <2>1, DeleteKeeps, StripKeeps
    <2>3. QED
      BY <2>1, <2>2 DEF Sheltered, Settled
  <1>7. ~FailJobs /\ ~DeleteDlqJob /\ ~AddToDlq /\ ~UNCHANGED vars
    BY <1>2 DEF SafeEnvironment, FailJobs, DeleteDlqJob, AddToDlq, vars, queueTable
  <1>8. QED
    BY <1>3, <1>4, <1>5, <1>6, <1>7 DEF Next

\* What shelters a payload during a startup goes on doing so.
LEMMA ShelterStays ==
    ASSUME SafeEnvironment, Known, Owners, Holding, Bounded, Covered, [Next]_vars,
           NEW w \in Workers, runner[w] \in {"premove", "purge"},
           NEW i \in Items, Sheltered(i)
    PROVE  Sheltered(i)'
  <1>1. CASE Settled(i) \/ Kept(i)
    BY <1>1, KeptStays DEF Sheltered
  <1>2. CASE \E n \in DOMAIN jobs : jobs[n].item = i /\ jobs[n].attempts < MaxAttempts
    <2>1. PICK n \in DOMAIN jobs : jobs[n].item = i /\ jobs[n].attempts < MaxAttempts
      BY <1>2
    <2>2. CASE n \notin DOMAIN jobs'
      BY <2>1, <2>2, GoneSheltered
    <2>3. CASE n \in DOMAIN jobs' /\ jobs'[n].attempts >= MaxAttempts
      BY <2>1, <2>3, SpentSheltered
    <2>4. CASE n \in DOMAIN jobs' /\ ~(jobs'[n].attempts >= MaxAttempts)
      <3>1. jobs'[n].attempts \in Nat /\ MaxAttempts \in Nat
        BY <2>4, NextQueueStep, DeadLetterAssumption DEF Known, QueueStep, JobsTypeOK, JobRow
      <3>2. jobs'[n].item = i
        BY <2>1, <2>4, NextJobsEffect DEF Known, Adding, AddEffect, KeptRows
      <3>3. QED
        BY <2>4, <3>1, <3>2 DEF Sheltered
    <2>5. QED
      BY <2>2, <2>3, <2>4
  <1>3. QED
    BY <1>1, <1>2 DEF Sheltered

\* The LIMIT of the scan's SELECT takes all the rows there are.
LEMMA SelectTakesAll ==
    ASSUME SafeEnvironment, TypeOK, Bounded, NEW w \in Workers, Select(w)
    PROVE  batch' = [batch EXCEPT ![w] = {SnapshotOf(j) : j \in FailedJobs}]
  <1>1. PICK S \in SUBSET FailedJobs :
           /\ S = FailedJobs \/ Cardinality(S) = BatchLimit
           /\ batch' = [batch EXCEPT ![w] = {SnapshotOf(j) : j \in S}]
    BY DEF Select
  <1>2. CASE S = FailedJobs
    BY <1>1, <1>2
  <1>3. CASE Cardinality(S) = BatchLimit
    <2>1. MaxJobs \in Nat /\ BatchLimit \in Nat /\ BatchLimit >= MaxJobs
      BY DeadLetterAssumption DEF SafeEnvironment
    <2>2. FailedJobs \subseteq 1..MaxJobs
      BY <2>1 DEF FailedJobs, TypeOK, JobsTypeOK, Bounded
    <2>3. IsFiniteSet(1..MaxJobs) /\ Cardinality(1..MaxJobs) = MaxJobs
      BY <2>1, FS_Interval
    <2>4. /\ IsFiniteSet(FailedJobs) /\ Cardinality(FailedJobs) \in Nat
          /\ Cardinality(FailedJobs) <= MaxJobs
      BY <2>2, <2>3, FS_Subset, FS_CardinalityType
    <2>5. /\ Cardinality(S) <= Cardinality(FailedJobs)
          /\ Cardinality(S) = Cardinality(FailedJobs) => S = FailedJobs
      BY <2>4, FS_Subset
    <2>6. S = FailedJobs
      BY <1>3, <2>1, <2>4, <2>5
    <2>7. QED
      BY <1>1, <2>6
  <1>4. QED
    BY <1>1, <1>2, <1>3

\* A worker within a startup was in it before, with as many rows to move or more, or
\* has just begun it.
LEMMA StartupStep ==
    ASSUME SafeEnvironment, Known, Holding, [Next]_vars, NEW w \in Workers,
           runner'[w] \in {"premove", "purge"}
    PROVE  \/ StartRunner(w) /\ runner'[w] = "premove"
           \/ /\ runner[w] \in {"premove", "purge"} /\ batch'[w] \subseteq batch[w]
              /\ \A s \in batch[w] \ batch'[w] : s.job \notin DOMAIN jobs'
              /\ runner'[w] = "purge" => runner[w] = "purge" \/ batch[w] = {}
  <1> DEFINE Within == /\ runner[w] \in {"premove", "purge"} /\ batch'[w] \subseteq batch[w]
                       /\ \A s \in batch[w] \ batch'[w] : s.job \notin DOMAIN jobs'
                       /\ runner'[w] = "purge" => runner[w] = "purge" \/ batch[w] = {}
  <1>0. /\ runner \in [Workers -> {"down", "premove", "purge", "up"}]
        /\ batch \in [Workers -> SUBSET Snapshot]
        /\ "db_error" \notin Env /\ \A v \in Workers : v = w
    BY DEF Known, TypeOK, ActorTypeOK, SafeEnvironment
  <1>1. ASSUME UNCHANGED <<runner, batch>> PROVE Within
    BY <1>1
  <1>2. ASSUME NEW v \in Workers, RunnerStep(v) PROVE Within \/ (StartRunner(w) /\ runner'[w] = "premove")
    <2>0. v = w
      BY <1>0
    <2>1. CASE StartRunner(v)
      BY <1>0, <2>0, <2>1 DEF StartRunner
    <2>2. CASE StartupRelease(v)
      BY <1>0, <2>0, <2>2 DEF StartupRelease
    <2>3. CASE StartupPurge(v) \/ Crash(v)
      <3>1. runner'[w] \in {"up", "down"}
        BY <1>0, <2>0, <2>3 DEF StartupPurge, Crash
      <3>2. QED
        BY <3>1
    <2>4. CASE ScanTick(v)
      BY <1>0, <2>0, <2>4 DEF ScanTick
    <2>5. CASE MoveRow(v)
      <3>1. PICK s \in batch[w] :
               /\ batch' = [batch EXCEPT ![w] = batch[w] \ {s}]
               /\ s.job \in DOMAIN jobs => jobs' = Delete(jobs, {s.job})
               /\ s.job \notin DOMAIN jobs => UNCHANGED jobs
        BY <2>0, <2>5 DEF MoveRow
      <3>2. s.job \notin DOMAIN jobs'
        <4>1. ASSUME jobs' = Delete(jobs, {s.job}) PROVE s.job \notin DOMAIN jobs'
          BY <4>1 DEF Delete, Restrict
        <4>2. QED
          BY <3>1, <4>1
      <3>3. UNCHANGED runner
        BY <2>5 DEF MoveRow
      <3>4. batch'[w] = batch[w] \ {s}
        BY <1>0, <3>1
      <3>5. QED
        BY <3>2, <3>3, <3>4
    <2>6. ~MoveRowFails(v)
      BY <1>0 DEF MoveRowFails
    <2>7. CASE \/ ReleaseTick(v) \/ Fetch(v) \/ HandlerSucceeds(v) \/ CompleteHook(v)
               \/ HandlerFails(v) \/ FailHook(v)
      BY <1>1, <2>7 DEF ReleaseTick, Fetch, HandlerSucceeds, CompleteHook, HandlerFails, FailHook
    <2>8. QED
      BY <1>2, <2>1, <2>2, <2>3, <2>4, <2>5, <2>6, <2>7 DEF RunnerStep
  <1>3. ASSUME NEW a \in Admins, AdminStep(a) PROVE Within
    BY <1>1, <1>3 DEF AdminStep, RequeueRead, RequeueEnqueue, RequeueRefused, RequeueBook,
                      LocksCleanupRelease, LocksCleanupPurge
  <1>4. ASSUME Enqueue \/ DeleteDlqJob \/ RemoveJob \/ FailJobs \/ AddToDlq \/ UNCHANGED vars
        PROVE  Within
    BY <1>1, <1>4 DEF Enqueue, DeleteDlqJob, RemoveJob, FailJobs, AddToDlq, vars
  <1>5. QED
    BY <1>2, <1>3, <1>4 DEF Next

LEMMA CoveredStep ==
    ASSUME SafeEnvironment, Known, Owners, Holding, Origins, Bounded, Covered, [Next]_vars
    PROVE  Covered'
  <1>0. TypeOK /\ batch \in [Workers -> SUBSET Snapshot] /\ JobsTypeOK'
    BY NextQueueStep DEF Known, TypeOK, ActorTypeOK, QueueStep
  <1> SUFFICES ASSUME NEW w \in Workers, runner'[w] \in {"premove", "purge"}
               PROVE  /\ runner'[w] = "purge" => batch'[w] = {}
                      /\ \A j \in DOMAIN jobs' :
                            jobs'[j].attempts >= MaxAttempts =>
                              (\E s \in batch'[w] : s.job = j) \/ Sheltered(jobs[j].item)'
    BY DEF Covered
  <1>1. CASE StartRunner(w) /\ runner'[w] = "premove"
    <2>1. Select(w) /\ UNCHANGED queueTable /\ UNCHANGED <<dlqTable, history>>
      BY <1>1 DEF StartRunner, SafeEnvironment
    <2>2. batch'[w] = {SnapshotOf(j) : j \in FailedJobs}
      <3> DEFINE read == {SnapshotOf(j) : j \in FailedJobs}
      <3>1. batch' = [batch EXCEPT ![w] = read]
        BY <1>0, <2>1, SelectTakesAll
      <3> HIDE DEF read
      <3>2. batch'[w] = read
        BY <1>0, <3>1
      <3>3. QED
        BY <3>2 DEF read
    <2>3. ASSUME NEW j \in DOMAIN jobs, jobs[j].attempts >= MaxAttempts
          PROVE  (\E s \in batch'[w] : s.job = j) \/ Kept(jobs[j].item)
      <3>1. CASE j \in FailedJobs
        <4>1. SnapshotOf(j) \in batch'[w] /\ SnapshotOf(j).job = j
          BY <2>2, <3>1 DEF SnapshotOf
        <4>2. QED
          BY <4>1
      <3>2. CASE j \notin FailedJobs
        <4>1. \E d \in DOMAIN dlq : dlq[d].origin = j
          BY <2>3, <3>2 DEF FailedJobs, Exhausted
        <4>2. QED
          BY <4>1 DEF Origins, Kept
      <3>3. QED
        BY <3>1, <3>2
    <2>4. UNCHANGED <<jobs, dlq>>
      BY <2>1 DEF queueTable, dlqTable
    <2>5. ASSUME NEW j \in DOMAIN jobs', jobs'[j].attempts >= MaxAttempts
          PROVE  (\E s \in batch'[w] : s.job = j) \/ Sheltered(jobs[j].item)'
      <3>1. CASE Kept(jobs[j].item)
        <4>1. Kept(jobs[j].item)'
          BY <2>4, <3>1 DEF Kept
        <4>2. QED
          BY <4>1 DEF Sheltered
      <3>2. QED
        BY <2>3, <2>4, <2>5, <3>1
    <2>6. QED
      BY <1>1, <2>5
  <1>2. CASE /\ runner[w] \in {"premove", "purge"} /\ batch'[w] \subseteq batch[w]
             /\ \A s \in batch[w] \ batch'[w] : s.job \notin DOMAIN jobs'
             /\ runner'[w] = "purge" => runner[w] = "purge" \/ batch[w] = {}
    <2>1. runner'[w] = "purge" => batch'[w] = {}
      BY <1>2 DEF Covered
    <2>2. ASSUME NEW j \in DOMAIN jobs', jobs'[j].attempts >= MaxAttempts
          PROVE  (\E s \in batch'[w] : s.job = j) \/ Sheltered(jobs[j].item)'
      <3>1. j \in DOMAIN jobs
        <4>1. ASSUME NEW k, NEW i, Adding(k, i), j \notin DOMAIN jobs PROVE FALSE
          <5>1. jobs'[j].attempts = 0
            BY <2>2, <4>1 DEF Adding, AddEffect, NewRow
          <5>2. QED
            BY <2>2, <5>1, DeadLetterAssumption
        <4>2. QED
          BY <1>0, <2>2, <4>1, NextJobsEffect DEF KeptRows
      <3>2. jobs'[j].item = jobs[j].item /\ jobs[j].item \in Items
        BY <1>0, <2>2, <3>1, NextJobsEffect, Typed DEF Adding, AddEffect, KeptRows
      <3> DEFINE i == jobs[j].item
      <3>3. ASSUME Sheltered(i)' PROVE Sheltered(jobs[j].item)'
        BY <3>3
      <3>4. CASE jobs[j].attempts >= MaxAttempts
        <4>1. (\E s \in batch[w] : s.job = j) \/ Sheltered(jobs[j].item)
          BY <1>2, <3>1, <3>4 DEF Covered
        <4>2. CASE \E s \in batch[w] : s.job = j
          BY <1>2, <2>2, <4>2
        <4>3. CASE Sheltered(jobs[j].item)
          <5>1. PICK p \in Items : p = jobs[j].item
            BY <3>2
          <5>2. Sheltered(p)'
            BY <1>2, <4>3, <5>1, ShelterStays
          <5>3. jobs'[j].item = p
            BY <3>2, <5>1
          <5>4. QED
            BY <5>2, <5>3
        <4>4. QED
          BY <4>1, <4>2, <4>3
      <3>5. CASE ~(jobs[j].attempts >= MaxAttempts)
        <4>1. jobs[j].attempts < MaxAttempts
          BY <1>0, <3>1, <3>5, Typed, DeadLetterAssumption DEF JobRow
        <4>2. PICK p \in Items : p = jobs[j].item
          BY <3>2
        <4>3. Sheltered(p)'
          BY <1>2, <2>2, <3>1, <4>1, <4>2, SpentSheltered
        <4>4. jobs'[j].item = p
          BY <3>2, <4>2
        <4>5. QED
          BY <4>3, <4>4
      <3>6. QED
        BY <3>4, <3>5
    <2>3. QED
      BY <2>1, <2>2
  <1>3. QED
    BY <1>1, <1>2, StartupStep

LEMMA NothingLostStep ==
    ASSUME SafeEnvironment, Known, Owners, Holding, Origins, Bounded, Covered, NothingLost,
           [Next]_vars
    PROVE  NothingLost'
  <1>0. TypeOK /\ nextItem \in Nat /\ nextItem \in 1..(MaxItems + 1) /\ MaxItems \in Nat
    BY Typed, DeadLetterAssumption DEF Known, TypeOK, CounterTypeOK
  <1> SUFFICES ASSUME NEW i \in 1..(nextItem' - 1)
               PROVE  Settled(i)' \/ Queued(i)' \/ Kept(i)'
    BY DEF NothingLost, There
  <1>1. ASSUME NEW k, NEW p, Adding(k, p) PROVE Queued(p)'
    BY <1>1 DEF Adding, AddEffect, Queued
  <1>2. i \in 1..(nextItem - 1) \/ Queued(i)'
    <2>1. CASE UNCHANGED nextItem
      BY <2>1
    <2>2. ASSUME NEW k, NEW p, Adding(k, p), p = nextItem, nextItem' = nextItem + 1
          PROVE  i \in 1..(nextItem - 1) \/ Queued(i)'
      <3>1. i = p \/ i \in 1..(nextItem - 1)
        BY <1>0, <2>2
      <3>2. QED
        BY <1>1, <2>2, <3>1
    <2>3. QED
      BY <1>0, <2>1, <2>2, NextJobsEffect DEF Adding
  <1>3. ASSUME NEW j \in DOMAIN jobs, jobs[j].item = i PROVE Queued(i)' \/ Sheltered(i)'
    <2>1. i \in Items
      BY <1>0, <1>3, Typed
    <2>2. CASE j \in DOMAIN jobs'
      <3>1. jobs'[j].item = i
        BY <1>0, <1>3, <2>2, NextJobsEffect DEF Adding, AddEffect, KeptRows
      <3>2. QED
        BY <2>2, <3>1 DEF Queued
    <2>3. CASE j \notin DOMAIN jobs'
      BY <1>3, <2>1, <2>3, GoneSheltered
    <2>4. QED
      BY <2>2, <2>3
  <1>4. Sheltered(i)' => Settled(i)' \/ Queued(i)' \/ Kept(i)'
    BY DEF Sheltered, Queued
  <1>5. CASE i \in 1..(nextItem - 1)
    BY <1>3, <1>4, <1>5, KeptStays DEF NothingLost, There, Queued
  <1>6. QED
    BY <1>2, <1>5

-----------------------------------------------------------------------------
LEMMA SafeAlways ==
    ASSUME SafeEnvironment
    PROVE  Spec => [](Known /\ SafeInv)
  <1>1. Init => SnapshotsIssued /\ SafeInv
    <2> SUFFICES ASSUME Init PROVE SnapshotsIssued /\ SafeInv
      OBVIOUS
    <2>1. /\ DOMAIN jobs = {} /\ DOMAIN dlq = {} /\ nextJob = 1 /\ nextItem = 1
          /\ \A w \in Workers : batch[w] = {} /\ exec[w].phase = "idle" /\ runner[w] = "down"
          /\ \A a \in Admins : admin[a].phase = "idle"
          /\ done = {} /\ settled = {}
      BY DEF Init, EmptyTable, Resting, NoOperation
    <2>2. 1 <= MaxJobs + 1 /\ 1..(1 - 1) = {}
      BY DeadLetterAssumption
    <2>3. SnapshotsIssued /\ Owners /\ Holding /\ Origins
      BY <2>1 DEF SnapshotsIssued, Owners, Holding, Origins
    <2>4. Bounded /\ Covered /\ NothingLost
      BY <2>1, <2>2 DEF Bounded, Covered, NothingLost, There
    <2>5. QED
      BY <2>3, <2>4 DEF SafeInv
  <1>2. TypeOK /\ SnapshotsIssued /\ [Next]_vars => SnapshotsIssued'
    BY SnapshotsIssuedStep
  <1>3. TypeOK /\ SnapshotsStable /\ SnapshotsIssued /\ SafeInv /\ [Next]_vars => SafeInv'
    BY OwnersStep, HoldingStep, OriginsStep, BoundedStep, CoveredStep, NothingLostStep
    DEF SafeInv, Known
  <1>4. QED
    BY <1>1, <1>2, <1>3, TypeCorrect, SnapshotsAlwaysStable, PTL DEF Spec, Known

\* Every payload that was accepted is in the queue, in the DLQ, or settled: where one
\* runner scans all there is before it purges, no statement of the library fails, and
\* no key is shared, scans, crashes, startups, requeues, plugins and operators lose none.
THEOREM NothingIsLost == ASSUME SafeEnvironment PROVE Spec => []NothingLost
  <1>1. SafeInv => NothingLost
    BY DEF SafeInv
  <1>2. QED
    BY <1>1, SafeAlways, PTL

-----------------------------------------------------------------------------
(* Each step is one of DurableJobs, or leaves every payload in its place.   *)

\* A step that settles a payload takes no row from another one.
LEMMA SettlingTakesItsOwn ==
    ASSUME SafeEnvironment, Known, Owners, Holding, Bounded, [Next]_vars, KeptRows
    PROVE  \/ UNCHANGED <<done, settled>>
           \/ \A j \in DOMAIN jobs \ DOMAIN jobs' : jobs[j].item \in done' \cup settled'
  <1> DEFINE Own == \A j \in DOMAIN jobs \ DOMAIN jobs' : jobs[j].item \in done' \cup settled'
  <1>0. ASSUME NEW x, jobs' = Delete(jobs, {x}) PROVE \A j \in DOMAIN jobs \ DOMAIN jobs' : j = x
    BY <1>0 DEF Delete, Restrict
  <1>1. ASSUME NEW w \in Workers, RunnerStep(w) PROVE UNCHANGED <<done, settled>> \/ Own
    <2>1. CASE HandlerSucceeds(w)
      <3>1. \A j \in DOMAIN jobs \ DOMAIN jobs' : j = exec[w].job
        BY <1>0, <2>1 DEF HandlerSucceeds
      <3>2. QED
        BY <2>1, <3>1 DEF HandlerSucceeds, Holding
    <2>2. CASE CompleteHook(w)
      BY <2>2 DEF CompleteHook, queueTable
    <2>3. CASE ~HandlerSucceeds(w) /\ ~CompleteHook(w)
      BY <1>1, <2>3 DEF RunnerStep, StartRunner, StartupRelease, StartupPurge, ScanTick, MoveRow,
                MoveRowFails, ReleaseTick, Fetch, HandlerFails, FailHook, Crash, history
    <2>4. QED
      BY <2>1, <2>2, <2>3
  <1>2. ASSUME NEW k, NEW p, AddJob(k, p), k \in AnyKey, p \in Items, k \in {NoKey, KeyOf[p]}
        PROVE  Own
    BY <1>2, AddJobEffect DEF Known, AddEffect
  <1>3. ASSUME NEW a \in Admins, AdminStep(a) PROVE UNCHANGED <<done, settled>> \/ Own
    <2>1. CASE RequeueEnqueue(a)
      BY <1>2, <2>1 DEF RequeueEnqueue, Known, TypeOK, ActorTypeOK, Operation, Owners, Owned, Keyed
    <2>2. CASE ~RequeueEnqueue(a)
      BY <1>3, <2>2 DEF AdminStep, RequeueRead, RequeueRefused, RequeueBook, LocksCleanupRelease,
                        LocksCleanupPurge, history
    <2>3. QED
      BY <2>1, <2>2
  <1>4. ASSUME Enqueue PROVE Own
    <2>1. /\ nextItem \in Items /\ KeyOf[nextItem] \in AnyKey
          /\ AddJob(KeyOf[nextItem], nextItem)
      BY <1>4, DeadLetterAssumption DEF Enqueue, Known, TypeOK, CounterTypeOK, Items, AnyKey
    <2>2. QED
      BY <1>2, <2>1
  <1>5. ASSUME RemoveJob PROVE Own
    <2>1. PICK x \in DOMAIN jobs :
            /\ jobs' = Delete(jobs, {x}) \/ jobs' = [jobs EXCEPT ![x] = Keyless(jobs[x], MaxAttempts)]
            /\ settled' = settled \cup {jobs[x].item}
      BY <1>5 DEF RemoveJob
    <2>2. \A j \in DOMAIN jobs \ DOMAIN jobs' : j = x
      BY <1>0, <2>1
    <2>3. QED
      BY <2>1, <2>2
  <1>6. ASSUME DeleteDlqJob PROVE Own
    BY <1>6 DEF DeleteDlqJob, queueTable
  <1>7. ASSUME FailJobs \/ AddToDlq \/ UNCHANGED vars PROVE UNCHANGED <<done, settled>>
    BY <1>7 DEF FailJobs, AddToDlq, vars, history
  <1>8. QED
    BY <1>1, <1>3, <1>4, <1>5, <1>6, <1>7 DEF Next

LEMMA PlaceValue ==
    ASSUME SafeEnvironment, Known, Owners, NothingLost, NEW i \in Items
    PROVE  /\ place[i] = "settled" <=> Settled(i)
           /\ place[i] = "active" <=> ~Settled(i) /\ Queued(i)
           /\ place[i] = "dead" <=> ~Settled(i) /\ ~Queued(i) /\ Kept(i)
           /\ place[i] = "new" <=> i >= nextItem
           /\ place[i] \in {"settled", "active", "dead", "new"}
  <1>1. i \in Nat \ {0} /\ nextItem \in Nat
    BY Typed, DeadLetterAssumption DEF Known, Items
  <1>2. Settled(i) \/ Queued(i) \/ Kept(i) => i < nextItem
    BY DEF Owners, Owned, Settled, Queued, Kept
  <1>3. i < nextItem => Settled(i) \/ Queued(i) \/ Kept(i)
    BY <1>1 DEF NothingLost, There
  <1>4. i >= nextItem <=> ~(i < nextItem)
    BY <1>1
  <1>5. place[i] = PlaceOf(i)
    BY DEF place
  <1>6. QED
    BY <1>2, <1>3, <1>4, <1>5 DEF PlaceOf

\* Adding a job accepts a new payload, revives a dead one, or goes unnoticed.
LEMMA AddingMaps ==
    ASSUME SafeEnvironment, Known, Known', SafeInv, SafeInv', NEW k, NEW i, Adding(k, i)
    PROVE  [Durable!Next]_place
  <1>0. SafeEnvironment' /\ i \in Items
    BY DEF SafeEnvironment, Adding
  <1>1. /\ \A x \in Items : Settled(x)' <=> Settled(x)
        /\ \A x \in Items : Kept(x)' <=> Kept(x)
    BY DEF Adding, AddEffect, Settled, Kept, dlqTable
  <1>2. \A x \in Items : Queued(x)' <=> Queued(x) \/ x = i
    <2>1. \A x \in Items : Queued(x) => Queued(x)'
      BY DEF Adding, AddEffect, Queued
    <2>2. Queued(i)'
      BY DEF Adding, AddEffect, Queued
    <2>3. \A x \in Items : Queued(x)' => Queued(x) \/ x = i
      BY DEF Adding, AddEffect, Queued, NewRow
    <2>4. QED
      BY <2>1, <2>2, <2>3
  <1>3. \A x \in Items \ {i} : x >= nextItem' <=> x >= nextItem
    <2>1. nextItem \in Nat /\ \A x \in Items : x \in Nat
      BY Typed DEF Known, Items
    <2>2. CASE UNCHANGED nextItem
      BY <2>2
    <2>3. CASE i = nextItem /\ nextItem' = nextItem + 1
      BY <2>1, <2>3
    <2>4. QED
      BY <2>2, <2>3 DEF Adding
  <1>4. \A x \in Items \ {i} : place'[x] = place[x]
    BY <1>1, <1>2, <1>3 DEF place, PlaceOf
  <1>5. /\ place = [x \in Items |-> place[x]] /\ place' = [x \in Items |-> place'[x]]
    BY DEF place
  <1>6. place'[i] = IF Settled(i) THEN "settled" ELSE "active"
    BY <1>0, <1>1, <1>2 DEF place, PlaceOf
  <1>7. CASE place[i] = "settled" \/ place[i] = "active"
    <2>1. place'[i] = place[i]
      BY <1>0, <1>6, <1>7, PlaceValue DEF SafeInv
    <2>2. place' = place
      BY <1>4, <1>5, <2>1
    <2>3. QED
      BY <2>2
  <1>8. CASE place[i] = "new" \/ place[i] = "dead"
    <2>1. place'[i] = "active"
      BY <1>0, <1>6, <1>8, PlaceValue DEF SafeInv
    <2>2. place' = [x \in Items |-> IF x \in {i} THEN "active"
                                   ELSE IF x \in {} THEN "settled" ELSE place[x]]
      BY <1>4, <1>5, <2>1
    <2>3. Durable!Relocate({i}, "active", {})
      BY <2>2 DEF Durable!Relocate
    <2>4. Durable!Accept \/ Durable!Revive
      BY <1>0, <1>8, <2>3 DEF Durable!Accept, Durable!Revive, Durable!In
    <2>5. QED
      BY <2>4 DEF Durable!Next
  <1>9. QED
    BY <1>0, <1>7, <1>8, PlaceValue DEF SafeInv


\* Every other step buries payloads, settles payloads, or goes unnoticed.
LEMMA KeepingMaps ==
    ASSUME SafeEnvironment, Known, Known', SafeInv, SafeInv', [Next]_vars,
           KeptRows, UNCHANGED nextItem
    PROVE  [Durable!Next]_place
  <1>1. \A x \in Items : Settled(x) => Settled(x)'
    BY NextSettled DEF SafeInv, Settled
  <1>2. \A x \in Items : Queued(x)' => Queued(x)
    BY DEF KeptRows, Queued
  <1>3. \A x \in Items : Settled(x) \/ Kept(x) => (Settled(x) \/ Kept(x))'
    BY KeptStays DEF SafeInv
  <1>v. \A x \in Items :
           /\ place[x] = "settled" <=> Settled(x)
           /\ place[x] = "active" <=> ~Settled(x) /\ Queued(x)
           /\ place[x] = "dead" <=> ~Settled(x) /\ ~Queued(x) /\ Kept(x)
           /\ place[x] = "new" <=> x >= nextItem
           /\ place[x] \in {"settled", "active", "dead", "new"}
    BY PlaceValue DEF SafeInv
  <1>w. \A x \in Items :
           /\ place'[x] = "settled" <=> Settled(x)'
           /\ place'[x] = "active" <=> ~Settled(x)' /\ Queued(x)'
           /\ place'[x] = "dead" <=> ~Settled(x)' /\ ~Queued(x)' /\ Kept(x)'
           /\ place'[x] = "new" <=> x >= nextItem'
           /\ place'[x] \in {"settled", "active", "dead", "new"}
    <2>1. \A x \in Items : place'[x] = PlaceOf(x)'
      BY DEF place
    <2>2. ASSUME NEW x \in Items
          PROVE  /\ x \in Nat \ {0} /\ nextItem' \in Nat
                 /\ Settled(x)' \/ Queued(x)' \/ Kept(x)' => x < nextItem'
                 /\ x < nextItem' => Settled(x)' \/ Queued(x)' \/ Kept(x)'
      <3>1. x \in Nat \ {0} /\ nextItem' \in Nat
        BY DeadLetterAssumption DEF Known, TypeOK, CounterTypeOK, Items
      <3>2. Settled(x)' \/ Queued(x)' \/ Kept(x)' => x < nextItem'
        BY DEF SafeInv, Owners, Owned, Settled, Queued, Kept
      <3>3. x < nextItem' => Settled(x)' \/ Queued(x)' \/ Kept(x)'
        BY <3>1 DEF SafeInv, NothingLost, There
      <3>4. QED
        BY <3>1, <3>2, <3>3
    <2>3. \A x \in Items : x >= nextItem' <=> ~(x < nextItem')
      BY <2>2
    <2>4. QED
      BY <2>1, <2>2, <2>3 DEF PlaceOf
  <1>4. /\ place = [x \in Items |-> place[x]] /\ place' = [x \in Items |-> place'[x]]
    BY DEF place
  <1>5. \A x \in Items : place[x] = "new" <=> place'[x] = "new"
    BY <1>v, <1>w
  <1>6. CASE UNCHANGED <<done, settled>>
    <2> DEFINE S == {x \in Items : place[x] = "active" /\ place'[x] = "dead"}
    <2>1. \A x \in Items : Settled(x)' <=> Settled(x)
      BY <1>6 DEF Settled
    <2>2. \A x \in Items : place'[x] = IF x \in S THEN "dead" ELSE place[x]
      BY <1>2, <1>3, <1>v, <1>w, <1>5, <2>1
    <2>3. place' = [x \in Items |-> IF x \in S THEN "dead"
                                   ELSE IF x \in {} THEN "settled" ELSE place[x]]
      BY <1>4, <2>2
    <2>4. Durable!Relocate(S, "dead", {})
      BY <2>3 DEF Durable!Relocate
    <2>5. S \in SUBSET Durable!In({"active"})
      BY DEF Durable!In
    <2>6. Durable!Bury
      BY <2>4, <2>5 DEF Durable!Bury
    <2>7. QED
      BY <2>6 DEF Durable!Next
  <1>7. CASE \A j \in DOMAIN jobs \ DOMAIN jobs' : jobs[j].item \in done' \cup settled'
    <2> DEFINE T == {x \in Items : ~Settled(x) /\ Settled(x)'}
    <2>1. \A x \in Items : Queued(x) => Settled(x)' \/ Queued(x)'
      BY <1>7 DEF Queued, Settled, KeptRows
    <2>2. \A x \in Items : place'[x] = IF x \in T THEN "settled" ELSE place[x]
      BY <1>1, <1>2, <1>3, <1>v, <1>w, <1>5, <2>1
    <2>3. place' = [x \in Items |-> IF x \in {} THEN "settled"
                                   ELSE IF x \in T THEN "settled" ELSE place[x]]
      BY <1>4, <2>2
    <2>4. Durable!Relocate({}, "settled", T)
      BY <2>3 DEF Durable!Relocate
    <2>5. T \in SUBSET Durable!In({"active", "dead"})
      BY <1>v, <1>w, <1>5 DEF Durable!In
    <2>6. Durable!Settle
      BY <2>4, <2>5 DEF Durable!Settle
    <2>7. QED
      BY <2>6 DEF Durable!Next
  <1>8. QED
    BY <1>6, <1>7, SettlingTakesItsOwn DEF SafeInv

\* DeadLetter implements the safety part of DurableJobs: each step of the tables, the
\* runners and the operators takes every payload only where DurableJobs lets it go.
THEOREM DurableSteps == ASSUME SafeEnvironment PROVE Spec => Durable!Safety
  <1>1. Init => Durable!Init
    <2> SUFFICES ASSUME Init, NEW i \in Items PROVE PlaceOf(i) = "new"
      BY DEF Durable!Init, place
    <2>1. /\ DOMAIN jobs = {} /\ DOMAIN dlq = {} /\ done = {} /\ settled = {} /\ nextItem = 1
      BY DEF Init, EmptyTable
    <2>2. i >= nextItem
      BY <2>1, DeadLetterAssumption DEF Items
    <2>3. QED
      BY <2>1, <2>2 DEF PlaceOf, Settled, Queued, Kept
  <1>2. Known /\ Known' /\ SafeInv /\ SafeInv' /\ [Next]_vars => [Durable!Next]_place
    <2> SUFFICES ASSUME Known, Known', SafeInv, SafeInv', [Next]_vars PROVE [Durable!Next]_place
      OBVIOUS
    <2>1. \/ \E k, i : Adding(k, i)
          \/ KeptRows /\ UNCHANGED nextItem
      BY NextJobsEffect DEF Known, SafeInv
    <2>2. QED
      BY <2>1, AddingMaps, KeepingMaps
  <1>3. QED
    BY <1>1, <1>2, SafeAlways, PTL DEF Spec, Durable!Safety
=============================================================================
