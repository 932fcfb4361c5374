-------------------------- MODULE QueueStatsProofs --------------------------
(* Theorems about QueueStats: an answer put together from many statements   *)
(* overlooks no job that only went on meanwhile, and is off by no more than *)
(* the jobs somebody wrote to.  The sets of jobs and of queues are finite.  *)
EXTENDS QueueStats, FiniteSetTheorems, TLAPS

Finite == IsFiniteSet(Jobs) /\ IsFiniteSet(SerialQueues)

LEMMA StatementsAre ==
    /\ Len(Statements) = 3
    /\ Statements[1] = "pending" /\ Statements[2] = "active" /\ Statements[3] = "failed"
  BY DEF Statements

\* A part of a finite set counts at most as many as the whole.
LEMMA PartCounts ==
    ASSUME NEW S, IsFiniteSet(S), NEW T \in SUBSET S
    PROVE  /\ IsFiniteSet(T) /\ Cardinality(T) \in Nat /\ Cardinality(S) \in Nat
           /\ Cardinality(T) <= Cardinality(S)
  BY FS_Subset, FS_CardinalityType

-----------------------------------------------------------------------------
(* The rows.                                                                *)

LEMMA StageIs ==
    ASSUME NEW row \in Row
    PROVE  /\ row.home = "dlq" => Stage(row) = 4
           /\ row.home = "jobs" /\ ~row.locked /\ UsedUp(row) => Stage(row) = 3
           /\ row.home = "jobs" /\ row.locked => Stage(row) = 2
           /\ row.home = "jobs" /\ ~row.locked /\ ~UsedUp(row) /\ row.due => Stage(row) = 1
           /\ row.home = "jobs" /\ ~row.locked /\ ~UsedUp(row) /\ ~row.due => Stage(row) = 0
           /\ row.home \in {"new", "gone"} => Stage(row) = 0
  <1>1. row.home \in {"new", "jobs", "dlq", "gone"} /\ row.locked \in BOOLEAN
    BY DEF Row
  <1>2. CASE row.home = "dlq"
    BY <1>2 DEF Stage
  <1>3. CASE row.home \in {"new", "gone"}
    BY <1>3 DEF Stage
  <1>4. CASE row.home = "jobs" /\ row.locked
    BY <1>4 DEF Stage
  <1>5. CASE row.home = "jobs" /\ ~row.locked /\ UsedUp(row)
    BY <1>5 DEF Stage
  <1>6. CASE row.home = "jobs" /\ ~row.locked /\ ~UsedUp(row) /\ row.due
    BY <1>6 DEF Stage
  <1>7. CASE row.home = "jobs" /\ ~row.locked /\ ~UsedUp(row) /\ ~row.due
    BY <1>7 DEF Stage
  <1>8. QED
    BY <1>1, <1>2, <1>3, <1>4, <1>5, <1>6, <1>7

RowsOK == jobs \in [Jobs -> Row] /\ (\A j \in Jobs : jobs[j].attempts <= jobs[j].max)
          /\ queueRows \subseteq SerialQueues

\* A job that is in onward after a step has gone on: its row is in the DLQ, or
\* where it was, as far or further.
WentOn(old, row) ==
    \/ row.home = "dlq"
    \/ /\ old.home = "jobs" /\ row.home = "jobs"
       /\ row.queue = old.queue /\ row.max = old.max /\ Stage(row) >= Stage(old)

\* What a job's step writes.
Writes(j, row) ==
    /\ row \in Row /\ row.attempts <= row.max
    /\ jobs' = [jobs EXCEPT ![j] = row]
    /\ touched' = IF request = Idle THEN touched ELSE touched \cup {j}
    /\ queueRows \subseteq queueRows' /\ queueRows' \subseteq SerialQueues
    /\ row.home = "jobs" =>
          \/ row.queue \in queueRows' \cup {NoQueue}
          \/ jobs[j].home = "jobs" /\ row.queue = jobs[j].queue
    /\ onward' \subseteq onward
    /\ j \in onward' /\ Stage(jobs[j]) > 0 => WentOn(jobs[j], row)
    /\ UNCHANGED request

LEMMA AbsentRow ==
    ASSUME NEW home \in {"new", "jobs", "dlq", "gone"}
    PROVE  /\ Absent(home) \in Row /\ Absent(home).home = home
           /\ Absent(home).attempts <= Absent(home).max
  BY DEF Absent, Row

LEMMA FreshRowType ==
    ASSUME NEW spec \in Specs
    PROVE  /\ FreshRow(spec) \in Row /\ FreshRow(spec).home = "jobs"
           /\ FreshRow(spec).queue = spec.queue
           /\ FreshRow(spec).attempts <= FreshRow(spec).max
  <1>1. spec.queue \in SerialQueues \cup {NoQueue} /\ spec.due \in BOOLEAN
        /\ spec.max \in MaxAttempts /\ spec.max \in Nat
    BY QueueStatsAssumption DEF Specs
  <1>2. Absent("jobs") \in Row /\ Absent("jobs").home = "jobs" /\ Absent("jobs").attempts = 0
    BY AbsentRow DEF Absent
  <1> HIDE DEF Absent
  <1>3. FreshRow(spec) \in Row
    BY <1>1, <1>2 DEF FreshRow, Row
  <1>4. /\ FreshRow(spec).home = "jobs" /\ FreshRow(spec).queue = spec.queue
        /\ FreshRow(spec).attempts = 0 /\ FreshRow(spec).max = spec.max
    BY <1>2 DEF FreshRow, Row
  <1>5. QED
    BY <1>1, <1>3, <1>4

\* Only the row of the job itself is written, and by a job that goes on as WentOn says.
LEMMA LiveWrites ==
    ASSUME RowsOK, NEW j \in Jobs, Live(j)
    PROVE  \E row : Writes(j, row)
  <1> DEFINE old == jobs[j]
  <1> USE DEF RowsOK
  <1>0. /\ old \in Row /\ old.attempts \in Nat /\ old.max \in Nat /\ old.attempts <= old.max
        /\ old.home \in {"new", "jobs", "dlq", "gone"}
    <2>1. old \in Row /\ old.attempts <= old.max
      OBVIOUS
    <2>2. old.attempts \in Nat /\ old.max \in MaxAttempts \cup {0}
          /\ old.home \in {"new", "jobs", "dlq", "gone"}
      BY <2>1 DEF Row
    <2> HIDE DEF old
    <2>3. \A m \in MaxAttempts \cup {0} : m \in Nat
      BY QueueStatsAssumption
    <2>4. QED
      BY <2>1, <2>2, <2>3
  <1> HIDE DEF old
  \* A row of the table that replaces one of the table.
  <1>1. ASSUME NEW row \in Row, row.attempts <= row.max, Becomes(j, row), UNCHANGED queueRows,
               old.home = "jobs", row.home = "jobs", row.queue = old.queue, row.max = old.max
        PROVE  Writes(j, row)
    <2>1. Stage(row) >= Stage(old) \/ j \notin onward'
      BY <1>1 DEF Becomes, Write, old
    <2>2. QED
      BY <1>1, <2>1 DEF Becomes, Write, Writes, WentOn, old
  \* A row that leaves the tables.
  <1>2. ASSUME Becomes(j, Absent("gone")), UNCHANGED queueRows
        PROVE  Writes(j, Absent("gone"))
    <2>1. Absent("gone") \in Row /\ Absent("gone").home = "gone"
          /\ Absent("gone").attempts <= Absent("gone").max
      BY AbsentRow
    <2>2. Stage(Absent("gone")) = 0
      BY <2>1, StageIs
    <2>3. Stage(old) \in Nat
      BY <1>0, StageIs
    <2>4. j \in onward' => ~(Stage(old) > 0)
      BY <1>2, <2>2, <2>3 DEF Becomes, Write, old
    <2>5. QED
      BY <1>2, <2>1, <2>4 DEF Becomes, Write, Writes, old
  <1>3. CASE Enqueue(j)
    <2>1. PICK spec \in Specs :
             /\ \/ old.home = "new" /\ Becomes(j, FreshRow(spec))
                \/ Waits(j) /\ Write(j, FreshRow(spec), FALSE)
             /\ queueRows' = queueRows \cup ({spec.queue} \ {NoQueue})
      BY <1>3 DEF Enqueue, old
    <2> DEFINE row == FreshRow(spec)
    <2>2. row \in Row /\ row.home = "jobs" /\ row.queue = spec.queue /\ row.attempts <= row.max
      BY FreshRowType
    <2>3. spec.queue \in SerialQueues \cup {NoQueue}
      BY DEF Specs
    <2> HIDE DEF row
    <2>4. CASE old.home = "new" /\ Becomes(j, row)
      <3>1. Stage(old) = 0
        BY <1>0, <2>4, StageIs
      <3>2. ~(Stage(old) > 0)
        BY <3>1
      <3>3. onward' \subseteq onward
        BY <2>4 DEF Becomes, Write
      <3>4. Writes(j, row)
        BY <2>1, <2>2, <2>3, <2>4, <3>2, <3>3 DEF Becomes, Write, Writes, old
      <3>5. QED
        BY <3>4
    <2>5. CASE Write(j, row, FALSE)
      BY <2>1, <2>2, <2>3, <2>5 DEF Write, Writes
    <2>6. QED
      BY <2>1, <2>4, <2>5 DEF row
  <1>4. CASE FallsDue(j)
    <2> DEFINE row == [old EXCEPT !.due = TRUE]
    <2>2. /\ row \in Row /\ row.attempts <= row.max /\ row.home = old.home
          /\ row.queue = old.queue /\ row.max = old.max
      BY <1>0 DEF Row
    <2>3. old.home = "jobs" /\ Becomes(j, row) /\ UNCHANGED queueRows
      BY <1>4 DEF FallsDue, old
    <2> HIDE DEF row
    <2>4. QED
      BY <1>1, <2>2, <2>3
  <1>5. CASE Fetch(j)
    <2> DEFINE row == [old EXCEPT !.locked = TRUE, !.attempts = @ + 1]
    <2>1. old.home = "jobs" /\ ~UsedUp(old) /\ Becomes(j, row) /\ UNCHANGED queueRows
      BY <1>5 DEF Fetch, Waits, old
    <2>2. row.attempts = old.attempts + 1 /\ row.max = old.max
      BY <1>0 DEF Row
    <2>3. \A r \in Row, n \in Nat : [r EXCEPT !.locked = TRUE, !.attempts = n] \in Row
      BY DEF Row
    <2>4. old.attempts + 1 \in Nat
      BY <1>0
    <2>5. row \in Row
      BY <1>0, <2>3, <2>4
    <2>6. row.home = old.home /\ row.queue = old.queue
      BY <1>0 DEF Row
    <2> HIDE DEF row
    <2>7. row.attempts <= row.max
      BY <1>0, <2>2, <2>1 DEF UsedUp
    <2>8. QED
      BY <1>1, <2>2, <2>1, <2>5, <2>7, <2>6
  <1>6. CASE Fail(j)
    <2>1. PICK due \in BOOLEAN : Becomes(j, [old EXCEPT !.locked = FALSE, !.due = due])
      BY <1>6 DEF Fail, old
    <2> DEFINE row == [old EXCEPT !.locked = FALSE, !.due = due]
    <2>3. /\ row \in Row /\ row.attempts <= row.max /\ row.home = old.home
          /\ row.queue = old.queue /\ row.max = old.max
      BY <1>0 DEF Row
    <2>4. old.home = "jobs" /\ UNCHANGED queueRows
      BY <1>6 DEF Fail, Runs, old
    <2>5. Becomes(j, row)
      BY <2>1
    <2> HIDE DEF row
    <2>6. QED
      BY <1>1, <2>3, <2>4, <2>5
  <1>7. CASE Disappear(j) \/ DeleteDlqJob(j)
    BY <1>2, <1>7 DEF Disappear, DeleteDlqJob
  <1>8. CASE Capture(j)
    <2>1. CASE Becomes(j, Absent("gone"))
      BY <1>2, <1>8, <2>1 DEF Capture
    <2>2. CASE Becomes(j, Absent("dlq"))
      <3>1. Absent("dlq") \in Row /\ Absent("dlq").home = "dlq"
            /\ Absent("dlq").attempts <= Absent("dlq").max
        BY AbsentRow
      <3>2. Writes(j, Absent("dlq"))
        BY <1>8, <2>2, <3>1 DEF Capture, Becomes, Write, Writes, WentOn
      <3>3. QED
        BY <3>2
    <2>3. QED
      BY <1>8, <2>1, <2>2 DEF Capture
  <1>9. CASE Exhaust(j)
    <2> DEFINE row == [old EXCEPT !.attempts = old.max]
    <2>1. old.home = "jobs" /\ Becomes(j, row) /\ UNCHANGED queueRows
      BY <1>9 DEF Exhaust, Runs, Waits, old
    <2>2. \A r \in Row, n \in Nat : [r EXCEPT !.attempts = n] \in Row
      BY DEF Row
    <2>3. row \in Row
      BY <1>0, <2>2
    <2>4. /\ row.attempts = old.max /\ row.max = old.max
          /\ row.home = old.home /\ row.queue = old.queue
      BY <1>0 DEF Row
    <2> HIDE DEF row
    <2>5. row.attempts <= row.max
      BY <1>0, <2>4
    <2>6. QED
      BY <1>1, <2>1, <2>3, <2>4, <2>5
  <1>10. QED
    BY <1>3, <1>4, <1>5, <1>6, <1>7, <1>8, <1>9 DEF Live

-----------------------------------------------------------------------------
(* The request.                                                             *)

Current(toDo) == CHOOSE q \in toDo : TRUE

Requests == [at : {"idle", "names", "default", "counts", "breakdown"}, kind : Kinds,
             scope : SUBSET Labels, toDo : SUBSET Labels, statement : 1..3,
             total : Nat, dlqCount : Nat]

\* The order in which a request goes through its statements.
RequestOK ==
    /\ request \in Requests
    /\ request.at = "idle" => request = Idle
    /\ request.at \in {"names", "default"}
         => request.kind \in {"status", "queues"} /\ request.total = 0 /\ request.statement = 1
    /\ request.at = "breakdown" => request.kind = "status" /\ request.toDo = {}
    /\ request.toDo = {} => request.statement = 1
    /\ request.kind = "queueStats" => request.toDo \subseteq request.scope
    /\ request.at \in {"idle", "names", "default", "counts"} => request.dlqCount = 0

LEMMA CurrentIsToDo == ASSUME NEW S, S # {} PROVE Current(S) \in S
  BY DEF Current

LEMMA IdleIsRequest == Idle \in Requests /\ Idle.at = "idle" /\ Idle.total = 0 /\ Idle.toDo = {}
                       /\ Idle.statement = 1 /\ Idle.kind = "status" /\ Idle.dlqCount = 0
  BY DEF Idle, Requests, Kinds

\* A statement of get_queue_stats.
LEMMA CountQueueDoes ==
    ASSUME RequestOK, IsFiniteSet(Jobs), CountQueue
    PROVE  LET q == Current(request.toDo)
               i == request.statement
           IN  /\ q \in request.toDo /\ q \in Labels /\ i \in 1..3 /\ request.at = "counts"
               /\ request' \in Requests /\ request'.at = "counts"
               /\ request'.kind = request.kind /\ request'.scope = request.scope
               /\ request'.dlqCount = request.dlqCount
               /\ request'.total = request.total + Cardinality(Counted(Statements[i], q))
               /\ \/ i = 3 /\ request'.statement = 1 /\ request'.toDo = request.toDo \ {q}
                  \/ i \in 1..2 /\ request'.statement = i + 1 /\ request'.toDo = request.toDo
               /\ UNCHANGED <<jobs, queueRows, onward, touched>>
  <1> DEFINE q == Current(request.toDo)
             i == request.statement
             n == Cardinality(Counted(Statements[i], q))
  <1>1. q \in request.toDo /\ q \in Labels /\ i \in 1..3 /\ request.at = "counts"
    BY CurrentIsToDo DEF CountQueue, RequestOK, Requests
  <1>2. Counted(Statements[i], q) \in SUBSET Jobs
    BY DEF Counted, InTable
  <1>3. n \in Nat
    BY <1>2, PartCounts
  <1>4. request' = [request EXCEPT !.total = @ + n,
                                   !.statement = IF i = 3 THEN 1 ELSE @ + 1,
                                   !.toDo = IF i = 3 THEN @ \ {q} ELSE @]
    BY StatementsAre DEF CountQueue, Goes, Current
  <1>5. UNCHANGED <<jobs, queueRows, onward, touched>>
    BY DEF CountQueue, Goes
  <1> HIDE DEF n, q
  <1>6. /\ request'.at = "counts"
        /\ request'.kind = request.kind /\ request'.scope = request.scope
        /\ request'.dlqCount = request.dlqCount /\ request'.total = request.total + n
        /\ request'.statement = IF i = 3 THEN 1 ELSE request.statement + 1
        /\ request'.toDo = IF i = 3 THEN request.toDo \ {q} ELSE request.toDo
    BY <1>1, <1>4 DEF RequestOK, Requests
  <1>7. request' \in Requests
    <2>1. (IF i = 3 THEN 1 ELSE request.statement + 1) \in 1..3
      BY <1>1
    <2>2. (IF i = 3 THEN request.toDo \ {q} ELSE request.toDo) \in SUBSET Labels
      BY DEF RequestOK, Requests
    <2>3. request.total + n \in Nat
      BY <1>3 DEF RequestOK, Requests
    <2>4. \A r \in Requests, a \in Nat, b \in 1..3, c \in SUBSET Labels :
             [r EXCEPT !.total = a, !.statement = b, !.toDo = c] \in Requests
      BY DEF Requests
    <2>5. QED
      BY <1>4, <2>1, <2>2, <2>3, <2>4 DEF RequestOK
  <1>8. QED
    BY <1>1, <1>5, <1>6, <1>7 DEF n, q

\* The other statements.
LEMMA ListNamesDoes ==
    ASSUME RowsOK, RequestOK, ListNames
    PROVE  /\ request' \in Requests /\ request'.at = "default" /\ request.at = "names"
           /\ request'.kind = request.kind /\ request'.scope = request.scope
           /\ request'.total = request.total /\ request'.statement = request.statement
           /\ request'.toDo = queueRows /\ request'.dlqCount = request.dlqCount
           /\ UNCHANGED <<jobs, queueRows, onward, touched>>
  <1>1. queueRows \in SUBSET Labels
    BY DEF RowsOK, Labels
  <1>2. /\ request' = [request EXCEPT !.at = "default", !.toDo = queueRows]
        /\ request.at = "names" /\ UNCHANGED <<jobs, queueRows, onward, touched>>
    BY DEF ListNames, Goes
  <1>3. QED
    BY <1>1, <1>2 DEF RequestOK, Requests

LEMMA AddDefaultDoes ==
    ASSUME RequestOK, AddDefault
    PROVE  /\ request' \in Requests /\ request'.at = "counts" /\ request.at = "default"
           /\ request'.kind = request.kind /\ request'.scope = request.scope
           /\ request'.total = request.total /\ request'.statement = request.statement
           /\ request.toDo \subseteq request'.toDo /\ request'.dlqCount = request.dlqCount
           /\ \A j \in InTable : jobs[j].queue = NoQueue => "default" \in request'.toDo
           /\ UNCHANGED <<jobs, queueRows, onward, touched>>
  <1> DEFINE S == IF \E j \in InTable : jobs[j].queue = NoQueue
                  THEN request.toDo \cup {"default"} ELSE request.toDo
  <1>1. S \in SUBSET Labels
    BY DEF RequestOK, Requests, Labels
  <1>2. /\ request' = [request EXCEPT !.at = "counts", !.toDo = S]
        /\ request.at = "default" /\ UNCHANGED <<jobs, queueRows, onward, touched>>
    BY DEF AddDefault, Goes
  <1>3. request.toDo \subseteq S /\ \A j \in InTable : jobs[j].queue = NoQueue => "default" \in S
    OBVIOUS
  <1> HIDE DEF S
  <1>4. QED
    BY <1>1, <1>2, <1>3 DEF RequestOK, Requests

LEMMA CountDlqDoes ==
    ASSUME RequestOK, IsFiniteSet(Jobs), CountDlq
    PROVE  /\ request' \in Requests /\ request'.at = "breakdown" /\ request.at = "counts"
           /\ request.toDo = {} /\ request.kind = "status"
           /\ request'.kind = request.kind /\ request'.scope = request.scope
           /\ request'.total = request.total /\ request'.statement = request.statement
           /\ request'.toDo = request.toDo /\ request'.dlqCount = Cardinality(InDlq)
           /\ UNCHANGED <<jobs, queueRows, onward, touched>>
  <1>1. Cardinality(InDlq) \in Nat
    BY PartCounts DEF InDlq
  <1>2. /\ request' = [request EXCEPT !.at = "breakdown", !.dlqCount = Cardinality(InDlq)]
        /\ request.at = "counts" /\ request.toDo = {} /\ request.kind = "status"
        /\ UNCHANGED <<jobs, queueRows, onward, touched>>
    BY DEF CountDlq, CountedAll, Goes
  <1>3. QED
    BY <1>1, <1>2 DEF RequestOK, Requests

LEMMA BeginDoes ==
    ASSUME Begin
    PROVE  /\ request = Idle /\ request' \in Requests
           /\ request'.total = 0 /\ request'.statement = 1 /\ request'.dlqCount = 0
           /\ \/ /\ request'.at = "names" /\ request'.kind \in {"status", "queues"}
                 /\ request'.toDo = {}
              \/ /\ request'.at = "counts" /\ request'.kind = "queueStats"
                 /\ request'.toDo = request'.scope /\ request'.toDo # {}
           /\ onward' = {j \in Jobs : Accountable(j)}
           /\ UNCHANGED <<jobs, queueRows, touched>>
  <1>1. CASE \E kind \in {"status", "queues"} :
                request' = [Idle EXCEPT !.at = "names", !.kind = kind]
    <2>1. PICK kind \in {"status", "queues"} :
             request' = [Idle EXCEPT !.at = "names", !.kind = kind]
      BY <1>1
    <2>2. \A r \in Requests : [r EXCEPT !.at = "names", !.kind = kind] \in Requests
      BY DEF Requests, Kinds
    <2>3. request' \in Requests
      BY <2>1, <2>2, IdleIsRequest
    <2>4. request'.at = "names" /\ request'.kind = kind /\ request'.toDo = {}
          /\ request'.total = 0 /\ request'.statement = 1 /\ request'.dlqCount = 0
      BY <2>1 DEF Idle
    <2>5. QED
      BY <2>3, <2>4 DEF Begin
  <1>2. CASE \E queue \in Labels :
                request' = [Idle EXCEPT !.at = "counts", !.kind = "queueStats",
                                        !.scope = {queue}, !.toDo = {queue}]
    <2>1. PICK queue \in Labels :
             request' = [Idle EXCEPT !.at = "counts", !.kind = "queueStats",
                                     !.scope = {queue}, !.toDo = {queue}]
      BY <1>2
    <2>2. \A r \in Requests : [r EXCEPT !.at = "counts", !.kind = "queueStats",
                                        !.scope = {queue}, !.toDo = {queue}] \in Requests
      BY DEF Requests, Kinds
    <2>3. request' \in Requests
      BY <2>1, <2>2, IdleIsRequest
    <2>4. /\ request'.at = "counts" /\ request'.kind = "queueStats"
          /\ request'.toDo = {queue} /\ request'.scope = {queue}
          /\ request'.total = 0 /\ request'.statement = 1 /\ request'.dlqCount = 0
      BY <2>1 DEF Idle
    <2>5. QED
      BY <2>3, <2>4 DEF Begin
  <1>3. QED
    BY <1>1, <1>2 DEF Begin

\* Whatever ends a request: its answer, or a statement that failed.
LEMMA EndDoes ==
    ASSUME AnswerStatus \/ AnswerQueues \/ StatementFails
    PROVE  request' = Idle /\ onward' = {} /\ touched' = {} /\ UNCHANGED <<jobs, queueRows>>
  BY DEF AnswerStatus, AnswerQueues, StatementFails, Answers

LEMMA RequestStep ==
    ASSUME Finite, RowsOK, RequestOK, [Next]_vars
    PROVE  RequestOK'
  <1>1. CASE UNCHANGED request
    BY <1>1 DEF RequestOK
  <1>2. CASE Begin
    BY <1>2, BeginDoes DEF RequestOK
  <1>3. CASE ListNames
    BY <1>3, ListNamesDoes DEF RequestOK
  <1>4. CASE AddDefault
    BY <1>4, AddDefaultDoes DEF RequestOK
  <1>5. CASE CountQueue
    BY <1>5, CountQueueDoes DEF RequestOK, Finite
  <1>6. CASE CountDlq
    BY <1>6, CountDlqDoes DEF RequestOK, Finite
  <1>7. CASE AnswerStatus \/ AnswerQueues \/ StatementFails
    BY <1>7, EndDoes, IdleIsRequest DEF RequestOK
  <1>8. QED
    BY <1>1, <1>2, <1>3, <1>4, <1>5, <1>6, <1>7, LiveWrites DEF Next, Serve, Writes, vars

-----------------------------------------------------------------------------
(* The rows while a request is under way.                                   *)

\* Every queue name of a row is known.
QueuesKnown == \A j \in InTable : jobs[j].queue \in queueRows \cup {NoQueue}

\* Nobody awaits what only goes on, but jobs that are due, running, failed or dead.
OnwardOK ==
    /\ onward \subseteq Jobs /\ touched \subseteq Jobs
    /\ \A j \in onward : Accountable(j)
    /\ request = Idle => onward = {} /\ touched = {}

TablesOK == RowsOK /\ QueuesKnown /\ OnwardOK

\* What a step of job j does to the row of a job.
LEMMA RowAfter ==
    ASSUME RowsOK, NEW j \in Jobs, NEW row, Writes(j, row), NEW k \in Jobs
    PROVE  /\ jobs'[k] = IF k = j THEN row ELSE jobs[k]
           /\ jobs'[k] \in Row /\ jobs[k] \in Row
  BY DEF Writes, RowsOK

LEMMA WentOnStage ==
    ASSUME NEW old \in Row, NEW row \in Row, Stage(old) > 0, WentOn(old, row)
    PROVE  Stage(row) > 0
  <1>1. Stage(old) \in Nat /\ Stage(row) \in Nat
    BY StageIs DEF Row
  <1>2. QED
    BY <1>1, StageIs DEF WentOn

\* The jobs in onward go on, whatever happens.
LEMMA OnwardGoesOn ==
    ASSUME RowsOK, OnwardOK, NEW j \in Jobs, NEW row, Writes(j, row), NEW k \in onward'
    PROVE  /\ k \in onward /\ k \in Jobs
           /\ jobs'[k] = jobs[k] \/ WentOn(jobs[k], jobs'[k])
           /\ Stage(jobs[k]) > 0 /\ Stage(jobs'[k]) > 0
  <1>1. k \in onward /\ k \in Jobs /\ Stage(jobs[k]) > 0
    BY DEF Writes, OnwardOK, Accountable
  <1>2. jobs'[k] = jobs[k] \/ WentOn(jobs[k], jobs'[k])
    BY <1>1, RowAfter DEF Writes
  <1>3. Stage(jobs'[k]) > 0
    BY <1>1, <1>2, RowAfter, WentOnStage
  <1>4. QED
    BY <1>1, <1>2, <1>3

LEMMA TablesStep ==
    ASSUME TablesOK, RequestOK, Finite, [Next]_vars
    PROVE  TablesOK'
  <1> USE DEF TablesOK
  <1>1. ASSUME NEW j \in Jobs, Live(j) PROVE TablesOK'
    <2>1. PICK row : Writes(j, row)
      BY <1>1, LiveWrites
    <2>2. RowsOK'
      BY <2>1 DEF RowsOK, Writes
    <2>3. QueuesKnown'
      <3> SUFFICES ASSUME NEW k \in Jobs, jobs'[k].home = "jobs"
                   PROVE  jobs'[k].queue \in queueRows' \cup {NoQueue}
        BY DEF QueuesKnown, InTable
      <3>1. jobs'[k] = IF k = j THEN row ELSE jobs[k]
        BY <2>1, RowAfter
      <3>2. jobs[k].home = "jobs" => jobs[k].queue \in queueRows' \cup {NoQueue}
        BY <2>1 DEF QueuesKnown, InTable, Writes
      <3>3. QED
        BY <2>1, <3>1, <3>2 DEF Writes
    <2>4. \A k \in onward' : Accountable(k)'
      <3> SUFFICES ASSUME NEW k \in onward'
                   PROVE  Stage(jobs'[k]) > 0 /\ (jobs'[k].home = "jobs" => jobs'[k].max > 0)
        BY DEF Accountable, InTable
      <3>1. /\ k \in onward /\ k \in Jobs /\ Stage(jobs'[k]) > 0
            /\ jobs'[k] = jobs[k] \/ WentOn(jobs[k], jobs'[k])
        BY <2>1, OnwardGoesOn
      <3>2. jobs[k].home = "jobs" => jobs[k].max > 0
        BY <3>1 DEF OnwardOK, Accountable, InTable
      <3>3. QED
        BY <3>1, <3>2 DEF WentOn
    <2>5. QED
      BY <2>1, <2>2, <2>3, <2>4 DEF OnwardOK, Writes
  <1>2. CASE Begin
    BY <1>2, BeginDoes, IdleIsRequest DEF RowsOK, QueuesKnown, InTable, OnwardOK, Accountable
  <1>3. ASSUME UNCHANGED <<jobs, queueRows, onward, touched>>,
               request # Idle \/ UNCHANGED request, request' # Idle \/ UNCHANGED request
        PROVE  TablesOK'
    BY <1>3 DEF RowsOK, QueuesKnown, InTable, OnwardOK, Accountable
  <1>4. CASE ListNames
    BY <1>3, <1>4, ListNamesDoes, IdleIsRequest
  <1>5. CASE AddDefault
    BY <1>3, <1>5, AddDefaultDoes, IdleIsRequest
  <1>6. CASE CountQueue
    BY <1>3, <1>6, CountQueueDoes, IdleIsRequest DEF Finite
  <1>7. CASE CountDlq
    BY <1>3, <1>7, CountDlqDoes, IdleIsRequest DEF Finite
  <1>8. CASE AnswerStatus \/ AnswerQueues \/ StatementFails
    BY <1>8, EndDoes DEF RowsOK, QueuesKnown, InTable, OnwardOK
  <1>9. CASE UNCHANGED vars
    BY <1>3, <1>9 DEF vars
  <1>10. QED
    BY <1>1, <1>2, <1>4, <1>5, <1>6, <1>7, <1>8, <1>9 DEF Next, Serve

-----------------------------------------------------------------------------
(* None overlooked.                                                         *)

\* A label that the request will count: "default" may still be added.
Awaited(row) == Label(row) \in request.toDo \/ (request.at = "default" /\ row.queue = NoQueue)

\* A job that the statements to come will count, or that the answer leaves out.
Ahead(row, r) ==
    \/ row.home = "dlq"
    \/ row.home = "jobs" /\ r.kind = "queueStats" /\ Label(row) \notin r.scope
    \/ /\ row.home = "jobs" /\ Label(row) \in r.toDo
       /\ Label(row) = Current(r.toDo) => Stage(row) >= r.statement
Behind == {j \in onward : ~Ahead(jobs[j], request)}

NoneLost ==
    /\ request.at = "default" => \A j \in onward \cap InTable : Awaited(jobs[j])
    /\ request.at = "counts" => Cardinality(Behind) <= request.total
    /\ request.at = "breakdown" => Cardinality(onward) <= request.total + request.dlqCount

LEMMA OnwardFinite ==
    ASSUME OnwardOK, Finite
    PROVE  /\ IsFiniteSet(onward) /\ Cardinality(onward) \in Nat
           /\ IsFiniteSet(Behind) /\ Cardinality(Behind) \in Nat
  <1>1. onward \in SUBSET Jobs /\ Behind \in SUBSET Jobs
    BY DEF OnwardOK, Behind
  <1>2. QED
    BY <1>1, PartCounts DEF Finite

\* A job that only goes on does not fall behind.
LEMMA NoneFallsBehind ==
    ASSUME TablesOK, RequestOK, Finite, NEW j \in Jobs, NEW row, Writes(j, row)
    PROVE  Behind' \subseteq Behind /\ onward' \subseteq onward
  <1> USE DEF TablesOK
  <1> SUFFICES ASSUME NEW k \in onward', Ahead(jobs[k], request)
               PROVE  Ahead(jobs'[k], request')
    BY DEF Behind, Writes
  <1>1. jobs'[k] = jobs[k] \/ WentOn(jobs[k], jobs'[k])
    BY OnwardGoesOn
  <1>2. UNCHANGED request /\ k \in Jobs
    BY OnwardGoesOn DEF Writes
  <1>3. jobs'[k] \in Row /\ jobs[k] \in Row
    BY <1>2, RowAfter
  <1>4. Stage(jobs[k]) \in Nat /\ Stage(jobs'[k]) \in Nat /\ request.statement \in Nat
    BY <1>3, StageIs DEF Row, RequestOK, Requests
  <1>5. CASE jobs'[k] = jobs[k]
    BY <1>2, <1>5 DEF Ahead
  <1>6. CASE WentOn(jobs[k], jobs'[k])
    BY <1>2, <1>4, <1>6 DEF Ahead, WentOn, Label
  <1>7. QED
    BY <1>1, <1>5, <1>6

\* A statement counts every job it leaves behind.
LEMMA CountedIfLeftBehind ==
    ASSUME TablesOK, RequestOK, Finite, CountQueue
    PROVE  Behind' \subseteq Behind \cup Counted(Statements[request.statement], Current(request.toDo))
  <1> USE DEF TablesOK
  <1> DEFINE q == Current(request.toDo)
             i == request.statement
  <1> SUFFICES ASSUME NEW k \in onward, Ahead(jobs[k], request), ~Ahead(jobs'[k], request')
               PROVE  k \in Counted(Statements[i], q)
    BY CountQueueDoes DEF Behind, Finite
  <1>1. /\ i \in 1..3 /\ request'.kind = request.kind /\ request'.scope = request.scope
        /\ \/ i = 3 /\ request'.statement = 1 /\ request'.toDo = request.toDo \ {q}
           \/ i \in 1..2 /\ request'.statement = i + 1 /\ request'.toDo = request.toDo
        /\ jobs' = jobs
    BY CountQueueDoes DEF Finite
  <1> DEFINE row == jobs[k]
  <1>2. /\ k \in Jobs /\ row \in Row /\ Stage(row) > 0
        /\ row.home = "jobs" => row.max > 0
    BY DEF OnwardOK, RowsOK, Accountable, InTable
  <1> HIDE DEF row, q
  <1>3. ~Ahead(row, request') /\ Ahead(row, request)
    BY <1>1 DEF row
  <1>4. row.home = "jobs" /\ Label(row) \in request.toDo
    BY <1>1, <1>3 DEF Ahead
  <1>5. Label(row) = q
    <2> SUFFICES ASSUME Label(row) # q PROVE FALSE
      OBVIOUS
    <2>1. Label(row) \in request'.toDo
      BY <1>1, <1>4
    <2>2. Label(row) = Current(request'.toDo) /\ ~(Stage(row) >= request'.statement)
      BY <1>3, <1>4, <2>1 DEF Ahead
    <2>3. request'.statement = 1
      BY <1>1, <2>2 DEF q
    <2>4. Stage(row) \in Nat
      BY <1>2, StageIs DEF Row
    <2>5. QED
      BY <1>2, <2>2, <2>3, <2>4
  <1>6. ~(request.kind = "queueStats" /\ Label(row) \notin request.scope)
    BY <1>1, <1>3, <1>4 DEF Ahead
  <1>7. Stage(row) >= i
    BY <1>3, <1>4, <1>5, <1>6 DEF Ahead, q
  <1>8. i = 3 \/ ~(Stage(row) >= i + 1)
    BY <1>1, <1>3, <1>4, <1>5, <1>6 DEF Ahead, q
  <1>9. Stage(row) = i
    <2>1. Stage(row) \in 0..3
      BY <1>2, <1>4, StageIs DEF Row
    <2>2. QED
      BY <1>1, <1>7, <1>8, <2>1
  <1>10. Matches(Statements[i], row)
    <2>1. row.locked \in BOOLEAN /\ row.due \in BOOLEAN
      BY <1>2 DEF Row
    <2>2. CASE i = 1
      BY <1>2, <1>4, <1>9, <2>1, <2>2, StageIs, StatementsAre DEF Matches
    <2>3. CASE i = 2
      BY <1>2, <1>4, <1>9, <2>1, <2>3, StageIs, StatementsAre DEF Matches
    <2>4. CASE i = 3
      BY <1>2, <1>4, <1>9, <2>1, <2>4, StageIs, StatementsAre DEF Matches
    <2>5. QED
      BY <1>1, <2>2, <2>3, <2>4
  <1>11. QED
    BY <1>2, <1>4, <1>5, <1>10 DEF Counted, InTable, row

LEMMA NoneLostStep ==
    ASSUME TablesOK, RequestOK, NoneLost, Finite, [Next]_vars
    PROVE  NoneLost'
  <1> USE DEF NoneLost
  <1>0. /\ TablesOK' /\ RequestOK' /\ OnwardOK /\ OnwardOK'
        /\ request.total \in Nat /\ request.dlqCount \in Nat
    BY TablesStep, RequestStep DEF TablesOK, RequestOK, Requests
  <1>00. /\ IsFiniteSet(onward) /\ Cardinality(onward) \in Nat
         /\ IsFiniteSet(Behind) /\ Cardinality(Behind) \in Nat
         /\ IsFiniteSet(onward') /\ Cardinality(onward') \in Nat
         /\ IsFiniteSet(Behind') /\ Cardinality(Behind') \in Nat
    <2>1. onward' \in SUBSET Jobs /\ Behind' \in SUBSET Jobs
      BY <1>0 DEF OnwardOK, Behind
    <2>2. QED
      BY <1>0, <2>1, OnwardFinite, PartCounts DEF Finite
  <1>1. ASSUME NEW j \in Jobs, Live(j) PROVE NoneLost'
    <2>1. PICK row : Writes(j, row)
      BY <1>1, LiveWrites DEF TablesOK
    <2>2. Behind' \subseteq Behind /\ onward' \subseteq onward /\ UNCHANGED request
      BY <2>1, NoneFallsBehind DEF Writes
    <2>3. Cardinality(Behind') <= Cardinality(Behind) /\ Cardinality(onward') <= Cardinality(onward)
      BY <1>00, <2>2, FS_Subset
    <2>4. ASSUME request.at = "default", NEW k \in onward', jobs'[k].home = "jobs"
          PROVE  Awaited(jobs[k])'
      <3>1. k \in onward /\ (jobs'[k] = jobs[k] \/ WentOn(jobs[k], jobs'[k]))
        BY <2>1, OnwardGoesOn DEF TablesOK
      <3>2. k \in InTable /\ jobs'[k].queue = jobs[k].queue
        BY <1>0, <2>4, <3>1 DEF InTable, WentOn, OnwardOK
      <3>3. Awaited(jobs[k])
        BY <2>4, <3>1, <3>2
      <3>4. QED
        BY <2>2, <3>2, <3>3 DEF Awaited, Label
    <2>5. QED
      BY <1>0, <1>00, <2>2, <2>3, <2>4 DEF InTable
  <1>2. CASE Begin
    <2>1. CASE request'.at = "names"
      BY <2>1
    <2>2. CASE request'.at = "counts"
      <3>1. /\ request'.kind = "queueStats" /\ request'.toDo = request'.scope
            /\ request'.statement = 1 /\ UNCHANGED jobs
        BY <1>2, <2>2, BeginDoes
      <3>2. ASSUME NEW k \in onward' PROVE Ahead(jobs'[k], request')
        <4>1. k \in Jobs /\ jobs'[k] \in Row /\ Stage(jobs'[k]) > 0
          BY <1>0 DEF OnwardOK, Accountable, TablesOK, RowsOK
        <4>2. jobs'[k].home \in {"jobs", "dlq"} /\ Stage(jobs'[k]) \in Nat
          BY <4>1, StageIs DEF Row
        <4>3. QED
          BY <3>1, <4>1, <4>2 DEF Ahead
      <3>3. Behind' = {}
        BY <3>2 DEF Behind
      <3>4. Cardinality(Behind') = 0
        BY <3>3, FS_EmptySet
      <3>5. request'.total = 0
        BY <1>2, BeginDoes
      <3>6. QED
        BY <2>2, <3>4, <3>5
    <2>3. QED
      BY <1>2, <2>1, <2>2, BeginDoes
  <1>3. CASE ListNames
    <2>1. request'.at = "default" /\ request'.toDo = queueRows /\ UNCHANGED <<jobs, onward>>
      BY <1>3, ListNamesDoes DEF TablesOK
    <2>2. ASSUME NEW k \in onward', k \in InTable' PROVE Awaited(jobs[k])'
      BY <2>1, <2>2 DEF TablesOK, QueuesKnown, InTable, Awaited, Label
    <2>3. QED
      BY <2>1, <2>2
  <1>4. CASE AddDefault
    <2>1. /\ request'.at = "counts" /\ request.at = "default" /\ UNCHANGED <<jobs, onward>>
          /\ request.toDo \subseteq request'.toDo
          /\ \A j \in InTable : jobs[j].queue = NoQueue => "default" \in request'.toDo
          /\ request'.statement = 1 /\ request'.total = 0
      BY <1>4, AddDefaultDoes DEF RequestOK
    <2>2. ASSUME NEW k \in onward PROVE Ahead(jobs[k], request')
      <3>1. k \in Jobs /\ jobs[k] \in Row /\ Stage(jobs[k]) > 0
        BY <1>0 DEF OnwardOK, Accountable, TablesOK, RowsOK
      <3>2. jobs[k].home \in {"jobs", "dlq"} /\ Stage(jobs[k]) \in Nat
        BY <3>1, StageIs DEF Row
      <3>3. ASSUME jobs[k].home = "jobs" PROVE Label(jobs[k]) \in request'.toDo
        <4>1. k \in InTable
          BY <3>1, <3>3 DEF InTable
        <4>2. Awaited(jobs[k])
          BY <2>1, <4>1
        <4>3. QED
          BY <2>1, <4>1, <4>2 DEF Awaited, Label
      <3>4. QED
        BY <2>1, <3>1, <3>2, <3>3 DEF Ahead
    <2>3. Behind' = {}
      BY <2>1, <2>2 DEF Behind
    <2>4. Cardinality(Behind') = 0
      BY <2>3, FS_EmptySet
    <2>5. QED
      BY <2>1, <2>4
  <1>5. CASE CountQueue
    <2> DEFINE C == Counted(Statements[request.statement], Current(request.toDo))
    <2>1. /\ request'.at = "counts" /\ request.at = "counts"
          /\ request'.total = request.total + Cardinality(C)
      BY <1>5, CountQueueDoes DEF Finite
    <2>2. Behind' \subseteq Behind \cup C
      BY <1>5, CountedIfLeftBehind
    <2>3. C \in SUBSET Jobs
      BY DEF Counted, InTable
    <2> HIDE DEF C
    <2>4. IsFiniteSet(C) /\ Cardinality(C) \in Nat
      BY <2>3, PartCounts DEF Finite
    <2>5. /\ IsFiniteSet(Behind \cup C)
          /\ Cardinality(Behind \cup C) = Cardinality(Behind) + Cardinality(C) - Cardinality(Behind \cap C)
      BY <1>00, <2>4, FS_Union
    <2>6. IsFiniteSet(Behind \cap C) /\ Cardinality(Behind \cap C) \in Nat
      BY <1>00, FS_Intersection, FS_CardinalityType
    <2>7. Cardinality(Behind') <= Cardinality(Behind \cup C)
      BY <2>2, <2>5, FS_Subset
    <2>8. Cardinality(Behind') <= request'.total
      BY <1>0, <1>00, <2>1, <2>4, <2>5, <2>6, <2>7
    <2>9. QED
      BY <2>1, <2>8
  <1>6. CASE CountDlq
    <2>1. /\ request.at = "counts" /\ request'.at = "breakdown" /\ request.toDo = {}
          /\ request.kind = "status" /\ request'.total = request.total
          /\ request'.dlqCount = Cardinality(InDlq) /\ UNCHANGED onward
      BY <1>6, CountDlqDoes DEF Finite
    <2>2. onward \subseteq Behind \cup InDlq
      BY <2>1, <1>0 DEF Behind, Ahead, InDlq, OnwardOK
    <2>3. IsFiniteSet(InDlq) /\ Cardinality(InDlq) \in Nat
      BY PartCounts DEF InDlq, Finite
    <2>4. /\ IsFiniteSet(Behind \cup InDlq)
          /\ Cardinality(Behind \cup InDlq)
               = Cardinality(Behind) + Cardinality(InDlq) - Cardinality(Behind \cap InDlq)
      BY <1>00, <2>3, FS_Union
    <2>5. Cardinality(Behind \cap InDlq) \in Nat
      BY <1>00, FS_Intersection, FS_CardinalityType
    <2>6. Cardinality(onward) <= Cardinality(Behind \cup InDlq)
      BY <2>2, <2>4, FS_Subset
    <2>7. QED
      BY <1>0, <1>00, <2>1, <2>3, <2>4, <2>5, <2>6
  <1>7. CASE AnswerStatus \/ AnswerQueues \/ StatementFails
    BY <1>7, EndDoes, IdleIsRequest
  <1>8. CASE UNCHANGED vars
    BY <1>8 DEF vars, Behind, Awaited, InTable
  <1>9. QED
    BY <1>1, <1>2, <1>3, <1>4, <1>5, <1>6, <1>7, <1>8 DEF Next, Serve

LEMMA InitOK == Init => TablesOK /\ RequestOK /\ NoneLost
  <1> SUFFICES ASSUME Init PROVE TablesOK /\ RequestOK /\ NoneLost
    OBVIOUS
  <1>1. Absent("new") \in Row /\ Absent("new").home = "new"
        /\ Absent("new").attempts <= Absent("new").max
    BY AbsentRow
  <1>2. TablesOK
    BY <1>1 DEF Init, TablesOK, RowsOK, QueuesKnown, InTable, OnwardOK
  <1>3. RequestOK /\ NoneLost
    BY IdleIsRequest DEF Init, RequestOK, NoneLost
  <1>4. QED
    BY <1>2, <1>3

\* An answer of GET /status accounts for every job that was due, running, failed or
\* dead when its first statement ran and has only gone on since, however its many
\* statements and the jobs' steps alternate; the answers about the queues account
\* for those of them still in the table.
THEOREM NoJobOverlooked ==
    ASSUME Finite
    PROVE  Spec => NoneOverlooked
  <1> DEFINE Inv == TablesOK /\ RequestOK /\ NoneLost
             Accounts == /\ AnswerStatus => request.total + request.dlqCount >= Cardinality(onward)
                         /\ AnswerQueues => request.total >= Cardinality(onward \cap InScope)
  <1>1. Init => Inv
    BY InitOK
  <1>2. Inv /\ [Next]_vars => Inv'
    <2> SUFFICES ASSUME Inv, [Next]_vars PROVE Inv'
      OBVIOUS
    <2>1. TablesOK'
      BY TablesStep
    <2>2. RequestOK'
      BY RequestStep DEF TablesOK
    <2>3. NoneLost'
      BY NoneLostStep
    <2>4. QED
      BY <2>1, <2>2, <2>3
  <1>3. ASSUME Inv PROVE Accounts
    <2>0. /\ IsFiniteSet(onward) /\ Cardinality(onward) \in Nat
          /\ IsFiniteSet(Behind) /\ Cardinality(Behind) \in Nat
          /\ request.total \in Nat /\ request.dlqCount \in Nat
      BY <1>3, OnwardFinite DEF TablesOK, RequestOK, Requests
    <2>1. ASSUME AnswerStatus PROVE request.total + request.dlqCount >= Cardinality(onward)
      BY <1>3, <2>0, <2>1 DEF AnswerStatus, NoneLost
    <2>2. ASSUME AnswerQueues PROVE request.total >= Cardinality(onward \cap InScope)
      <3>1. request.at = "counts" /\ request.toDo = {}
        BY <2>2 DEF AnswerQueues, CountedAll
      <3>2. onward \cap InScope \subseteq Behind
        BY <3>1 DEF Behind, Ahead, InScope, InTable
      <3>3. Cardinality(onward \cap InScope) <= Cardinality(Behind)
        BY <2>0, <3>2, FS_Subset
      <3>4. Cardinality(onward \cap InScope) \in Nat
        BY <2>0, FS_Intersection, FS_CardinalityType
      <3>5. QED
        BY <1>3, <2>0, <3>1, <3>3, <3>4 DEF NoneLost
    <2>3. QED
      BY <2>1, <2>2
  <1> HIDE DEF Inv
  <1>4. QED
    <2>1. Inv => [Accounts]_vars
      BY <1>3
    <2>2. QED
      BY <1>1, <1>2, <2>1, PTL DEF Spec, NoneOverlooked

-----------------------------------------------------------------------------
(* How far an answer may be off.                                            *)

\* Two more of the sets that are counted, and how many statements have been run.
Finished(i, row, r) ==
    Label(row) \notin r.toDo \/ (Label(row) = Current(r.toDo) /\ i < r.statement)
Scoped(row, r) == row.home = "jobs" /\ (r.kind = "queueStats" => Label(row) \in r.scope)
Read(i) == {j \in Jobs \ touched : /\ Scoped(jobs[j], request)
                                   /\ Matches(Statements[i], jobs[j])
                                   /\ Finished(i, jobs[j], request)}
ReadAll == Cardinality(Read(1)) + Cardinality(Read(2)) + Cardinality(Read(3))
Progress == 3 * (Cardinality(Labels) - Cardinality(request.toDo)) + request.statement - 1

\* The total is exact for the jobs nobody has written to; of the others, each
\* statement counts each at most once.
CountsOK ==
    /\ request.at = "default" => \A j \in InTable \ touched : Awaited(jobs[j])
    /\ request.at \in {"counts", "breakdown"} =>
          /\ request.total >= ReadAll
          /\ request.total <= ReadAll + Progress * Cardinality(touched)
          /\ request.total <= Cardinality(Jobs) * Progress
    /\ request.dlqCount <= Cardinality(Jobs)

LEMMA LabelsFinite ==
    ASSUME Finite
    PROVE  IsFiniteSet(Labels) /\ Cardinality(Labels) \in Nat /\ Cardinality(Jobs) \in Nat
  BY FS_AddElement, FS_CardinalityType DEF Finite, Labels

LEMMA ProgressInRange ==
    ASSUME Finite, RequestOK
    PROVE  /\ Progress \in 0..(3 * Cardinality(Labels))
           /\ IsFiniteSet(request.toDo) /\ Cardinality(request.toDo) \in Nat
           /\ \A l \in Labels : l \notin request.toDo => Progress >= 3
           /\ Progress >= request.statement - 1
           /\ request.toDo = {} => Progress = 3 * Cardinality(Labels)
  <1> DEFINE L == Cardinality(Labels)
             T == Cardinality(request.toDo)
  <1>1. request.toDo \in SUBSET Labels /\ request.statement \in 1..3
    BY DEF RequestOK, Requests
  <1>2. IsFiniteSet(request.toDo) /\ T \in Nat /\ L \in Nat /\ T <= L
    BY <1>1, LabelsFinite, PartCounts
  <1>3. request.toDo = {} <=> T = 0
    BY <1>2, FS_EmptySet
  <1>4. ASSUME NEW l \in Labels, l \notin request.toDo PROVE T < L
    <2>1. request.toDo # Labels
      BY <1>4
    <2>2. T # L
      BY <1>1, <2>1, LabelsFinite, FS_Subset
    <2>3. QED
      BY <1>2, <2>2
  <1>5. request.toDo = {} => request.statement = 1
    BY DEF RequestOK
  <1>6. Progress = 3 * (L - T) + request.statement - 1
    BY DEF Progress
  <1> HIDE DEF L, T
  <1>7. QED
    BY <1>1, <1>2, <1>3, <1>4, <1>5, <1>6 DEF L, T

LEMMA ReadFinite ==
    ASSUME Finite, NEW i
    PROVE  IsFiniteSet(Read(i)) /\ Cardinality(Read(i)) \in Nat
  <1>1. Read(i) \in SUBSET Jobs
    BY DEF Read
  <1>2. QED
    BY <1>1, PartCounts DEF Finite

LEMMA TouchedFinite ==
    ASSUME Finite, OnwardOK
    PROVE  IsFiniteSet(touched) /\ Cardinality(touched) \in Nat
  BY PartCounts DEF Finite, OnwardOK

\* Removing an element takes one off, or nothing.
LEMMA OneOff ==
    ASSUME NEW S, IsFiniteSet(S), NEW x
    PROVE  Cardinality(S) = Cardinality(S \ {x}) + (IF x \in S THEN 1 ELSE 0)
  <1>1. Cardinality(S) \in Nat
    BY FS_CardinalityType
  <1>2. ASSUME x \in S PROVE Cardinality(S \ {x}) = Cardinality(S) - 1
    BY <1>2, FS_RemoveElement
  <1>3. ASSUME x \notin S PROVE S \ {x} = S
    BY <1>3
  <1>4. x \notin S => Cardinality(S \ {x}) = Cardinality(S)
    BY <1>3
  <1> DEFINE m == Cardinality(S \ {x})
             n == Cardinality(S)
  <1> HIDE DEF m, n
  <1>5. QED
    BY <1>1, <1>2, <1>4 DEF m, n

\* Writing to a job takes it out of what is read: off no more than the statements
\* that have counted it.
LEMMA TouchedOff ==
    ASSUME Finite, TablesOK, RequestOK, NEW j \in Jobs, NEW row, Writes(j, row),
           request # Idle
    PROVE  /\ ReadAll' \in Nat /\ ReadAll \in Nat
           /\ j \in touched => ReadAll' = ReadAll
           /\ ReadAll' <= ReadAll /\ ReadAll <= ReadAll' + Progress
  <1> DEFINE d(i) == IF j \in Read(i) THEN 1 ELSE 0
  <1>1. ASSUME NEW i PROVE (Read(i))' = Read(i) \ {j}
    <2> SUFFICES ASSUME NEW k \in Jobs
                 PROVE  k \in (Read(i))' <=> k \in Read(i) \ {j}
      BY DEF Read
    <2>1. /\ touched' = touched \cup {j} /\ UNCHANGED request
          /\ jobs'[k] = IF k = j THEN row ELSE jobs[k]
      BY RowAfter DEF Writes, TablesOK
    <2>2. QED
      BY <2>1 DEF Read
  <1>2. ASSUME NEW i
        PROVE  /\ Cardinality(Read(i)) \in Nat /\ Cardinality((Read(i))') \in Nat
               /\ Cardinality(Read(i)) = Cardinality((Read(i))') + d(i)
    <2>1. IsFiniteSet(Read(i)) /\ Cardinality(Read(i)) \in Nat
      BY ReadFinite
    <2>2. IsFiniteSet(Read(i) \ {j}) /\ Cardinality(Read(i) \ {j}) \in Nat
      BY <2>1, FS_Subset, FS_CardinalityType
    <2>3. Cardinality(Read(i)) = Cardinality(Read(i) \ {j}) + d(i)
      BY <2>1, OneOff
    <2>4. QED
      BY <1>1, <2>1, <2>2, <2>3
  <1>3. d(1) + d(2) + d(3) <= Progress
    <2>0. /\ Progress \in Nat /\ Progress >= request.statement - 1 /\ request.statement \in 1..3
          /\ \A l \in Labels : l \notin request.toDo => Progress >= 3
      BY ProgressInRange, LabelsFinite DEF RequestOK, Requests
    <2>1. \A i : d(i) = 1 => Finished(i, jobs[j], request)
      BY DEF Read
    <2>2. Label(jobs[j]) \in Labels
      BY DEF Label, Labels, TablesOK, RowsOK, Row
    <2>3. CASE Label(jobs[j]) \notin request.toDo
      BY <2>0, <2>2, <2>3
    <2>4. CASE Label(jobs[j]) \in request.toDo
      <3>1. \A i \in 1..3 : d(i) = 1 => i < request.statement
        BY <2>1, <2>4 DEF Finished
      <3>2. d(1) \in {0, 1} /\ d(2) \in {0, 1} /\ d(3) \in {0, 1}
        OBVIOUS
      <3> HIDE DEF d
      <3>3. QED
        BY <2>0, <3>1, <3>2
    <2>5. QED
      BY <2>3, <2>4
  <1>4. j \in touched => d(1) = 0 /\ d(2) = 0 /\ d(3) = 0
    BY DEF Read
  <1>5. d(1) \in {0, 1} /\ d(2) \in {0, 1} /\ d(3) \in {0, 1} /\ Progress \in Nat
    BY ProgressInRange, LabelsFinite
  <1> DEFINE n(i) == Cardinality(Read(i))
             m(i) == Cardinality((Read(i))')
  <1>6. /\ n(1) = m(1) + d(1) /\ n(2) = m(2) + d(2) /\ n(3) = m(3) + d(3)
        /\ n(1) \in Nat /\ n(2) \in Nat /\ n(3) \in Nat
        /\ m(1) \in Nat /\ m(2) \in Nat /\ m(3) \in Nat
    BY <1>2
  <1>7. ReadAll = n(1) + n(2) + n(3) /\ ReadAll' = m(1) + m(2) + m(3)
    BY DEF ReadAll
  <1> HIDE DEF d, n, m
  <1>8. QED
    BY <1>3, <1>4, <1>5, <1>6, <1>7

\* A statement adds what it counts: those nobody has written to, and others.
LEMMA StatementAdds ==
    ASSUME Finite, TablesOK, RequestOK, CountQueue
    PROVE  \E n \in Nat, m \in Nat :
             /\ request'.total = request.total + n + m
             /\ ReadAll' = ReadAll + n /\ ReadAll \in Nat
             /\ m <= Cardinality(touched) /\ n + m <= Cardinality(Jobs)
  <1>0. PICK i \in 1..3 : i = request.statement
    BY DEF RequestOK, Requests
  <1> DEFINE q == Current(request.toDo)
             C == Counted(Statements[i], q)
             New == C \ touched
             Old == C \cap touched
  <1>1. /\ q \in request.toDo /\ request'.total = request.total + Cardinality(C)
        /\ request'.kind = request.kind /\ request'.scope = request.scope
        /\ \/ i = 3 /\ request'.statement = 1 /\ request'.toDo = request.toDo \ {q}
           \/ i \in 1..2 /\ request'.statement = i + 1 /\ request'.toDo = request.toDo
        /\ UNCHANGED <<jobs, touched>>
    BY <1>0, CountQueueDoes DEF Finite
  <1>2. C \in SUBSET Jobs /\ New \in SUBSET Jobs /\ Old \in SUBSET Jobs
    BY DEF Counted, InTable
  <1>3. request.kind = "queueStats" => q \in request.scope
    BY <1>1 DEF RequestOK
  <1>4. ASSUME NEW k \in 1..3, k # i PROVE (Read(k))' = Read(k)
    <2> SUFFICES ASSUME NEW j \in Jobs
                 PROVE  Finished(k, jobs[j], request') <=> Finished(k, jobs[j], request)
      BY <1>1 DEF Read, Scoped
    <2>1. CASE i = 3
      <3>1. k < i /\ ~(k < request'.statement)
        BY <1>1, <1>4, <2>1
      <3>2. QED
        BY <1>0, <1>1, <2>1, <3>1 DEF Finished
    <2>2. CASE i \in 1..2
      <3>1. k < i <=> k < i + 1
        BY <1>1, <1>4
      <3>2. QED
        BY <1>0, <1>1, <2>2, <3>1 DEF Finished
    <2>3. QED
      BY <1>1, <2>1, <2>2
  <1>5. (Read(i))' = Read(i) \cup New /\ Read(i) \cap New = {}
    <2>1. ASSUME NEW j \in Jobs
          PROVE  /\ Finished(i, jobs[j], request) <=> Label(jobs[j]) \notin request.toDo
                 /\ Finished(i, jobs[j], request')
                      <=> Label(jobs[j]) \notin request.toDo \/ Label(jobs[j]) = q
      <3>1. ~(i < i) /\ i < i + 1 /\ ~(i < 1)
        OBVIOUS
      <3>2. CASE i = 3
        BY <1>0, <1>1, <3>1, <3>2 DEF Finished
      <3>3. CASE i \in 1..2
        BY <1>0, <1>1, <3>1, <3>3 DEF Finished
      <3>4. QED
        BY <1>1, <3>2, <3>3
    <2>2. ASSUME NEW j \in Jobs
          PROVE  j \in New <=> /\ j \notin touched /\ Scoped(jobs[j], request)
                               /\ Label(jobs[j]) = q /\ Matches(Statements[i], jobs[j])
      BY <1>3 DEF Counted, InTable, Scoped
    <2>3. \A row : Scoped(row, request') <=> Scoped(row, request)
      BY <1>1 DEF Scoped
    <2>4. Read(i) = {j \in Jobs : /\ j \notin touched /\ Scoped(jobs[j], request)
                                  /\ Matches(Statements[i], jobs[j])
                                  /\ Label(jobs[j]) \notin request.toDo}
      BY <2>1 DEF Read
    <2>5. (Read(i))' = {j \in Jobs : /\ j \notin touched /\ Scoped(jobs[j], request)
                                     /\ Matches(Statements[i], jobs[j])
                                     /\ Label(jobs[j]) \notin request.toDo \/ Label(jobs[j]) = q}
      <3>1. (Read(i))' = {j \in Jobs : /\ j \notin touched
                                       /\ Scoped(jobs[j], request)
                                       /\ Matches(Statements[i], jobs[j])
                                       /\ Finished(i, jobs[j], request')}
        BY <1>1, <2>3 DEF Read
      <3>2. QED
        BY <2>1, <3>1
    <2> HIDE DEF New, C, q
    <2>6. New \subseteq Jobs
      BY <1>2
    <2>7. Read(i) \cap New = {}
      BY <1>1, <2>2, <2>4, <2>6
    <2>8. QED
      BY <2>2, <2>4, <2>5, <2>6, <2>7
  <1> DEFINE n == Cardinality(New)
             m == Cardinality(Old)
  <1>6. /\ IsFiniteSet(New) /\ n \in Nat /\ IsFiniteSet(Old) /\ m \in Nat
        /\ IsFiniteSet(C) /\ Cardinality(C) <= Cardinality(Jobs) /\ Cardinality(Jobs) \in Nat
    BY <1>2, PartCounts DEF Finite
  <1>7. Cardinality(C) = n + m
    <2>1. New \cap Old = {} /\ New \cup Old = C
      OBVIOUS
    <2> HIDE DEF New, Old, C
    <2>2. QED
      BY <1>6, <2>1, FS_Union, FS_EmptySet
  <1>8. m <= Cardinality(touched)
    BY TouchedFinite, FS_Subset DEF TablesOK
  <1>9. Cardinality((Read(i))') = Cardinality(Read(i)) + n
    <2> HIDE DEF New, Old, C
    <2>1. IsFiniteSet(Read(i)) /\ Cardinality(Read(i)) \in Nat
      BY ReadFinite
    <2>2. Cardinality(Read(i) \cup New)
            = Cardinality(Read(i)) + Cardinality(New) - Cardinality(Read(i) \cap New)
      BY <1>6, <2>1, FS_Union
    <2>3. Cardinality(Read(i) \cap New) = 0
      BY <1>5, FS_EmptySet
    <2>4. Cardinality(Read(i) \cup New) = Cardinality(Read(i)) + n
      BY <1>6, <2>1, <2>2, <2>3
    <2>5. QED
      BY <1>5, <2>4
  <1>10. /\ Cardinality(Read(1)) \in Nat /\ Cardinality(Read(2)) \in Nat
         /\ Cardinality(Read(3)) \in Nat
    BY ReadFinite
  <1>11. ReadAll' = ReadAll + n /\ ReadAll \in Nat
    <2>1. CASE i = 1
      <3>1. (Read(2))' = Read(2) /\ (Read(3))' = Read(3)
        BY <1>4, <2>1
      <3>2. QED
        BY <1>6, <1>9, <1>10, <2>1, <3>1 DEF ReadAll
    <2>2. CASE i = 2
      <3>1. (Read(1))' = Read(1) /\ (Read(3))' = Read(3)
        BY <1>4, <2>2
      <3>2. QED
        BY <1>6, <1>9, <1>10, <2>2, <3>1 DEF ReadAll
    <2>3. CASE i = 3
      <3>1. (Read(1))' = Read(1) /\ (Read(2))' = Read(2)
        BY <1>4, <2>3
      <3>2. QED
        BY <1>6, <1>9, <1>10, <2>3, <3>1 DEF ReadAll
    <2>4. QED
      BY <2>1, <2>2, <2>3
  <1>12. request'.total = request.total + n + m
    <2>1. request.total \in Nat
      BY DEF RequestOK, Requests
    <2>2. QED
      BY <1>1, <1>6, <1>7, <2>1
  <1>13. n + m <= Cardinality(Jobs)
    BY <1>6, <1>7
  <1>14. QED
    BY <1>6, <1>8, <1>11, <1>12, <1>13

\* Products of counts, for the bounds.
LEMMA Products ==
    ASSUME NEW a \in Nat, NEW b \in Nat
    PROVE  /\ a * b \in Nat /\ a * (b + 1) = a * b + a /\ (a + 1) * b = a * b + b
           /\ a * 0 = 0 /\ 0 * a = 0
  OBVIOUS

LEMMA ProductsGrow ==
    ASSUME NEW a \in Nat, NEW b \in Nat, NEW c \in Nat, b <= c
    PROVE  a * b <= a * c
  <1>1. PICK d \in Nat : c = b + d
    <2>1. c - b \in Nat /\ c = b + (c - b)
      OBVIOUS
    <2>2. QED
      BY <2>1
  <1>2. a * c = a * b + a * d /\ a * d \in Nat /\ a * b \in Nat
    BY <1>1
  <1>3. QED
    BY <1>2

\* The bounds of a total when a job counted by p statements at most is written to,
\* and when another statement adds its count.
LEMMA BoundsLoosen ==
    ASSUME NEW total \in Nat, NEW r \in Nat, NEW s \in Nat, NEW p \in Nat, NEW t \in Nat,
           s <= r, r <= s + p, total >= r, total <= r + p * t
    PROVE  total >= s /\ total <= s + p * (t + 1)
  <1>1. p * (t + 1) = p * t + p /\ p * t \in Nat
    BY Products
  <1> DEFINE x == p * t
             y == p * (t + 1)
  <1>2. y = x + p /\ x \in Nat /\ total <= r + x
    BY <1>1
  <1> HIDE DEF x, y
  <1>3. total <= s + y
    BY <1>2
  <1>4. QED
    BY <1>3 DEF y

LEMMA BoundsGrow ==
    ASSUME NEW total \in Nat, NEW r \in Nat, NEW p \in Nat, NEW t \in Nat, NEW j \in Nat,
           NEW n \in Nat, NEW m \in Nat, m <= t, n + m <= j,
           total >= r, total <= r + p * t, total <= j * p
    PROVE  /\ total + n + m >= r + n
           /\ total + n + m <= (r + n) + (p + 1) * t
           /\ total + n + m <= j * (p + 1)
  <1>1. /\ (p + 1) * t = p * t + t /\ p * t \in Nat
        /\ j * (p + 1) = j * p + j /\ j * p \in Nat
    BY Products
  <1> DEFINE x == p * t
             y == (p + 1) * t
             v == j * p
             w == j * (p + 1)
  <1>2. /\ y = x + t /\ x \in Nat /\ total <= r + x
        /\ w = v + j /\ v \in Nat /\ total <= v
    BY <1>1
  <1> HIDE DEF x, y, v, w
  <1>3. total + n + m >= r + n /\ total + n + m <= (r + n) + y /\ total + n + m <= w
    BY <1>2
  <1>4. QED
    BY <1>3 DEF y, w

LEMMA CountsStep ==
    ASSUME Finite, TablesOK, RequestOK, CountsOK, [Next]_vars
    PROVE  CountsOK'
  <1> DEFINE J == Cardinality(Jobs)
             T == Cardinality(touched)
             P == Progress
  <1>0. /\ TablesOK' /\ RequestOK' /\ J \in Nat /\ T \in Nat /\ T' \in Nat
        /\ P \in Nat /\ P' \in Nat /\ request.total \in Nat /\ request.dlqCount \in Nat
    <2>1. TablesOK' /\ RequestOK'
      BY TablesStep, RequestStep DEF TablesOK
    <2>2. P \in Nat /\ request.total \in Nat /\ request.dlqCount \in Nat
      BY LabelsFinite, ProgressInRange DEF RequestOK, Requests
    <2>3. touched' \in SUBSET Jobs
      BY <2>1 DEF TablesOK, OnwardOK
    <2>4. J \in Nat /\ T \in Nat /\ T' \in Nat
      BY <2>3, LabelsFinite, TouchedFinite, PartCounts DEF TablesOK, Finite
    <2>5. P' \in Nat
      <3>1. request'.toDo \in SUBSET Labels /\ request'.statement \in 1..3
        BY <2>1 DEF RequestOK, Requests
      <3>2. Cardinality(request'.toDo) <= Cardinality(Labels) /\ Cardinality(request'.toDo) \in Nat
        BY <3>1, LabelsFinite, PartCounts
      <3>3. QED
        BY <3>1, <3>2, LabelsFinite DEF Progress
    <2>6. QED
      BY <2>1, <2>2, <2>4, <2>5
  <1>1. ASSUME NEW j \in Jobs, Live(j) PROVE CountsOK'
    <2>1. PICK row : Writes(j, row)
      BY <1>1, LiveWrites DEF TablesOK
    <2>2. UNCHANGED request /\ P' = P
      BY <2>1 DEF Writes, Progress
    <2>3. CASE request = Idle
      BY <2>2, <2>3, IdleIsRequest DEF CountsOK
    <2>4. CASE request # Idle
      <3>1. touched' = touched \cup {j}
        BY <2>1, <2>4 DEF Writes
      <3>2. ASSUME request.at = "default", NEW k \in InTable' \ touched' PROVE Awaited(jobs[k])'
        <4>1. k \in Jobs /\ k # j /\ k \notin touched /\ jobs'[k].home = "jobs"
          BY <3>1, <3>2 DEF InTable
        <4>2. jobs'[k] = jobs[k]
          BY <2>1, <4>1, RowAfter DEF TablesOK
        <4>3. Awaited(jobs[k])
          BY <3>2, <4>1, <4>2 DEF CountsOK, InTable
        <4>4. QED
          BY <2>2, <4>2, <4>3 DEF Awaited
      <3>3. /\ ReadAll' \in Nat /\ ReadAll \in Nat
            /\ j \in touched => ReadAll' = ReadAll
            /\ ReadAll' <= ReadAll /\ ReadAll <= ReadAll' + P
        BY <2>1, <2>4, TouchedOff
      <3>4. T' = IF j \in touched THEN T ELSE T + 1
        BY <3>1, FS_AddElement, TouchedFinite DEF TablesOK
      <3>5. ASSUME request.at \in {"counts", "breakdown"}
            PROVE  /\ request.total >= ReadAll' /\ request.total <= ReadAll' + P * T'
                   /\ request.total <= J * P
        <4>1. /\ request.total >= ReadAll /\ request.total <= ReadAll + P * T
              /\ request.total <= J * P
          BY <3>5 DEF CountsOK
        <4> HIDE DEF P, T, J
        <4>2. CASE j \in touched
          <5>1. T' = T /\ ReadAll' = ReadAll
            BY <3>3, <3>4, <4>2
          <5>2. QED
            BY <4>1, <5>1
        <4>3. CASE j \notin touched
          <5>1. T' = T + 1
            BY <3>4, <4>3
          <5>2. request.total >= ReadAll' /\ request.total <= ReadAll' + P * (T + 1)
            BY <1>0, <3>3, <4>1, BoundsLoosen
          <5>3. QED
            BY <4>1, <5>1, <5>2
        <4>4. QED
          BY <4>2, <4>3
      <3> HIDE DEF P, T, J
      <3>6. QED
        BY <2>2, <3>2, <3>5 DEF CountsOK, P, T, J
    <2>5. QED
      BY <2>3, <2>4
  \* A count that begins has nothing to add yet.
  <1>2. ASSUME \A k \in Jobs \ touched', i \in 1..3 :
                  Scoped(jobs[k], request)' => ~Finished(i, jobs[k], request)',
               request'.at = "counts", request'.total = 0, request'.dlqCount = 0
        PROVE  CountsOK'
    <2>1. (Read(1))' = {} /\ (Read(2))' = {} /\ (Read(3))' = {}
      BY <1>2 DEF Read
    <2>2. ReadAll' = 0
      BY <2>1, FS_EmptySet DEF ReadAll
    <2>3. P' * T' \in Nat /\ J * P' \in Nat
      BY <1>0, Products
    <2>4. 0 <= ReadAll' + P' * T' /\ 0 <= J * P' /\ 0 <= J
      BY <1>0, <2>2, <2>3
    <2>5. QED
      BY <1>2, <2>2, <2>4 DEF CountsOK
  <1>3. CASE Begin
    <2>1. CASE request'.at = "names"
      BY <1>0, <1>3, <2>1, BeginDoes DEF CountsOK
    <2>2. CASE request'.at = "counts"
      <3>1. /\ request'.kind = "queueStats" /\ request'.toDo = request'.scope
            /\ request'.statement = 1 /\ request'.total = 0 /\ request'.dlqCount = 0
        BY <1>3, <2>2, BeginDoes
      <3>2. \A k \in Jobs \ touched', i \in 1..3 :
               Scoped(jobs[k], request)' => ~Finished(i, jobs[k], request)'
        BY <3>1 DEF Scoped, Finished
      <3>3. QED
        BY <1>2, <2>2, <3>1, <3>2
    <2>3. QED
      BY <1>3, <2>1, <2>2, BeginDoes
  <1>4. CASE ListNames
    <2>1. request'.at = "default" /\ request'.toDo = queueRows /\ UNCHANGED <<jobs, touched>>
          /\ request'.dlqCount = 0
      BY <1>4, ListNamesDoes DEF TablesOK, RequestOK
    <2>2. ASSUME NEW k \in InTable' PROVE Awaited(jobs[k])'
      BY <2>1, <2>2 DEF TablesOK, QueuesKnown, InTable, Awaited, Label
    <2>3. QED
      BY <1>0, <2>1, <2>2 DEF CountsOK
  <1>5. CASE AddDefault
    <2>1. /\ request'.at = "counts" /\ request.at = "default" /\ UNCHANGED <<jobs, touched>>
          /\ request.toDo \subseteq request'.toDo
          /\ \A j \in InTable : jobs[j].queue = NoQueue => "default" \in request'.toDo
          /\ request'.statement = 1 /\ request'.total = 0 /\ request'.dlqCount = 0
      BY <1>5, AddDefaultDoes DEF RequestOK
    <2>2. ASSUME NEW k \in Jobs \ touched', jobs[k].home = "jobs"
          PROVE  Label(jobs[k]) \in request'.toDo
      <3>1. k \in InTable \ touched
        BY <2>1, <2>2 DEF InTable
      <3>2. Awaited(jobs[k])
        BY <2>1, <3>1 DEF CountsOK
      <3>3. QED
        BY <2>1, <3>1, <3>2 DEF Awaited, Label
    <2>3. \A k \in Jobs \ touched', i \in 1..3 :
             Scoped(jobs[k], request)' => ~Finished(i, jobs[k], request)'
      BY <2>1, <2>2 DEF Scoped, Finished
    <2>4. QED
      BY <1>2, <2>1, <2>3
  <1>6. CASE CountQueue
    <2>1. PICK n \in Nat, m \in Nat :
             /\ request'.total = request.total + n + m
             /\ ReadAll' = ReadAll + n /\ ReadAll \in Nat
             /\ m <= T /\ n + m <= J
      BY <1>6, StatementAdds
    <2>2. /\ request.at = "counts" /\ request'.at = "counts" /\ UNCHANGED touched
          /\ request'.dlqCount = request.dlqCount
      BY <1>6, CountQueueDoes DEF Finite
    <2>3. P' = P + 1
      <3> DEFINE q == Current(request.toDo)
                 t == Cardinality(request.toDo)
      <3>1. /\ q \in request.toDo
            /\ \/ /\ request.statement = 3 /\ request'.statement = 1
                  /\ request'.toDo = request.toDo \ {q}
               \/ /\ request.statement \in 1..2 /\ request'.statement = request.statement + 1
                  /\ request'.toDo = request.toDo
        BY <1>6, CountQueueDoes DEF Finite
      <3>2. IsFiniteSet(request.toDo) /\ t \in Nat /\ Cardinality(Labels) \in Nat
        BY ProgressInRange, LabelsFinite
      <3>3. Cardinality(request.toDo \ {q}) = t - 1
        BY <3>1, <3>2, FS_RemoveElement
      <3>4. CASE request.statement = 3
        <4>1. Cardinality(request'.toDo) = t - 1 /\ request'.statement = 1
          BY <3>1, <3>3, <3>4
        <4> HIDE DEF q, t
        <4>2. QED
          BY <3>2, <3>4, <4>1 DEF Progress, t
      <3>5. CASE request.statement \in 1..2
        <4>1. request'.toDo = request.toDo /\ request'.statement = request.statement + 1
          BY <3>1, <3>5
        <4>2. Cardinality(request'.toDo) = t
          BY <4>1
        <4> HIDE DEF q, t
        <4>3. QED
          BY <3>2, <3>5, <4>1, <4>2 DEF Progress, t
      <3>6. QED
        BY <3>1, <3>4, <3>5
    <2>4. request.total >= ReadAll /\ request.total <= ReadAll + P * T /\ request.total <= J * P
          /\ request.dlqCount <= J
      BY <2>2 DEF CountsOK
    <2>5. T' = T
      BY <2>2
    <2> HIDE DEF P, T, J
    <2>6. /\ request.total + n + m >= ReadAll + n
          /\ request.total + n + m <= (ReadAll + n) + (P + 1) * T
          /\ request.total + n + m <= J * (P + 1)
      BY <1>0, <2>1, <2>4, BoundsGrow
    <2>7. /\ request'.total >= ReadAll' /\ request'.total <= ReadAll' + P' * T'
          /\ request'.total <= J * P'
      BY <2>1, <2>3, <2>5, <2>6
    <2>8. QED
      BY <2>2, <2>4, <2>7 DEF CountsOK, P, T, J
  <1>7. CASE CountDlq
    <2>1. /\ request.at = "counts" /\ request'.at = "breakdown"
          /\ request'.total = request.total /\ request'.statement = request.statement
          /\ request'.toDo = request.toDo /\ request'.kind = request.kind
          /\ request'.scope = request.scope
          /\ request'.dlqCount = Cardinality(InDlq) /\ UNCHANGED <<jobs, touched>>
      BY <1>7, CountDlqDoes DEF Finite
    <2>2. Cardinality(InDlq) <= J
      BY PartCounts DEF InDlq, Finite
    <2>3. ReadAll' = ReadAll
      <3>1. (Read(1))' = Read(1) /\ (Read(2))' = Read(2) /\ (Read(3))' = Read(3)
        BY <2>1 DEF Read, Scoped, Finished
      <3>2. QED
        BY <3>1 DEF ReadAll
    <2>4. P' = P
      BY <2>1 DEF Progress
    <2>5. QED
      BY <2>1, <2>2, <2>3, <2>4 DEF CountsOK
  <1>8. CASE AnswerStatus \/ AnswerQueues \/ StatementFails
    BY <1>0, <1>8, EndDoes, IdleIsRequest DEF CountsOK
  <1>9. CASE UNCHANGED vars
    <2>1. UNCHANGED <<request, jobs, touched>>
      BY <1>9 DEF vars
    <2>2. ReadAll' = ReadAll /\ P' = P /\ InTable' = InTable
      BY <2>1 DEF ReadAll, Read, Progress, InTable
    <2>3. QED
      BY <2>1, <2>2 DEF CountsOK, Awaited
  <1>10. QED
    BY <1>1, <1>3, <1>4, <1>5, <1>6, <1>7, <1>8, <1>9 DEF Next, Serve

\* A job is counted by no statement, by one, or, while it runs its last attempt,
\* as active and as failed.
LEMMA WeightIs ==
    ASSUME NEW row \in Row
    PROVE  /\ Weight(row) >= 1 <=> \E i \in 1..3 : Matches(Statements[i], row)
           /\ Weight(row) >= 2 <=> Matches(Statements[2], row) /\ Matches(Statements[3], row)
           /\ Matches(Statements[1], row)
                => ~Matches(Statements[2], row) /\ ~Matches(Statements[3], row)
  <1> DEFINE A == Matches(Statements[1], row)
             B == Matches(Statements[2], row)
             C == Matches(Statements[3], row)
             M == {i \in 1..3 : Matches(Statements[i], row)}
  <1>1. /\ A <=> ~row.locked /\ row.due /\ ~UsedUp(row)
        /\ B <=> row.locked
        /\ C <=> UsedUp(row) /\ row.max > 0
    <2>1. /\ Matches("pending", row) <=> ~row.locked /\ row.due /\ ~UsedUp(row)
          /\ Matches("active", row) <=> row.locked
          /\ Matches("failed", row) <=> UsedUp(row) /\ row.max > 0
      BY DEF Matches, Row
    <2>2. QED
      BY <2>1, StatementsAre
  <1>2. A => ~B /\ ~C
    BY <1>1
  <1>3. /\ 1 \in M <=> A
        /\ 2 \in M <=> B
        /\ 3 \in M <=> C
        /\ M \subseteq {1, 2, 3}
    OBVIOUS
  <1>4. Weight(row) = Cardinality(M)
    BY StatementsAre DEF Weight
  <1>5. (\E i \in 1..3 : Matches(Statements[i], row)) <=> A \/ B \/ C
    OBVIOUS
  <1> HIDE DEF A, B, C, M
  <1>6. CASE B /\ C
    <2>1. M = {2, 3}
      BY <1>2, <1>3, <1>6
    <2>2. IsFiniteSet({2}) /\ Cardinality({2}) = 1
      BY FS_Singleton
    <2>3. Cardinality({2} \cup {3}) = 2
      BY <2>2, FS_AddElement
    <2>4. {2} \cup {3} = {2, 3}
      OBVIOUS
    <2>5. Weight(row) = 2
      BY <1>4, <2>1, <2>3, <2>4
    <2>6. QED
      BY <1>2, <1>5, <1>6, <2>5 DEF A, B, C
  <1>7. CASE ~(B /\ C) /\ (A \/ B \/ C)
    <2>1. PICK i \in {1, 2, 3} : M = {i}
      <3>1. M = {1} \/ M = {2} \/ M = {3}
        BY <1>2, <1>3, <1>7
      <3>2. QED
        BY <3>1
    <2>2. Weight(row) = 1
      BY <1>4, <2>1, FS_Singleton
    <2>3. QED
      BY <1>2, <1>5, <1>7, <2>2 DEF A, B, C
  <1>8. CASE ~(A \/ B \/ C)
    <2>1. M = {}
      BY <1>3, <1>8
    <2>2. Weight(row) = 0
      BY <1>4, <2>1, FS_EmptySet
    <2>3. QED
      BY <1>2, <1>5, <1>8, <2>2 DEF A, B, C
  <1>9. QED
    BY <1>6, <1>7, <1>8

\* The three counts of a set of jobs add up to what the jobs weigh.
LEMMA WeighIs ==
    ASSUME RowsOK, Finite, NEW S \in SUBSET Jobs
    PROVE  LET part(i) == {j \in S : Matches(Statements[i], jobs[j])}
           IN  Weigh(S) = Cardinality(part(1)) + Cardinality(part(2)) + Cardinality(part(3))
  <1> DEFINE A == {j \in S : Matches(Statements[1], jobs[j])}
             B == {j \in S : Matches(Statements[2], jobs[j])}
             C == {j \in S : Matches(Statements[3], jobs[j])}
  <1>1. ASSUME NEW j \in S
        PROVE  /\ Weight(jobs[j]) >= 1 <=> j \in A \cup (B \cup C)
               /\ Weight(jobs[j]) >= 2 <=> j \in B \cap C
               /\ j \notin A \cap (B \cup C)
    <2>1. jobs[j] \in Row
      BY DEF RowsOK
    <2>2. (\E i \in 1..3 : Matches(Statements[i], jobs[j]))
             <=> \/ Matches(Statements[1], jobs[j]) \/ Matches(Statements[2], jobs[j])
                 \/ Matches(Statements[3], jobs[j])
      OBVIOUS
    <2>3. QED
      BY <2>1, <2>2, WeightIs
  <1>2. A \in SUBSET S /\ B \in SUBSET S /\ C \in SUBSET S
    OBVIOUS
  <1> HIDE DEF A, B, C
  <1>3. /\ {j \in S : Weight(jobs[j]) >= 1} = A \cup (B \cup C)
        /\ {j \in S : Weight(jobs[j]) >= 2} = B \cap C
        /\ A \cap (B \cup C) = {}
    BY <1>1, <1>2
  <1>4. IsFiniteSet(A) /\ IsFiniteSet(B) /\ IsFiniteSet(C)
    BY <1>2, FS_Subset DEF Finite
  <1>5. /\ IsFiniteSet(B \cup C)
        /\ Cardinality(B \cup C) = Cardinality(B) + Cardinality(C) - Cardinality(B \cap C)
    BY <1>4, FS_Union
  <1>6. Cardinality(A \cup (B \cup C))
          = Cardinality(A) + Cardinality(B \cup C) - Cardinality(A \cap (B \cup C))
    BY <1>4, <1>5, FS_Union
  <1>7. Cardinality(A \cap (B \cup C)) = 0
    BY <1>3, FS_EmptySet
  <1>8. /\ Cardinality(A) \in Nat /\ Cardinality(B) \in Nat /\ Cardinality(C) \in Nat
        /\ Cardinality(B \cap C) \in Nat
    BY <1>4, FS_Intersection, FS_CardinalityType
  <1>9. Weigh(S) = Cardinality(A \cup (B \cup C)) + Cardinality(B \cap C)
    BY <1>3 DEF Weigh
  <1>10. Weigh(S) = Cardinality(A) + Cardinality(B) + Cardinality(C)
    BY <1>5, <1>6, <1>7, <1>8, <1>9
  <1>11. QED
    BY <1>10 DEF A, B, C

\* When every queue has been counted, what has been read is what the jobs weigh.
LEMMA AllRead ==
    ASSUME TablesOK, RequestOK, Finite, request.toDo = {}
    PROVE  ReadAll = Weigh(InScope \ touched) /\ Progress = PerJob
  <1> DEFINE S == InScope \ touched
  <1>1. S \in SUBSET Jobs
    BY DEF InScope, InTable
  <1>2. ASSUME NEW i PROVE Read(i) = {j \in S : Matches(Statements[i], jobs[j])}
    BY DEF Read, Scoped, Finished, InScope, InTable
  <1>3. ReadAll = Weigh(S)
    BY <1>1, <1>2, WeighIs DEF ReadAll, TablesOK
  <1>4. Progress = PerJob
    BY ProgressInRange, StatementsAre DEF PerJob
  <1>5. QED
    BY <1>3, <1>4

LEMMA InitCounts == ASSUME Finite, Init PROVE CountsOK
  BY IdleIsRequest, LabelsFinite DEF Init, CountsOK

LEMMA CountsInv ==
    ASSUME Finite
    PROVE  Spec => [](TablesOK /\ RequestOK /\ CountsOK)
  <1> DEFINE Inv == TablesOK /\ RequestOK /\ CountsOK
  <1>1. Init => Inv
    BY InitOK, InitCounts
  <1>2. Inv /\ [Next]_vars => Inv'
    <2> SUFFICES ASSUME Inv, [Next]_vars PROVE Inv'
      OBVIOUS
    <2>1. TablesOK' /\ RequestOK'
      BY TablesStep, RequestStep DEF TablesOK
    <2>2. CountsOK'
      BY CountsStep
    <2>3. QED
      BY <2>1, <2>2
  <1> HIDE DEF Inv
  <1>3. Spec => []Inv
    BY <1>1, <1>2, PTL DEF Spec
  <1>4. QED
    BY <1>3 DEF Inv

\* The counts of an answer are exact for the jobs nobody wrote to while it was put
\* together, and off by at most one per statement for each of the others.
THEOREM AnswersOffByTouched ==
    ASSUME Finite
    PROVE  Spec => CountsBounded
  <1> DEFINE Off == LET least == Weigh(InScope \ touched)
                    IN  request.total \in least..(least + PerJob * Cardinality(touched))
             Inv == TablesOK /\ RequestOK /\ CountsOK
  <1>1. ASSUME Inv PROVE AnswerStatus \/ AnswerQueues => Off
    <2> SUFFICES ASSUME AnswerStatus \/ AnswerQueues PROVE Off
      OBVIOUS
    <2>1. request.at \in {"counts", "breakdown"} /\ request.toDo = {}
      BY <1>1 DEF AnswerStatus, AnswerQueues, CountedAll, RequestOK
    <2>2. ReadAll = Weigh(InScope \ touched) /\ Progress = PerJob
      BY <1>1, <2>1, AllRead
    <2>3. request.total >= ReadAll /\ request.total <= ReadAll + Progress * Cardinality(touched)
      BY <1>1, <2>1 DEF CountsOK
    <2>4. ReadAll \in Nat /\ request.total \in Nat
      BY <1>1, ReadFinite DEF ReadAll, RequestOK, Requests
    <2>5. Progress * Cardinality(touched) \in Nat
      BY <1>1, ProgressInRange, LabelsFinite, TouchedFinite, Products DEF TablesOK
    <2>6. QED
      BY <2>2, <2>3, <2>4, <2>5
  <1>2. Inv => [AnswerStatus \/ AnswerQueues => Off]_vars
    BY <1>1
  <1> HIDE DEF Inv
  <1>3. Spec => []Inv
    BY CountsInv DEF Inv
  <1>4. QED
    BY <1>2, <1>3, PTL DEF Spec, CountsBounded

\* Every variable keeps its type: no request counts a job more than once in each
\* statement, whatever order the queues are counted in.
THEOREM TypeCorrect ==
    ASSUME Finite
    PROVE  Spec => []TypeOK
  <1> DEFINE Inv == TablesOK /\ RequestOK /\ CountsOK
  <1>1. ASSUME Inv PROVE TypeOK
    <2> DEFINE J == Cardinality(Jobs)
    <2>1. J \in Nat /\ Progress \in Nat /\ PerJob \in Nat /\ Progress <= PerJob
      BY <1>1, LabelsFinite, ProgressInRange, StatementsAre DEF PerJob
    <2>2. request.total <= J * PerJob
      <3>1. J * Progress <= J * PerJob /\ J * Progress \in Nat /\ J * PerJob \in Nat
        BY <2>1, ProductsGrow, Products
      <3>2. CASE request.at \in {"counts", "breakdown"}
        <4>1. request.total <= J * Progress /\ request.total \in Nat
          BY <1>1, <3>2 DEF CountsOK, RequestOK, Requests
        <4>2. QED
          BY <3>1, <4>1
      <3>3. CASE request.at \notin {"counts", "breakdown"}
        <4>1. request.total = 0
          BY <1>1, <3>3, IdleIsRequest DEF RequestOK, Requests
        <4>2. QED
          BY <3>1, <4>1
      <3>4. QED
        BY <3>2, <3>3
    <2>3. request.total \in 0..(J * PerJob)
      BY <1>1, <2>1, <2>2, Products DEF RequestOK, Requests
    <2>4. request.dlqCount \in 0..J
      BY <1>1, <2>1 DEF CountsOK, RequestOK, Requests
    <2>5. request \in [at : {"idle", "names", "default", "counts", "breakdown"}, kind : Kinds,
                       scope : SUBSET Labels, toDo : SUBSET Labels,
                       statement : 1..Len(Statements), total : 0..(J * PerJob), dlqCount : 0..J]
      <3>1. request \in Requests
        BY <1>1 DEF RequestOK
      <3> HIDE DEF J
      <3>2. QED
        BY <2>3, <2>4, <3>1, StatementsAre DEF Requests
    <2>6. QED
      BY <1>1, <2>5 DEF TablesOK, RowsOK, OnwardOK, TypeOK
  <1> HIDE DEF Inv
  <1>2. Spec => []Inv
    BY CountsInv DEF Inv
  <1>3. QED
    BY <1>1, <1>2, PTL
=============================================================================
