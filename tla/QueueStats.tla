----------------------------- MODULE QueueStats -----------------------------
(***************************************************************************)
(* The statistics endpoints of the admin API: GET /status, /queues and      *)
(* /queues/:queue_name/stats.  An answer is put together from many          *)
(* statements - the queue names, three counts for every queue, the reads of *)
(* backfill_dlq - while the jobs it counts go on living.  Requests only     *)
(* read, so that one stands for any number of them.                         *)
(***************************************************************************)
EXTENDS Naturals, Sequences, FiniteSets

CONSTANTS
    Jobs,
    SerialQueues,   \* names of serial queues; "default" may be one of them
    MaxAttempts     \* the values of max_attempts that are asked for

NoQueue == "no queue"
ASSUME QueueStatsAssumption == MaxAttempts \subseteq Nat /\ NoQueue \notin SerialQueues

VARIABLES
    jobs,       \* what has become of each job, and its row
    queueRows,  \* _private_job_queues: the names a serial job has been enqueued with
    request,    \* the request under way
    onward,     \* history: jobs to account for that have only gone on since it began
    touched     \* history: jobs written to since it began

vars == <<jobs, queueRows, request, onward, touched>>

Kinds == {"status", "queues", "queueStats"}
Labels == SerialQueues \cup {"default"}
InTable == {j \in Jobs : jobs[j].home = "jobs"}
InDlq == {j \in Jobs : jobs[j].home = "dlq"}
\* Mutant of UsedUp: the last attempt is counted one too late.
UsedUpLate(row) == row.attempts > row.max

UsedUp(row) == row.attempts >= row.max

-----------------------------------------------------------------------------
(* What the statements count.                                               *)

\* Mutant of Label: an inner join, which drops the jobs without a queue.
LabelInner(row) == row.queue

\* COALESCE(q.queue_name, 'default'): a serial queue of that name is not told apart.
Label(row) == IF row.queue = NoQueue THEN "default" ELSE row.queue

\* Mutant of Statements: the active jobs are counted before the pending ones.
StatementsActiveFirst == <<"active", "pending", "failed">>

\* get_queue_stats, in this order.
Statements == <<"pending", "active", "failed">>
Matches(statement, row) ==
    CASE statement = "pending" -> ~row.locked /\ row.due /\ ~UsedUp(row)
      [] statement = "active" -> row.locked
      [] statement = "failed" -> UsedUp(row) /\ row.max > 0
Counted(statement, queue) ==
    {j \in InTable : Label(jobs[j]) = queue /\ Matches(statement, jobs[j])}

-----------------------------------------------------------------------------
(* The request.                                                             *)

Idle == [at |-> "idle", kind |-> "status", scope |-> {}, toDo |-> {}, statement |-> 1,
         total |-> 0, dlqCount |-> 0]

\* How far a job has come: to be accounted for are the due, running, failed and dead.
Stage(row) ==
    CASE row.home = "dlq" -> 4
      [] row.home = "jobs" /\ ~row.locked /\ UsedUp(row) -> 3
      [] row.home = "jobs" /\ row.locked -> 2
      [] row.home = "jobs" /\ ~row.locked /\ ~UsedUp(row) /\ row.due -> 1
      [] OTHER -> 0
Accountable(j) == Stage(jobs[j]) > 0 /\ (j \in InTable => jobs[j].max > 0)

Goes(changed) == request' = changed /\ UNCHANGED <<jobs, queueRows, onward, touched>>
Answers == request' = Idle /\ onward' = {} /\ touched' = {} /\ UNCHANGED <<jobs, queueRows>>

Begin ==
    /\ request = Idle
    /\ \/ \E kind \in {"status", "queues"} :
             request' = [Idle EXCEPT !.at = "names", !.kind = kind]
       \/ \E queue \in Labels :
             request' = [Idle EXCEPT !.at = "counts", !.kind = "queueStats", !.scope = {queue},
                                     !.toDo = {queue}]
    /\ onward' = {j \in Jobs : Accountable(j)}
    /\ UNCHANGED <<jobs, queueRows, touched>>

\* get_all_queue_names: the names, and then "default" if a job has no queue.
ListNames ==
    /\ request.at = "names"
    /\ Goes([request EXCEPT !.at = "default", !.toDo = queueRows])
AddDefault ==
    /\ request.at = "default"
    /\ Goes([request EXCEPT !.at = "counts",
                !.toDo = IF \E j \in InTable : jobs[j].queue = NoQueue THEN @ \cup {"default"} ELSE @])

\* One statement of get_queue_stats for one queue; ORDER BY fixes which comes first.
CountQueue ==
    /\ request.at = "counts" /\ request.toDo # {}
    /\ LET queue == CHOOSE q \in request.toDo : TRUE
           last == request.statement = Len(Statements)
       IN  Goes([request EXCEPT
                    !.total = @ + Cardinality(Counted(Statements[request.statement], queue)),
                    !.statement = IF last THEN 1 ELSE @ + 1,
                    !.toDo = IF last THEN @ \ {queue} ELSE @])

CountedAll == request.at = "counts" /\ request.toDo = {}

\* dlq_stats: the counters, and then a breakdown that the answer does not use.
CountDlq ==
    /\ CountedAll /\ request.kind = "status"
    /\ Goes([request EXCEPT !.at = "breakdown", !.dlqCount = Cardinality(InDlq)])
AnswerStatus == request.at = "breakdown" /\ Answers
AnswerQueues == CountedAll /\ request.kind # "status" /\ Answers

\* Any statement may fail; the request then answers with an error alone.
StatementFails == request # Idle /\ ~(CountedAll /\ request.kind # "status") /\ Answers

-----------------------------------------------------------------------------
(* The jobs meanwhile.                                                      *)

Write(j, row, goesOn) ==
    /\ jobs' = [jobs EXCEPT ![j] = row]
    /\ touched' = IF request = Idle THEN touched ELSE touched \cup {j}
    /\ onward' = IF goesOn THEN onward ELSE onward \ {j}
    /\ UNCHANGED request
\* A job that stays or goes on is still to be accounted for; one that goes back or
\* disappears is not.
Becomes(j, row) == Write(j, row, Stage(row) >= Stage(jobs[j]))
Absent(home) == [home |-> home, queue |-> NoQueue, due |-> FALSE, locked |-> FALSE,
                 attempts |-> 0, max |-> 0]
Waits(j) == jobs[j].home = "jobs" /\ ~jobs[j].locked
Runs(j) == jobs[j].home = "jobs" /\ jobs[j].locked

Specs == [queue : SerialQueues \cup {NoQueue}, due : BOOLEAN, max : MaxAttempts]
FreshRow(spec) == [Absent("jobs") EXCEPT !.queue = spec.queue, !.due = spec.due, !.max = spec.max]
\* A new row, or the row that has the key and waits, replaced by a job to begin again.
Enqueue(j) ==
    \E spec \in Specs :
        /\ \/ jobs[j].home = "new" /\ Becomes(j, FreshRow(spec))
           \/ Waits(j) /\ Write(j, FreshRow(spec), FALSE)
        /\ queueRows' = queueRows \cup ({spec.queue} \ {NoQueue})
FallsDue(j) ==
    /\ jobs[j].home = "jobs" /\ ~jobs[j].due
    /\ Becomes(j, [jobs[j] EXCEPT !.due = TRUE])
    /\ UNCHANGED queueRows
\* The lock of a serial queue, which only delays a fetch, is left out.
Fetch(j) ==
    /\ Waits(j) /\ jobs[j].due /\ ~UsedUp(jobs[j])
    /\ Becomes(j, [jobs[j] EXCEPT !.locked = TRUE, !.attempts = @ + 1])
    /\ UNCHANGED queueRows
\* complete_job, the purge of what waits with its attempts used up, or complete_jobs
\* and remove_job of a job that waits.
Disappear(j) ==
    /\ Runs(j) \/ Waits(j)
    /\ Becomes(j, Absent("gone"))
    /\ UNCHANGED queueRows
\* fail_job puts the next attempt off; the release of a stale lock does not.
Fail(j) ==
    /\ Runs(j)
    /\ \E due \in BOOLEAN : Becomes(j, [jobs[j] EXCEPT !.locked = FALSE, !.due = due])
    /\ UNCHANGED queueRows
\* fail_jobs, the UPDATE of the permanent failure plugin, or remove_job of a running job.
Exhaust(j) ==
    /\ Runs(j) \/ Waits(j)
    /\ ~UsedUp(jobs[j])
    /\ Becomes(j, [jobs[j] EXCEPT !.attempts = jobs[j].max])
    /\ UNCHANGED queueRows
\* process_failed_jobs, of a running job too; if its key has a row in the DLQ, which
\* stands for both from now on, the job only disappears.
Capture(j) ==
    /\ jobs[j].home = "jobs" /\ UsedUp(jobs[j]) /\ jobs[j].max > 0
    /\ Becomes(j, Absent("dlq")) \/ (InDlq # {} /\ Becomes(j, Absent("gone")))
    /\ UNCHANGED queueRows
DeleteDlqJob(j) ==
    /\ jobs[j].home = "dlq"
    /\ Becomes(j, Absent("gone"))
    /\ UNCHANGED queueRows

-----------------------------------------------------------------------------
Init ==
    /\ jobs = [j \in Jobs |-> Absent("new")]
    /\ queueRows = {}
    /\ request = Idle
    /\ onward = {} /\ touched = {}

Serve ==
    \/ Begin \/ ListNames \/ AddDefault \/ CountQueue \/ CountDlq
    \/ AnswerStatus \/ AnswerQueues \/ StatementFails
Live(j) ==
    \/ Enqueue(j) \/ FallsDue(j) \/ Fetch(j) \/ Disappear(j) \/ Fail(j)
    \/ Exhaust(j) \/ Capture(j) \/ DeleteDlqJob(j)
Next == Serve \/ \E j \in Jobs : Live(j)
Spec == Init /\ [][Next]_vars
-----------------------------------------------------------------------------
(* Properties.                                                              *)

\* The most the counts of all queues can add for one job: an enqueue moves it between them.
PerJob == Len(Statements) * Cardinality(Labels)

Row == [home : {"new", "jobs", "dlq", "gone"}, queue : SerialQueues \cup {NoQueue}, due : BOOLEAN,
        locked : BOOLEAN, attempts : Nat, max : MaxAttempts \cup {0}]

\* Every variable keeps its type: no statement counts a job more than once, and no
\* attempt is made beyond max_attempts.
TypeOK ==
    /\ jobs \in [Jobs -> Row]
    /\ \A j \in Jobs : jobs[j].attempts <= jobs[j].max
    /\ queueRows \subseteq SerialQueues
    /\ request \in [at : {"idle", "names", "default", "counts", "breakdown"}, kind : Kinds,
                    scope : SUBSET Labels, toDo : SUBSET Labels, statement : 1..Len(Statements),
                    total : 0..(Cardinality(Jobs) * PerJob), dlqCount : 0..Cardinality(Jobs)]
    /\ onward \subseteq Jobs /\ touched \subseteq Jobs

InScope == {j \in InTable : request.kind = "queueStats" => Label(jobs[j]) \in request.scope}

\* A job that was due, running, failed or dead when GET /status began, and has only
\* gone on since - to a worker, to its last failure, to the DLQ - is counted somewhere
\* in the answer, though every count is a statement of its own; the endpoints of the
\* queues count those of them that have not reached the DLQ.
NoneOverlooked ==
    [][/\ AnswerStatus => request.total + request.dlqCount >= Cardinality(onward)
       /\ AnswerQueues => request.total >= Cardinality(onward \cap InScope)]_vars

\* What the counts of a job add up to: nothing while it is delayed or if it can never
\* run, two while it runs its last attempt.
Weight(row) == Cardinality({i \in 1..Len(Statements) : Matches(Statements[i], row)})
Weigh(s) == Cardinality({j \in s : Weight(jobs[j]) >= 1}) + Cardinality({j \in s : Weight(jobs[j]) >= 2})

\* The counts of an answer are exact for the jobs that nobody wrote to meanwhile,
\* whatever queue they are in; each of the others adds at most one to each statement.
CountsBounded ==
    [][AnswerStatus \/ AnswerQueues =>
          LET least == Weigh(InScope \ touched)
          IN  request.total \in least..(least + PerJob * Cardinality(touched))]_vars

-----------------------------------------------------------------------------
(* What a comment says and the code does not keep.                          *)

\* "Calculate total jobs across all queues": if nothing is written meanwhile, the
\* total is the number of jobs that are due, running or failed.
TotalCountsJobs ==
    [][AnswerStatus /\ touched = {} => request.total = Cardinality(onward \cap InTable)]_vars
=============================================================================
