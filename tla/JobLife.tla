------------------------------ MODULE JobLife ------------------------------
(***************************************************************************)
(* One job from the request to enqueue it, through the conversions of its   *)
(* parameters, its attempts and the classification of its errors, to its    *)
(* row in the DLQ and back by a requeue.  Other actors are in DeadLetter;   *)
(* here the values matter: widths, clamps, defaults and patterns.           *)
(*                                                                         *)
(* i16 is modelled by integers of ShortBits bits.  The text of an error is  *)
(* the set of phrases in it that the classification looks for.  Whether     *)
(* graphile_worker writes the error a handler returns with Display or with  *)
(* Debug is not decided in this repository: ShownBy takes both values.      *)
(***************************************************************************)
EXTENDS Integers, Sequences, FiniteSets

CONSTANTS
    ShortBits,        \* width of i16 and of smallint
    Priorities,       \* priorities of client specs, in i16
    AskedPriorities,  \* priorities of admin requests, in i32
    AskedAttempts,    \* max_attempts asked by clients and admins, in i32
    QueueNames,       \* names of serial queues, "" and "parallel" perhaps among them
    Messages,         \* messages of errors, as sets of phrases
    ShownBy,          \* the trait that turns an error into ctx.error
    Unset,            \* None
    GraphileAttempts, \* max_attempts of a job when the spec gives none
    MaxRounds         \* bound: number of requeues

MaxShort == 2 ^ (ShortBits - 1) - 1
MinShort == - 2 ^ (ShortBits - 1)
Short == MinShort..MaxShort

\* The constants of Priority.
Levels == [emergency |-> -20, fast_high |-> -10, fast_default |-> -5,
           bulk_default |-> 0, bulk_low |-> 5, bulk_lowest |-> 10]

ASSUME JobLifeAssumption ==
    /\ ShortBits \in Nat \ {0} /\ MaxRounds \in Nat
    /\ MaxShort \in Nat /\ 2 ^ ShortBits = 2 * (MaxShort + 1) /\ MinShort = - MaxShort - 1
    /\ Priorities \subseteq Short /\ AskedPriorities \subseteq Int
    /\ AskedAttempts \subseteq Int /\ GraphileAttempts \in 1..MaxShort
    /\ ShownBy \in {"Display", "Debug"}
    /\ \A level \in DOMAIN Levels : Levels[level] \in Short
    /\ Unset \notin Int /\ Unset \notin QueueNames

VARIABLES
    stage,   \* "new", "queued", "running", "dead" (in the DLQ), "succeeded", "purged"
    row,     \* the job's row in _private_jobs, or the last one it had
    dlqRow,  \* the columns of its row in backfill_dlq
    runs,    \* executions of the row
    error,   \* the last error of the row: the variant returned, the one it is taken for
    rounds,  \* requeues so far
    asked,   \* history: the priority asked for
    policy   \* history: max_attempts of the retry policy asked for, or Unset

vars == <<stage, row, dlqRow, runs, error, rounds, asked, policy>>

-----------------------------------------------------------------------------
(* Specs and rows.                                                          *)

Parallel == [serial |-> FALSE, name |-> ""]
Serial(name) == [serial |-> TRUE, name |-> name]
JobSpec(p, q, m) == [priority |-> p, queue |-> q, maxAttempts |-> m]
DefaultSpec == JobSpec(Levels.bulk_default, Parallel, 8)

\* Conversion by `as i16'.
AsShort(n) == ((n - MinShort) % (2 ^ ShortBits)) + MinShort
Clamp(n) == IF n < 0 THEN 0 ELSE IF n > MaxShort THEN MaxShort ELSE n

\* Mutant of RowOf: max_attempts is cast where it should be clamped.
RowByCast(s) ==
    [priority |-> s.priority, queue |-> IF s.queue.serial THEN s.queue.name ELSE Unset,
     maxAttempts |-> IF s.maxAttempts = Unset THEN GraphileAttempts ELSE AsShort(s.maxAttempts),
     attempts |-> 0]

\* From<JobSpec>, and the row add_job makes of it.
RowOf(s) ==
    [priority |-> s.priority, queue |-> IF s.queue.serial THEN s.queue.name ELSE Unset,
     maxAttempts |-> IF s.maxAttempts = Unset THEN GraphileAttempts ELSE Clamp(s.maxAttempts),
     attempts |-> 0]

\* The columns process_failed_jobs copies; a NULL queue name becomes "".
DlqRowOf(r) == [priority |-> r.priority, maxAttempts |-> r.maxAttempts,
                queue |-> IF r.queue = Unset THEN "" ELSE r.queue]

\* Mutant of SpecOf: the empty queue name makes a serial queue.
SpecOfSerial(d) == JobSpec(AsShort(d.priority), Serial(d.queue), d.maxAttempts)

\* The spec requeue_dlq_job builds from a DLQ row.
SpecOf(d) == JobSpec(AsShort(d.priority),
                   IF d.queue = "" THEN Parallel ELSE Serial(d.queue), d.maxAttempts)

\* RetryPolicy: max_attempts of the presets and of the default policy.
Presets == [fast |-> 3, aggressive |-> 12, conservative |-> 5, default |-> 8]
TotalAttempts(p) == p + 1

-----------------------------------------------------------------------------
(* Errors.                                                                  *)

Permanent == {"InvalidInput", "MalformedData", "Unauthorized", "Forbidden",
              "ResourceNotFound", "ValidationFailed"}
Temporary == {"ConnectionTimeout", "NetworkError", "ServiceUnavailable", "RateLimitExceeded",
              "TemporaryUnavailable", "ExternalServiceFailure", "JobFailed", "Backfill"}
ASSUME UnsetAssumption == Unset \notin Permanent \cup Temporary
IsRetryable(variant) == variant \notin Permanent

\* What the variants add to the message: the words of #[error(...)], or the name
\* of the variant and of its fields, in one word each.
DisplayWording ==
    [InvalidInput |-> {"invalid input"}, MalformedData |-> {"malformed"},
     Unauthorized |-> {"unauthorized"}, Forbidden |-> {"forbidden"},
     ResourceNotFound |-> {"not found"}, ValidationFailed |-> {"validation", "failed"},
     ConnectionTimeout |-> {"connection", "timeout"}, NetworkError |-> {"network", "error"},
     ServiceUnavailable |-> {"unavailable"}, RateLimitExceeded |-> {"rate limit"},
     TemporaryUnavailable |-> {"unavailable"}, ExternalServiceFailure |-> {},
     JobFailed |-> {"failed"}, Backfill |-> {}]
DebugWording ==
    [DisplayWording EXCEPT !.InvalidInput = {}, !.ResourceNotFound = {},
                           !.RateLimitExceeded = {}, !.ExternalServiceFailure = {"error"}]
Wording == IF ShownBy = "Display" THEN DisplayWording ELSE DebugWording

\* The patterns of classify_from_message, in the order they are tried.
Patterns == <<
    [when |-> {{"invalid input"}, {"invalid parameter"}}, then |-> "InvalidInput"],
    [when |-> {{"malformed"}, {"parse error"}, {"syntax error"}}, then |-> "MalformedData"],
    [when |-> {{"unauthorized"}, {"not authorized"}}, then |-> "Unauthorized"],
    [when |-> {{"forbidden"}, {"permission denied"}}, then |-> "Forbidden"],
    [when |-> {{"not found"}, {"does not exist"}}, then |-> "ResourceNotFound"],
    [when |-> {{"validation", "failed"}, {"validation", "error"}}, then |-> "ValidationFailed"],
    [when |-> {{"bad request"}, {"request format"}}, then |-> "MalformedData"],
    [when |-> {{"timeout"}, {"timed out"}}, then |-> "ConnectionTimeout"],
    [when |-> {{"network"}, {"connection"}, {"dns"}}, then |-> "NetworkError"],
    [when |-> {{"unavailable"}, {"service down"}}, then |-> "ServiceUnavailable"],
    [when |-> {{"rate limit"}, {"too many requests"}}, then |-> "RateLimitExceeded"],
    [when |-> {{"busy"}, {"overloaded"}, {"retry"}}, then |-> "TemporaryUnavailable"] >>

Matching(text) == {i \in DOMAIN Patterns : \E phrases \in Patterns[i].when : phrases \subseteq text}

\* Mutant of Classify: the patterns are tried in the opposite order.
ClassifyBackwards(text) ==
    IF Matching(text) = {} THEN "JobFailed"
    ELSE Patterns[CHOOSE i \in Matching(text) : \A k \in Matching(text) : k <= i].then

Classify(text) ==
    IF Matching(text) = {} THEN "JobFailed"
    ELSE Patterns[CHOOSE i \in Matching(text) : \A k \in Matching(text) : i <= k].then

NoError == [returned |-> Unset, taken |-> Unset]

-----------------------------------------------------------------------------
(* Enqueueing.                                                              *)

Enqueue(s, p, pol) ==
    /\ stage = "new"
    /\ stage' = "queued" /\ row' = RowOf(s)
    /\ asked' = p /\ policy' = pol
    /\ UNCHANGED <<dlqRow, runs, error, rounds>>

Queues == {Parallel} \cup {Serial(name) : name \in QueueNames}

\* BackfillClient::enqueue with any spec, enqueue_serial among its callers.
ClientEnqueues ==
    \E p \in Priorities, q \in Queues, m \in AskedAttempts \cup {Unset, DefaultSpec.maxAttempts} :
        Enqueue(JobSpec(p, q, m), p, Unset)
\* with_retry_policy and the with_*_retries builders.
PresetEnqueues ==
    \E p \in Priorities, q \in Queues, preset \in DOMAIN Presets :
        Enqueue(JobSpec(p, q, Presets[preset]), p, Presets[preset])
\* enqueue_fast, enqueue_bulk and enqueue_emergency; then those with a preset:
\* enqueue_fast_with_retries, enqueue_critical and enqueue_bulk_with_retries.
HelperEnqueues ==
    \/ \E level \in {"fast_default", "bulk_default", "emergency"} :
          Enqueue([DefaultSpec EXCEPT !.priority = Levels[level]], Levels[level], Unset)
    \/ \E helper \in {<<"fast_high", "fast">>, <<"fast_high", "aggressive">>,
                      <<"bulk_default", "conservative">>} :
          LET p == Levels[helper[1]]
              m == Presets[helper[2]]
          IN  Enqueue(JobSpec(p, Parallel, m), p, m)

\* POST /jobs: the priority is cast, "" and "parallel" name no queue.
AdminEnqueues ==
    \E p \in AskedPriorities, name \in QueueNames \cup {"", "parallel", Unset},
       m \in AskedAttempts \cup {DefaultSpec.maxAttempts} :
        Enqueue(JobSpec(AsShort(p),
                      IF name \in {"", "parallel", Unset} THEN Parallel ELSE Serial(name), m),
                p, Unset)

-----------------------------------------------------------------------------
(* Attempts.                                                                *)

\* Mutant of Exhausted: one attempt too many.
ExhaustedLate == row.attempts > row.maxAttempts

Exhausted == row.attempts >= row.maxAttempts

Fetch ==
    /\ stage = "queued" /\ ~Exhausted
    /\ stage' = "running" /\ row' = [row EXCEPT !.attempts = @ + 1]
    /\ runs' = runs + 1
    /\ UNCHANGED <<dlqRow, error, rounds, asked, policy>>

Succeed ==
    /\ stage = "running"
    /\ stage' = "succeeded"
    /\ UNCHANGED <<row, dlqRow, runs, error, rounds, asked, policy>>

\* fail_job, and PermanentFailurePlugin unless this was the last attempt.
Fail ==
    /\ stage = "running"
    /\ stage' = "queued"
    /\ \E variant \in Permanent \cup Temporary, message \in Messages :
         LET taken == Classify(Wording[variant] \cup message)
         IN  /\ error' = [returned |-> variant, taken |-> taken]
             /\ row' = IF Exhausted \/ IsRetryable(taken) THEN row
                       ELSE [row EXCEPT !.attempts = row.maxAttempts]
    /\ UNCHANGED <<dlqRow, runs, rounds, asked, policy>>

\* process_failed_jobs, which skips rows of no attempts.
Capture ==
    /\ stage = "queued" /\ Exhausted /\ row.maxAttempts > 0
    /\ stage' = "dead" /\ dlqRow' = DlqRowOf(row)
    /\ UNCHANGED <<row, runs, error, rounds, asked, policy>>

\* Startup: what the scan before it leaves is deleted.
Purge ==
    /\ stage = "queued" /\ Exhausted /\ row.maxAttempts = 0
    /\ stage' = "purged"
    /\ UNCHANGED <<row, dlqRow, runs, error, rounds, asked, policy>>

Requeue ==
    /\ stage = "dead" /\ rounds < MaxRounds
    /\ stage' = "queued" /\ row' = RowOf(SpecOf(dlqRow))
    /\ runs' = 0 /\ error' = NoError /\ rounds' = rounds + 1
    /\ UNCHANGED <<dlqRow, asked, policy>>

Init ==
    /\ stage = "new" /\ row = RowOf(DefaultSpec) /\ dlqRow = DlqRowOf(RowOf(DefaultSpec))
    /\ runs = 0 /\ error = NoError /\ rounds = 0 /\ asked = 0 /\ policy = Unset

Next ==
    \/ ClientEnqueues \/ PresetEnqueues \/ HelperEnqueues \/ AdminEnqueues
    \/ Fetch \/ Succeed \/ Fail \/ Capture \/ Purge \/ Requeue

Spec == Init /\ [][Next]_vars
-----------------------------------------------------------------------------
(* Properties.                                                              *)

\* Every value fits its column: clamps and casts leave a smallint, no
\* max_attempts is negative, and attempts never pass max_attempts.
TypeOK ==
    /\ stage \in {"new", "queued", "running", "dead", "succeeded", "purged"}
    /\ row.priority \in Short /\ row.maxAttempts \in 0..MaxShort
    /\ row.attempts \in 0..row.maxAttempts
    /\ row.queue \in QueueNames \cup {Unset}
    /\ dlqRow.priority \in Short /\ dlqRow.maxAttempts \in 0..MaxShort
    /\ error.returned \in Permanent \cup Temporary \cup {Unset}
    /\ rounds \in 0..MaxRounds

\* A requeue gives the job back with the priority, the queue and the attempts it
\* was enqueued with, through the two conversions of every column, unless its queue
\* is serial and its name empty.
Requeued == stage = "dead" /\ stage' = "queued"
RequeueRestores ==
    [][Requeued /\ row.queue # "" => row' = [row EXCEPT !.attempts = 0]]_vars

\* A job in the DLQ has been executed exactly max_attempts times since it was
\* enqueued or requeued, unless an error taken for permanent cut this short.
RunsUsedUp == stage = "dead" => runs = row.maxAttempts \/ error.taken \in Permanent

\* If ctx.error is what Display shows, a job whose handler has returned a
\* non-retryable variant, whatever its message says, is not executed again
\* before it has gone through the DLQ.
HopelessRunsOnce ==
    [][ShownBy = "Display" /\ stage' = "running" => error.returned \notin Permanent]_vars

-----------------------------------------------------------------------------
(* What comments and docs say and the code does not keep.                   *)

\* "`WorkerError` variants split into retryable and non-retryable; non-retryable
\* errors short-circuit retries" (README.md): a retryable variant does not.
RetryableIsRetried ==
    stage = "dead" /\ runs < row.maxAttempts => error.returned \in Permanent

\* The same promise, whichever trait shows the error: the variant returned decides
\* whether the job is executed again.
NonRetryableCutShort == [][stage' = "running" => error.returned \notin Permanent]_vars

\* "Get the total number of attempts (including initial attempt)"
\* (RetryPolicy::total_attempts): a job that used up its policy has run so often.
TotalAttemptsMade ==
    stage = "dead" /\ policy # Unset /\ error.taken \notin Permanent
    => runs = TotalAttempts(policy)

\* "Negative values become 0 (no retries)" (From<JobSpec>): such a job is not
\* retried, but it has been executed before it leaves the queue.
NoRetriesStillRuns == stage = "purged" => runs > 0

\* "lower numbers = higher priority" (JobSpec::priority): a job asked to come after
\* those of priority 0 does.
AskedOrderKept == stage # "new" /\ asked > 0 => row.priority > 0

\* "Empty queue name means parallel execution; non-empty means serial"
\* (requeue_dlq_job): a job of a serial queue is serial again after a requeue.
SerialStaysSerial == [][Requeued /\ row.queue # Unset => row'.queue = row.queue]_vars
=============================================================================
