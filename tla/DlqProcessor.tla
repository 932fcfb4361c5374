---------------------------- MODULE DlqProcessor ----------------------------
(***************************************************************************)
(* The background task of start_dlq_processor: a scan, a wait, and so on    *)
(* until it is cancelled.  Consecutive failed scans double the wait.        *)
(*                                                                         *)
(* Time is counted in intervals of the processor; a scan takes none.        *)
(***************************************************************************)
EXTENDS Naturals

CONSTANTS
    MaxBackoffShift,  \* MAX_BACKOFF_SHIFT
    CounterMax        \* u32::MAX, where consecutive_errors saturates

VARIABLES
    task,               \* "scan", "wait" or "stopped"
    wait,               \* time left until the next scan
    consecutive_errors,
    cancelled,          \* the cancellation token
    database,           \* "up" or "down"
    streak              \* history: from the first to the last of the failed scans

vars == <<task, wait, consecutive_errors, cancelled, database, streak>>

Least(m, n) == IF m < n THEN m ELSE n
Factor(errors) == 2 ^ Least(errors, MaxBackoffShift)
SaturatingIncrement(n) == Least(n + 1, CounterMax)

\* Mutant of ScanSucceeds: the error counter is not reset.
SucceedsWithoutReset ==
    /\ task = "scan" /\ database = "up"
    /\ task' = "wait" /\ wait' = Factor(consecutive_errors)
    /\ streak' = 0
    /\ UNCHANGED <<consecutive_errors, cancelled, database>>

ScanSucceeds ==
    /\ task = "scan" /\ database = "up"
    /\ task' = "wait" /\ wait' = 1
    /\ consecutive_errors' = 0 /\ streak' = 0
    /\ UNCHANGED <<cancelled, database>>

\* Mutant of ScanFails: the error ends the task.
FailsForGood ==
    /\ task = "scan" /\ database = "down"
    /\ consecutive_errors' = SaturatingIncrement(consecutive_errors)
    /\ task' = "stopped"
    /\ UNCHANGED <<wait, cancelled, database, streak>>

ScanFails ==
    /\ task = "scan" /\ database = "down"
    /\ consecutive_errors' = SaturatingIncrement(consecutive_errors)
    /\ task' = "wait" /\ wait' = Factor(consecutive_errors')
    /\ UNCHANGED <<cancelled, database, streak>>

\* Mutant of WakeUp: the timer wins over the token.
WakeUpRegardless ==
    /\ task = "wait" /\ wait = 0
    /\ task' = "scan"
    /\ UNCHANGED <<wait, consecutive_errors, cancelled, database, streak>>

\* select! is biased: the token wins when the wait has ended too.
WakeUp ==
    /\ task = "wait" /\ wait = 0 /\ ~cancelled
    /\ task' = "scan"
    /\ UNCHANGED <<wait, consecutive_errors, cancelled, database, streak>>

ShutDown ==
    /\ task = "wait" /\ cancelled
    /\ task' = "stopped"
    /\ UNCHANGED <<wait, consecutive_errors, cancelled, database, streak>>

Cancel ==
    /\ ~cancelled /\ cancelled' = TRUE
    /\ UNCHANGED <<task, wait, consecutive_errors, database, streak>>

DatabaseChanges ==
    /\ \/ database = "up" /\ database' = "down"
       \/ database = "down" /\ database' = "up"
    /\ UNCHANGED <<task, wait, consecutive_errors, cancelled, streak>>

\* The streak grows while scans fail; it is frozen past every wait.
Tick ==
    /\ task = "wait" /\ wait > 0
    /\ wait' = wait - 1
    /\ streak' = IF consecutive_errors = 0 THEN 0
                 ELSE Least(streak + 1, 2 ^ (MaxBackoffShift + 1))
    /\ UNCHANGED <<task, consecutive_errors, cancelled, database>>

Init ==
    /\ task = "scan" /\ wait = 0 /\ consecutive_errors = 0 /\ cancelled \in BOOLEAN
    /\ database \in {"up", "down"} /\ streak = 0

Loop == ScanSucceeds \/ ScanFails \/ WakeUp \/ ShutDown
Next == Loop \/ Cancel \/ DatabaseChanges \/ Tick

\* The task is polled, time passes, and select! sees a cancelled token.
Spec == Init /\ [][Next]_vars /\ WF_vars(Loop) /\ WF_vars(Tick)
-----------------------------------------------------------------------------
\* A failing streak of scans is never followed by a silence longer than the
\* streak has lasted plus two intervals, nor longer than the cap; after a success
\* the processor is back at its interval, whatever streaks came before.
SilenceBounded ==
    task = "wait" =>
        /\ wait <= 2 ^ MaxBackoffShift
        /\ wait <= streak + 2
        /\ consecutive_errors = 0 => wait <= 1

\* "The wait between scans grows exponentially - interval, 2*interval, ..." (the
\* comment of start_dlq_processor): the first error is followed by one interval.
FirstRetryAfterInterval == task = "wait" /\ consecutive_errors = 1 => wait <= 1
=============================================================================
