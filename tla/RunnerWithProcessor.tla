------------------------ MODULE RunnerWithProcessor ------------------------
(***************************************************************************)
(* A call of WorkerRunner composed with the loop of the DLQ processor it    *)
(* spawns: the background task that WorkerRunner only knows as busy or      *)
(* waiting is the one of DlqProcessor, with its scans, its backoff and the  *)
(* token of the call.  That this loop does what WorkerRunner takes it to do *)
(* is the refinement ProcessorFits.                                         *)
(***************************************************************************)
EXTENDS WorkerRunner

CONSTANTS MaxBackoffShift, CounterMax

ASSUME BackoffAssumption ==
    /\ MaxBackoffShift \in Nat \ {0}
    /\ CounterMax \in Nat /\ CounterMax >= MaxBackoffShift

\* Arithmetic that the provers do not know.
ASSUME PowersOfTwo ==
    /\ 2 ^ 0 = 1
    /\ \A n \in 0..MaxBackoffShift :
          2 ^ n \in Nat /\ 2 ^ n <= 2 ^ MaxBackoffShift /\ 2 ^ (n + 1) = 2 * 2 ^ n

VARIABLES wait, consecutive_errors, database, streak

loop == <<wait, consecutive_errors, streak>>
allVars == <<vars, loop, database>>

ASSUME RunnerWithProcessorAssumption == \E r \in Runs : Runs = {r}
run == CHOOSE r \in Runs : TRUE

\* The processor as its own module sees it.
TaskOf(state) == CASE state = "busy" -> "scan"
                   [] state = "waiting" -> "wait"
                   [] OTHER -> state
P == INSTANCE DlqProcessor WITH task <- TaskOf(dlqTask[run]), cancelled <- cancelled[run]

-----------------------------------------------------------------------------
\* The loop starts with a scan and no errors.
Spawn ==
    /\ Startup(run)
    /\ wait' = 0 /\ consecutive_errors' = 0 /\ streak' = 0
    /\ UNCHANGED database

\* The loop: DlqProcessor says what becomes of the task.
ProcessorSteps ==
    /\ dlqTask' \in [Runs -> Task]
    /\ UNCHANGED <<config, dlqTable, pc, sweepTask, worker, cancelled, gauge, abandoned>>
    /\ P!Loop

Cancelling == Cancel(run) /\ UNCHANGED <<loop, database>>

CallAlone ==
    /\ \/ Build(run)
       \/ Start(run) \/ OnceEnds(run) \/ CreateWorker(run) \/ CreateFails(run)
       \/ SelectCancelled(run) \/ SelectEnded(run) \/ JoinDlq(run) \/ JoinDlqTimesOut(run)
       \/ JoinSweep(run) \/ JoinSweepTimesOut(run) \/ Finish(run)
    /\ UNCHANGED <<loop, database>>
BesideAlone ==
    /\ SweepTicks(run) \/ SweepEnds(run) \/ SweepStops(run) \/ WorkerEnds(run)
    /\ UNCHANGED <<loop, database>>

Time == UNCHANGED vars /\ P!Tick
DatabaseChanges == UNCHANGED vars /\ P!DatabaseChanges

ComposedInit ==
    /\ Init
    /\ wait = 0 /\ consecutive_errors = 0 /\ streak = 0
    /\ database \in {"up", "down"}

ComposedNext ==
    \/ Spawn \/ CallAlone \/ ProcessorSteps \/ Cancelling \/ BesideAlone
    \/ Time \/ DatabaseChanges

\* Every await of the builder and the call ends, tasks are polled and time passes;
\* a statement of a background task, a scan among them, need not return.
ComposedSpec ==
    /\ ComposedInit /\ [][ComposedNext]_allVars
    /\ WF_allVars(Spawn \/ CallAlone) /\ WF_allVars(ProcessorSteps /\ dlqTask[run] = "waiting") /\ WF_allVars(Time)
    /\ SF_allVars(SweepStops(run) /\ UNCHANGED <<loop, database>>)
-----------------------------------------------------------------------------
(* Properties; those of WorkerRunner are checked of this specification too.  *)

\* A failing streak of scans is never followed by a silence longer than the streak
\* has lasted plus two intervals, nor longer than the cap; after a success the
\* processor is back at its interval, and a new call starts afresh.
SilenceBounded == P!SilenceBounded

\* The loop implements the background task that WorkerRunner assumes.
ProcessorFits == Spec

\* If its scans return, the processor of a call that nobody cancels finds an error
\* counter of 0 again once the database stays up.
ScansReturn == []<>(dlqTask[run] # "busy")
Resumes ==
    ScansReturn =>
       (<>[](dlqTask[run] # "none" /\ database = "up" /\ ~cancelled[run])
          => <>[](consecutive_errors = 0))
=============================================================================
