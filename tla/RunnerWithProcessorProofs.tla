---------------------- MODULE RunnerWithProcessorProofs ----------------------
(* The loop of DlqProcessor implements the background task that WorkerRunner *)
(* assumes, so that what is proved of WorkerRunner holds of the composition. *)
EXTENDS RunnerWithProcessor, WorkerRunnerProofs

LEMMA RunIsTheRun == run \in Runs /\ Runs = {run}
  BY RunnerWithProcessorAssumption DEF run

\* Every step of the loop is one of the two that WorkerRunner has for the task.
LEMMA LoopStep ==
    ASSUME TypeOK, ProcessorSteps
    PROVE  DlqScanEnds(run) \/ DlqWakes(run)
  <1> /\ run \in Runs /\ Runs = {run}
      /\ dlqTask \in [Runs -> Task] /\ dlqTask' \in [Runs -> Task]
      /\ dlqTask[run] \in Task /\ dlqTask'[run] \in Task
      /\ cancelled[run] \in BOOLEAN
    BY RunIsTheRun DEF TypeOK, ProcessorSteps
  <1>1. \A task \in Task : dlqTask'[run] = task => dlqTask' = [dlqTask EXCEPT ![run] = task]
    OBVIOUS
  <1>2. CASE P!ScanSucceeds \/ P!ScanFails
    <2>1. dlqTask[run] = "busy" /\ dlqTask'[run] = "waiting"
      BY <1>2 DEF P!ScanSucceeds, P!ScanFails, TaskOf, Task
    <2>2. QED
      BY <1>1, <2>1 DEF ProcessorSteps, DlqScanEnds
  <1>3. CASE P!WakeUp
    <2>1. dlqTask[run] = "waiting" /\ ~cancelled[run] /\ dlqTask'[run] = "busy"
      BY <1>3 DEF P!WakeUp, TaskOf, Task
    <2>2. QED
      BY <1>1, <2>1 DEF ProcessorSteps, DlqWakes
  <1>4. CASE P!ShutDown
    <2>1. dlqTask[run] = "waiting" /\ cancelled[run] /\ dlqTask'[run] = "stopped"
      BY <1>4 DEF P!ShutDown, TaskOf, Task
    <2>2. QED
      BY <1>1, <2>1 DEF ProcessorSteps, DlqWakes
  <1>5. QED
    BY <1>2, <1>3, <1>4 DEF ProcessorSteps, P!Loop

\* Every step of the composition is a step of WorkerRunner or none of its own.
LEMMA ComposedStep ==
    ASSUME TypeOK, [ComposedNext]_allVars
    PROVE  [Next]_vars
  <1>1. CASE Spawn
    BY <1>1, RunIsTheRun DEF Spawn, Next, Call
  <1>2. CASE CallAlone
    BY <1>2, RunIsTheRun DEF CallAlone, Next, Call
  <1>3. CASE ProcessorSteps
    BY <1>3, RunIsTheRun, LoopStep DEF Next, Beside
  <1>4. CASE Cancelling \/ BesideAlone
    BY <1>4, RunIsTheRun DEF Cancelling, BesideAlone, Next, Beside
  <1>5. CASE Time \/ DatabaseChanges \/ UNCHANGED allVars
    BY <1>5 DEF Time, DatabaseChanges, allVars
  <1>6. QED
    BY <1>1, <1>2, <1>3, <1>4, <1>5 DEF ComposedNext

\* The composition, whose background task is the loop with its scans and its backoff,
\* implements WorkerRunner.
THEOREM LoopFits == ComposedSpec => ProcessorFits
  <1>1. ComposedInit => Init /\ TypeOK
    BY DEF ComposedInit, Init, TypeOK, At, Building, Task
  <1>2. TypeOK /\ [ComposedNext]_allVars => [Next]_vars
    BY ComposedStep
  <1>3. TypeOK /\ [Next]_vars => TypeOK'
    BY TypeStep
  <1>4. QED
    BY <1>1, <1>2, <1>3, PTL DEF ComposedSpec, ProcessorFits, Spec

\* With the real loop, an Ok says as much of the background tasks.
THEOREM ComposedReturnsClean == ComposedSpec => []CleanReturn
  BY LoopFits, ReturnsClean, PTL DEF ProcessorFits

\* The scans of the real loop find the table with its unique index.
THEOREM ComposedTableReady == ComposedSpec => []TableReady
  BY LoopFits, TableAlwaysReady, PTL DEF ProcessorFits

\* The composition keeps the types of WorkerRunner's variables.
THEOREM ComposedTypeCorrect == ComposedSpec => []TypeOK
  BY LoopFits, TypeCorrect, PTL DEF ProcessorFits

-----------------------------------------------------------------------------
(* The backoff.                                                             *)

\* The wait after a number of errors: at most doubled by one more, and never above the cap.
LEMMA Waits ==
    /\ 2 ^ MaxBackoffShift \in Nat /\ 2 ^ (MaxBackoffShift + 1) = 2 * 2 ^ MaxBackoffShift
    /\ \A e \in Nat : P!Factor(e) \in Nat /\ P!Factor(e) <= 2 ^ MaxBackoffShift
    /\ \A e \in Nat : /\ P!SaturatingIncrement(e) \in Nat \ {0}
                      /\ P!Factor(P!SaturatingIncrement(e)) <= 2 * P!Factor(e)
    /\ P!Factor(0) = 1
  <1> USE BackoffAssumption
  <1>1. 2 ^ MaxBackoffShift \in Nat /\ 2 ^ (MaxBackoffShift + 1) = 2 * 2 ^ MaxBackoffShift
    BY PowersOfTwo
  <1>2. ASSUME NEW e \in Nat
        PROVE  P!Factor(e) \in Nat /\ P!Factor(e) <= 2 ^ MaxBackoffShift
    <2>1. P!Least(e, MaxBackoffShift) \in 0..MaxBackoffShift
      BY DEF P!Least
    <2>2. QED
      BY <2>1, PowersOfTwo DEF P!Factor
  <1>3. ASSUME NEW e \in Nat
        PROVE  /\ P!SaturatingIncrement(e) \in Nat \ {0}
               /\ P!Factor(P!SaturatingIncrement(e)) <= 2 * P!Factor(e)
    <2>1. P!SaturatingIncrement(e) \in Nat \ {0}
      BY DEF P!SaturatingIncrement, P!Least
    <2>2. CASE e < MaxBackoffShift
      <3>1. P!SaturatingIncrement(e) = e + 1 /\ e \in 0..MaxBackoffShift
        BY <2>2 DEF P!SaturatingIncrement, P!Least
      <3>2. P!Least(e, MaxBackoffShift) = e /\ P!Least(e + 1, MaxBackoffShift) = e + 1
        BY <2>2 DEF P!Least
      <3>3. 2 ^ e \in Nat /\ 2 ^ (e + 1) = 2 * 2 ^ e
        BY <3>1, PowersOfTwo
      <3>4. QED
        BY <2>1, <3>1, <3>2, <3>3 DEF P!Factor
    <2>3. CASE e >= MaxBackoffShift
      <3>1. P!SaturatingIncrement(e) >= MaxBackoffShift
        BY <2>3 DEF P!SaturatingIncrement, P!Least
      <3>2. /\ P!Least(e, MaxBackoffShift) = MaxBackoffShift
            /\ P!Least(P!SaturatingIncrement(e), MaxBackoffShift) = MaxBackoffShift
        BY <2>1, <2>3, <3>1 DEF P!Least
      <3>3. QED
        BY <1>1, <2>1, <3>2 DEF P!Factor
    <2>4. QED
      BY <2>2, <2>3
  <1>4. P!Factor(0) = 1
    BY PowersOfTwo DEF P!Factor, P!Least
  <1>5. QED
    BY <1>1, <1>2, <1>3, <1>4

\* Why a silence is never longer than the streak before it and two intervals: the
\* waits of a failing streak, the present one included, add up to twice the present
\* one less two, or to the bound at which the streak is frozen.
SilenceInv ==
    /\ TypeOK
    /\ wait \in Nat /\ consecutive_errors \in Nat /\ streak \in Nat
    /\ dlqTask[run] = "busy" => wait = 0
    /\ dlqTask[run] \in {"busy", "waiting"} /\ consecutive_errors > 0
          => 2 * P!Factor(consecutive_errors) - 2 <= streak + wait
    /\ dlqTask[run] = "waiting" =>
          /\ wait <= 2 ^ MaxBackoffShift
          /\ wait <= streak + 2
          /\ consecutive_errors = 0 => wait <= 1

\* The arithmetic of a tick and of a failed scan: the wait is w, what the streak is
\* now st, what it was before old.
LEMMA TickKeepsSums ==
    ASSUME NEW w \in Nat, NEW old \in Nat, NEW st \in Nat, NEW f \in Nat, NEW cap \in Nat,
           f <= cap, w > 0, w <= cap, w <= old + 2, 2 * f - 2 <= old + w,
           st = old + 1 \/ st = 2 * cap
    PROVE  /\ w - 1 \in Nat /\ w - 1 <= cap /\ w - 1 <= st + 2
           /\ 2 * f - 2 <= st + (w - 1)
  OBVIOUS
LEMMA FailKeepsSums ==
    ASSUME NEW w \in Nat, NEW st \in Nat, w <= st + 2
    PROVE  2 * w - 2 <= st + w
  OBVIOUS

LEMMA SilenceStep ==
    ASSUME SilenceInv, [ComposedNext]_allVars
    PROVE  SilenceInv'
  <1> USE DEF SilenceInv
  <1> DEFINE F(e) == P!Factor(e)
  <1>1. /\ TypeOK' /\ run \in Runs
        /\ dlqTask \in [Runs -> Task] /\ dlqTask' \in [Runs -> Task]
        /\ dlqTask[run] \in Task /\ dlqTask'[run] \in Task
    BY ComposedStep, TypeStep, RunIsTheRun DEF TypeOK
  <1>9. wait \in Nat /\ consecutive_errors \in Nat /\ streak \in Nat
    OBVIOUS
  <1>2. CASE UNCHANGED <<loop, dlqTask>>
    BY <1>1, <1>2 DEF loop
  <1>3. CASE Spawn
    <2>1. dlqTask'[run] \in {"busy", "none"}
      BY <1>1, <1>3 DEF Spawn, Startup
    <2>2. QED
      BY <1>1, <1>3, <2>1 DEF Spawn
  <1>4. CASE P!ScanSucceeds /\ ProcessorSteps
    <2>1. dlqTask'[run] = "waiting"
      BY <1>1, <1>4 DEF P!ScanSucceeds, TaskOf, Task
    <2>2. 1 <= 2 ^ MaxBackoffShift
      BY Waits
    <2>3. QED
      BY <1>1, <1>4, <2>1, <2>2 DEF P!ScanSucceeds
  <1>5. CASE P!ScanFails /\ ProcessorSteps
    <2>1. dlqTask[run] = "busy" /\ dlqTask'[run] = "waiting" /\ streak' = streak /\ wait = 0
      BY <1>1, <1>5 DEF P!ScanFails, TaskOf, Task
    <2>2. /\ consecutive_errors' = P!SaturatingIncrement(consecutive_errors)
          /\ wait' = F(consecutive_errors')
      BY <1>5 DEF P!ScanFails
    <2>3. /\ consecutive_errors' \in Nat \ {0} /\ wait' \in Nat /\ F(consecutive_errors) \in Nat
          /\ wait' <= 2 * F(consecutive_errors) /\ wait' <= 2 ^ MaxBackoffShift
      BY <2>2, Waits
    <2>4. wait' <= streak + 2
      <3>1. CASE consecutive_errors = 0
        BY <2>3, <3>1, Waits
      <3>2. CASE consecutive_errors > 0
        <4> HIDE DEF F
        <4>1. 2 * F(consecutive_errors) - 2 <= streak
          BY <2>1, <3>2 DEF F
        <4>2. QED
          BY <2>3, <4>1
      <3>3. QED
        BY <3>1, <3>2
    <2>5. 2 * F(consecutive_errors') - 2 <= streak' + wait'
      <3>1. 2 * wait' - 2 <= streak' + wait'
        BY <1>9, <2>1, <2>3, <2>4, FailKeepsSums
      <3>2. QED
        BY <2>2, <3>1
    <2>6. QED
      BY <1>1, <2>1, <2>3, <2>4, <2>5
  <1>6. CASE (P!WakeUp \/ P!ShutDown) /\ ProcessorSteps
    <2>1. UNCHANGED <<wait, consecutive_errors, streak>>
      BY <1>6 DEF P!WakeUp, P!ShutDown
    <2>2. dlqTask[run] = "waiting" /\ dlqTask'[run] \in {"busy", "stopped"}
          /\ (dlqTask'[run] = "busy" => wait = 0)
      BY <1>1, <1>6 DEF P!WakeUp, P!ShutDown, TaskOf, Task
    <2>3. QED
      BY <1>1, <2>1, <2>2
  <1>7. CASE Time
    <2>1. dlqTask[run] = "waiting" /\ dlqTask' = dlqTask /\ wait > 0 /\ wait' = wait - 1
          /\ consecutive_errors' = consecutive_errors
      BY <1>1, <1>7 DEF Time, P!Tick, TaskOf, Task, vars, tasks
    <2>2. streak' = IF consecutive_errors = 0 THEN 0
                    ELSE P!Least(streak + 1, 2 ^ (MaxBackoffShift + 1))
      BY <1>7 DEF Time, P!Tick
    <2>3. CASE consecutive_errors = 0
      <3>1. wait <= 1 /\ wait' = 0 /\ streak' = 0 /\ 0 <= 2 ^ MaxBackoffShift
        BY <1>9, <2>1, <2>2, <2>3, Waits
      <3>2. QED
        BY <1>1, <2>1, <2>3, <3>1
    <2>4. CASE consecutive_errors > 0
      <3> HIDE DEF F
      <3>1. /\ F(consecutive_errors) \in Nat /\ F(consecutive_errors) <= 2 ^ MaxBackoffShift
            /\ 2 ^ MaxBackoffShift \in Nat /\ 2 ^ (MaxBackoffShift + 1) = 2 * 2 ^ MaxBackoffShift
        BY Waits DEF F
      <3>2. 2 * F(consecutive_errors) - 2 <= streak + wait
        BY <2>1, <2>4 DEF F
      <3>3. streak' \in Nat /\ (streak' = streak + 1 \/ streak' = 2 * 2 ^ MaxBackoffShift)
        BY <1>9, <2>2, <2>4, <3>1 DEF P!Least
      <3>4. wait <= 2 ^ MaxBackoffShift /\ wait <= streak + 2
        BY <2>1
      <3>5. /\ wait - 1 \in Nat /\ wait - 1 <= 2 ^ MaxBackoffShift /\ wait - 1 <= streak' + 2
            /\ 2 * F(consecutive_errors) - 2 <= streak' + (wait - 1)
        BY <1>9, <2>1, <3>1, <3>2, <3>3, <3>4, TickKeepsSums
      <3>6. /\ wait' \in Nat /\ wait' <= 2 ^ MaxBackoffShift /\ wait' <= streak' + 2
            /\ 2 * F(consecutive_errors') - 2 <= streak' + wait'
        BY <2>1, <3>5
      <3>7. 2 * P!Factor(consecutive_errors') - 2 <= streak' + wait'
        BY <3>6 DEF F
      <3>8. consecutive_errors' \in Nat /\ consecutive_errors' # 0 /\ dlqTask'[run] = "waiting"
        BY <1>9, <2>1, <2>4
      <3>9. QED
        BY <1>1, <3>3, <3>6, <3>7, <3>8
    <2>5. QED
      BY <2>3, <2>4
  <1>8. QED
    <2>1. CASE CallAlone \/ Cancelling \/ BesideAlone \/ DatabaseChanges \/ UNCHANGED allVars
      <3>1. UNCHANGED <<loop, dlqTask>>
        BY <2>1 DEF CallAlone, Cancelling, BesideAlone, DatabaseChanges, P!DatabaseChanges, allVars, vars,
                    tasks, loop, Build, Connect, InitTable, InitIndexes, BuildFails, Configured,
                    OnlyTable, Start, OnceEnds, CreateWorker, CreateFails, SelectCancelled,
                    SelectEnded, JoinDlq, JoinDlqTimesOut, JoinSweep, JoinSweepTimesOut, Finish,
                    Cancel, SweepTicks, SweepEnds, SweepStops, WorkerEnds
      <3>2. QED
        BY <1>2, <3>1
    <2>2. CASE ProcessorSteps
      BY <1>4, <1>5, <1>6, <2>2 DEF ProcessorSteps, P!Loop
    <2>3. QED
      BY <1>3, <1>7, <2>1, <2>2 DEF ComposedNext

\* A failing streak of scans is never followed by a silence longer than the streak has
\* lasted plus two intervals, nor longer than the cap, for every cap and wherever the
\* counter saturates.
THEOREM SilenceIsBounded == ComposedSpec => []SilenceBounded
  <1>1. ComposedInit => SilenceInv
    <2>1. ASSUME ComposedInit PROVE TypeOK /\ dlqTask[run] = "none"
      BY <2>1, RunIsTheRun DEF ComposedInit, Init, TypeOK, At, Building, Task
    <2>2. QED
      BY <2>1 DEF ComposedInit, SilenceInv
  <1>2. SilenceInv /\ [ComposedNext]_allVars => SilenceInv'
    BY SilenceStep
  <1>3. SilenceInv => SilenceBounded
    <2>1. ASSUME SilenceInv, TaskOf(dlqTask[run]) = "wait" PROVE dlqTask[run] = "waiting"
      BY <2>1, RunIsTheRun DEF SilenceInv, TypeOK, Task, TaskOf
    <2>2. QED
      BY <2>1 DEF SilenceInv, SilenceBounded, P!SilenceBounded
  <1>4. QED
    BY <1>1, <1>2, <1>3, PTL DEF ComposedSpec
=============================================================================
