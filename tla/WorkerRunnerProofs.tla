------------------------- MODULE WorkerRunnerProofs -------------------------
(* Theorems about WorkerRunner, for any number of runners in one process:    *)
(* what an Ok of run_until_cancelled says of the background tasks, and that  *)
(* whoever touches backfill_dlq finds it complete.                           *)
EXTENDS WorkerRunner, TLAPS

\* Every variable keeps its type; a run has only the tasks it is configured with.
LEMMA TypeStep ==
    ASSUME TypeOK, [Next]_vars
    PROVE  TypeOK'
  <1> USE DEF TypeOK, Go
  <1>1. ASSUME NEW r \in Runs, Build(r) PROVE TypeOK'
    <2>1. pc' \in [Runs -> At] /\ dlqTable' \in {"absent", "bare", "indexed"}
      BY <1>1 DEF Build, Connect, InitTable, InitIndexes, BuildFails, Configured, At, Building
    <2>2. OnlyTable
      BY <1>1 DEF Build, Connect, InitTable, InitIndexes, BuildFails, Configured
    <2>3. QED
      BY <2>1, <2>2 DEF OnlyTable, tasks
  <1>2. ASSUME NEW r \in Runs, Call(r) PROVE TypeOK'
    <2>1. pc' \in [Runs -> At]
      BY <1>2 DEF Call, Start, OnceEnds, Startup, CreateWorker, CreateFails, SelectCancelled,
                  SelectEnded, JoinDlq, JoinDlqTimesOut, JoinSweep, JoinSweepTimesOut, Finish,
                  At, Calling
    <2>2. CASE Start(r)
      BY <2>1, <2>2 DEF Start, OnlyTable, tasks
    <2>3. CASE Startup(r)
      <3>1. /\ dlqTask' \in [Runs -> Task] /\ sweepTask' \in [Runs -> Task]
        BY <2>3 DEF Startup, Task
      <3>2. \A q \in Runs : /\ dlqTask'[q] # "none" => config[q].dlq
                            /\ sweepTask'[q] # "none" => config[q].sweep
        BY <2>3 DEF Startup
      <3>3. QED
        BY <2>1, <2>3, <3>1, <3>2 DEF Startup
    <2>4. CASE CreateWorker(r)
      BY <2>1, <2>4 DEF CreateWorker, tasks
    <2>5. CASE SelectEnded(r) \/ Finish(r)
      BY <2>1, <2>5 DEF SelectEnded, Finish, tasks
    <2>6. CASE JoinDlqTimesOut(r) \/ JoinSweepTimesOut(r)
      BY <2>1, <2>6 DEF JoinDlqTimesOut, JoinSweepTimesOut, tasks
    <2>7. CASE OnceEnds(r) \/ CreateFails(r) \/ SelectCancelled(r) \/ JoinDlq(r) \/ JoinSweep(r)
      BY <2>1, <2>7 DEF OnceEnds, CreateFails, SelectCancelled, JoinDlq, JoinSweep, tasks
    <2>8. QED
      BY <1>2, <2>2, <2>3, <2>4, <2>5, <2>6, <2>7 DEF Call
  <1>3. ASSUME NEW r \in Runs, Beside(r) PROVE TypeOK'
    <2>1. CASE DlqScanEnds(r) \/ DlqWakes(r)
      <3>1. dlqTask' \in [Runs -> Task] /\ (\A q \in Runs : dlqTask'[q] # "none" => config[q].dlq)
        BY <2>1 DEF DlqScanEnds, DlqWakes, Task
      <3>2. QED
        BY <2>1, <3>1 DEF DlqScanEnds, DlqWakes
    <2>2. CASE SweepTicks(r) \/ SweepEnds(r) \/ SweepStops(r)
      <3>1. /\ sweepTask' \in [Runs -> Task]
            /\ \A q \in Runs : sweepTask'[q] # "none" => config[q].sweep
        BY <2>2 DEF SweepTicks, SweepEnds, SweepStops, Task
      <3>2. QED
        BY <2>2, <3>1 DEF SweepTicks, SweepEnds, SweepStops
    <2>3. CASE WorkerEnds(r)
      BY <2>3 DEF WorkerEnds, tasks
    <2>4. CASE Cancel(r)
      BY <2>4 DEF Cancel, tasks
    <2>5. QED
      BY <1>3, <2>1, <2>2, <2>3, <2>4 DEF Beside
  <1>4. CASE UNCHANGED vars
    BY <1>4 DEF vars, tasks
  <1>5. QED
    BY <1>1, <1>2, <1>3, <1>4 DEF Next

\* The builders and the calls of any number of runners keep their types.
THEOREM TypeCorrect == Spec => []TypeOK
  <1>1. Init => TypeOK
    BY DEF Init, TypeOK, At, Building, Task
  <1>2. TypeOK /\ [Next]_vars => TypeOK'
    BY TypeStep
  <1>3. QED
    BY <1>1, <1>2, PTL DEF Spec

-----------------------------------------------------------------------------
(* What an Ok says.                                                         *)

Spawned == {"create", "select", "joinDlq", "joinSweep", "finish", "ok"}

\* Why an Ok can be trusted: a task has stopped only when cancelled, a call past its
\* startup has the tasks it is configured with, and it has passed a join, without
\* giving up, only if the task was idle, which it stays.
TasksOf(r) ==
    /\ dlqTask[r] = "stopped" => cancelled[r]
    /\ sweepTask[r] = "stopped" => cancelled[r]
    /\ pc[r] \in Spawned /\ dlqTask[r] = "none" => ~config[r].dlq
    /\ pc[r] \in Spawned /\ sweepTask[r] = "none" => ~config[r].sweep
JoinedOf(r) ==
    /\ pc[r] \in {"joinSweep", "finish", "ok"} /\ r \notin abandoned => Idle(dlqTask[r])
    /\ pc[r] \in {"finish", "ok"} /\ r \notin abandoned => Idle(sweepTask[r])
CleanInv == TypeOK /\ \A r \in Runs : TasksOf(r) /\ JoinedOf(r)

\* A step of one runner leaves what the others have alone.
Untouched(q) ==
    /\ pc'[q] = pc[q] /\ dlqTask'[q] = dlqTask[q] /\ sweepTask'[q] = sweepTask[q]
    /\ worker'[q] = worker[q] /\ cancelled'[q] = cancelled[q]
    /\ q \in abandoned' <=> q \in abandoned

LEMMA OthersUntouched ==
    ASSUME TypeOK, NEW r \in Runs, Build(r) \/ Call(r) \/ Beside(r), NEW q \in Runs, q # r
    PROVE  Untouched(q)
  <1> USE DEF TypeOK, Go, Untouched, tasks, OnlyTable
  <1>1. CASE Build(r)
    BY <1>1 DEF Build, Connect, InitTable, InitIndexes, BuildFails, Configured
  <1>2. CASE Call(r)
    <2>1. CASE Start(r) \/ OnceEnds(r) \/ CreateWorker(r) \/ CreateFails(r)
      BY <2>1 DEF Start, OnceEnds, CreateWorker, CreateFails
    <2>2. CASE Startup(r) \/ SelectCancelled(r) \/ SelectEnded(r) \/ Finish(r)
      BY <2>2 DEF Startup, SelectCancelled, SelectEnded, Finish
    <2>3. CASE JoinDlq(r) \/ JoinDlqTimesOut(r) \/ JoinSweep(r) \/ JoinSweepTimesOut(r)
      BY <2>3 DEF JoinDlq, JoinDlqTimesOut, JoinSweep, JoinSweepTimesOut
    <2>4. QED
      BY <1>2, <2>1, <2>2, <2>3 DEF Call
  <1>3. CASE Beside(r)
    BY <1>3 DEF Beside, DlqScanEnds, DlqWakes, SweepTicks, SweepEnds, SweepStops, WorkerEnds, Cancel
  <1>4. QED
    BY <1>1, <1>2, <1>3

LEMMA ConfigFixed == ASSUME [Next]_vars PROVE config' = config
  BY DEF Next, Build, Call, Beside, Connect, InitTable, InitIndexes, BuildFails, Configured, OnlyTable,
         Start, OnceEnds, Startup, CreateWorker, CreateFails, SelectCancelled, SelectEnded,
         JoinDlq, JoinDlqTimesOut, JoinSweep, JoinSweepTimesOut, Finish, DlqScanEnds, DlqWakes,
         SweepTicks, SweepEnds, SweepStops, WorkerEnds, Cancel, vars

LEMMA CleanStep ==
    ASSUME CleanInv, [Next]_vars
    PROVE  CleanInv'
  <1>1. TypeOK /\ TypeOK' /\ config' = config
    BY TypeStep, ConfigFixed DEF CleanInv
  <1>2. CASE UNCHANGED vars
    <2>1. ASSUME NEW q \in Runs PROVE (TasksOf(q) /\ JoinedOf(q))'
      BY <1>2, <2>1 DEF CleanInv, TasksOf, JoinedOf, vars, tasks, Idle
    <2>2. QED
      BY <1>1, <2>1 DEF CleanInv
  <1>3. ASSUME NEW r \in Runs, Build(r) \/ Call(r) \/ Beside(r) PROVE CleanInv'
    <2>1. ASSUME NEW q \in Runs, q # r PROVE (TasksOf(q) /\ JoinedOf(q))'
      BY <1>1, <1>3, <2>1, OthersUntouched DEF CleanInv, TasksOf, JoinedOf, Untouched, Idle
    <2>2. (TasksOf(r) /\ JoinedOf(r))'
      <3> TasksOf(r) /\ JoinedOf(r)
        BY DEF CleanInv
      <3> USE <1>1 DEF TypeOK, Go, TasksOf, JoinedOf, Spawned, Idle
      <3>1. CASE Build(r)
        BY <3>1 DEF Build, Connect, InitTable, InitIndexes, BuildFails, Configured, OnlyTable, tasks
      <3>2. CASE Startup(r)
        BY <3>2 DEF Startup
      <3>3. CASE Start(r) \/ OnceEnds(r) \/ CreateWorker(r) \/ CreateFails(r)
        BY <3>3 DEF Start, OnceEnds, CreateWorker, CreateFails, OnlyTable, tasks
      <3>4. CASE SelectCancelled(r) \/ SelectEnded(r) \/ Finish(r)
        BY <3>4 DEF SelectCancelled, SelectEnded, Finish, tasks
      <3>5. CASE JoinDlq(r) \/ JoinDlqTimesOut(r)
        BY <3>5 DEF JoinDlq, JoinDlqTimesOut, tasks
      <3>6. CASE JoinSweep(r) \/ JoinSweepTimesOut(r)
        BY <3>6 DEF JoinSweep, JoinSweepTimesOut, tasks
      <3>7. CASE DlqScanEnds(r) \/ DlqWakes(r)
        BY <3>7 DEF DlqScanEnds, DlqWakes
      <3>8. CASE SweepTicks(r) \/ SweepEnds(r) \/ SweepStops(r)
        BY <3>8 DEF SweepTicks, SweepEnds, SweepStops
      <3>9. CASE WorkerEnds(r) \/ Cancel(r)
        BY <3>9 DEF WorkerEnds, Cancel, tasks
      <3>10. QED
        BY <1>3, <3>1, <3>2, <3>3, <3>4, <3>5, <3>6, <3>7, <3>8, <3>9 DEF Call, Beside
    <2>3. QED
      BY <1>1, <2>1, <2>2 DEF CleanInv
  <1>4. QED
    BY <1>2, <1>3 DEF Next

\* A run that returns Ok without having given up on a task has left none that could
\* still write, in any number of runs and whatever else happens in the process.
THEOREM ReturnsClean == Spec => []CleanReturn
  <1>1. Init => CleanInv
    BY DEF Init, CleanInv, TypeOK, At, Building, Task, TasksOf, JoinedOf, Spawned
  <1>2. CleanInv /\ [Next]_vars => CleanInv'
    BY CleanStep
  <1>3. CleanInv => CleanReturn
    <2>1. ASSUME CleanInv, NEW r \in Runs, pc[r] = "ok", r \notin abandoned
          PROVE  /\ Idle(dlqTask[r]) /\ Idle(sweepTask[r])
                 /\ cancelled[r] \/ config[r] = [dlq |-> FALSE, sweep |-> FALSE]
      <3>1. Idle(dlqTask[r]) /\ Idle(sweepTask[r]) /\ TasksOf(r)
        BY <2>1 DEF CleanInv, JoinedOf
      <3>2. config[r] \in [dlq : BOOLEAN, sweep : BOOLEAN]
        BY <2>1 DEF CleanInv, TypeOK
      <3>3. cancelled[r] \/ (~config[r].dlq /\ ~config[r].sweep)
        BY <2>1, <3>1 DEF TasksOf, Idle, Spawned
      <3>4. QED
        BY <3>1, <3>2, <3>3
    <2>2. QED
      BY <2>1 DEF CleanReturn
  <1>4. QED
    BY <1>1, <1>2, <1>3, PTL DEF Spec

-----------------------------------------------------------------------------
(* The table.                                                               *)

\* Builders that are past the unique index, and calls, which only they make.
PastIndex == {"configure", "build", "buildTable", "buildIndexes", "built"} \cup Calling

\* Why the table is ready: nobody drops it, and nothing of a run exists before one
\* of its two init_dlq has come to its end.
Begun(r) == pc[r] \in PastIndex \/ dlqTask[r] # "none" \/ worker[r] # "none"
TableInv == TypeOK /\ \A r \in Runs : config[r].dlq /\ Begun(r) => dlqTable = "indexed"

LEMMA IndexStays ==
    ASSUME TypeOK, [Next]_vars, dlqTable = "indexed"
    PROVE  dlqTable' = "indexed"
  BY DEF Next, Build, Call, Beside, Connect, InitTable, InitIndexes, BuildFails, Configured, OnlyTable,
         Start, OnceEnds, Startup, CreateWorker, CreateFails, SelectCancelled, SelectEnded,
         JoinDlq, JoinDlqTimesOut, JoinSweep, JoinSweepTimesOut, Finish, DlqScanEnds, DlqWakes,
         SweepTicks, SweepEnds, SweepStops, WorkerEnds, Cancel, vars

\* A run with a DLQ begins in the step that completes the table.
LEMMA BeginsWithIndex ==
    ASSUME TypeOK, NEW r \in Runs, Build(r) \/ Call(r) \/ Beside(r),
           config[r].dlq, ~Begun(r), Begun(r)'
    PROVE  dlqTable' = "indexed"
  <1> USE DEF TypeOK, Go, Begun, PastIndex, Calling
  <1>1. CASE Build(r)
    BY <1>1 DEF Build, Connect, InitTable, InitIndexes, BuildFails, Configured, OnlyTable, tasks
  <1>2. CASE Call(r)
    BY <1>2 DEF Call, Start, OnceEnds, Startup, CreateWorker, CreateFails, SelectCancelled,
                SelectEnded, JoinDlq, JoinDlqTimesOut, JoinSweep, JoinSweepTimesOut, Finish,
                OnlyTable, tasks
  <1>3. CASE Beside(r)
    BY <1>3 DEF Beside, DlqScanEnds, DlqWakes, SweepTicks, SweepEnds, SweepStops, WorkerEnds,
                Cancel, tasks
  <1>4. QED
    BY <1>1, <1>2, <1>3

LEMMA TableStep ==
    ASSUME TableInv, [Next]_vars
    PROVE  TableInv'
  <1>1. TypeOK /\ TypeOK' /\ config' = config
    BY TypeStep, ConfigFixed DEF TableInv
  <1>2. ASSUME NEW q \in Runs, config[q].dlq, Begun(q)' PROVE dlqTable' = "indexed"
    <2>1. CASE Begun(q)
      BY <1>1, <1>2, <2>1, IndexStays DEF TableInv
    <2>2. CASE ~Begun(q)
      <3>1. ~ UNCHANGED vars
        BY <1>2, <2>2 DEF Begun, vars, tasks
      <3>2. PICK r \in Runs : Build(r) \/ Call(r) \/ Beside(r)
        BY <3>1 DEF Next
      <3>3. q = r
        BY <1>1, <1>2, <2>2, <3>2, OthersUntouched DEF Untouched, Begun
      <3>4. QED
        BY <1>1, <1>2, <2>2, <3>2, <3>3, BeginsWithIndex
    <2>3. QED
      BY <2>1, <2>2
  <1>3. QED
    BY <1>1, <1>2 DEF TableInv

\* Whoever may touch backfill_dlq finds the table and its unique index, whatever
\* builders of other runners have left half made.
THEOREM TableAlwaysReady == Spec => []TableReady
  <1>1. Init => TableInv
    BY DEF Init, TableInv, TypeOK, At, Building, Task, Begun, PastIndex, Calling
  <1>2. TableInv /\ [Next]_vars => TableInv'
    BY TableStep
  <1>3. TableInv => TableReady
    BY DEF TableInv, TableReady, TouchesDlq, Begun, PastIndex, Calling
  <1>4. QED
    BY <1>1, <1>2, <1>3, PTL DEF Spec
=============================================================================
