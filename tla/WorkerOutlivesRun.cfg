CONSTANTS
    Runs = {r1}
SPECIFICATION Spec
INVARIANTS WorkerStopsWithRun
CHECK_DEADLOCK FALSE
