CONSTANTS
    Runs = {r1, r2}
SPECIFICATION Spec
INVARIANTS GaugeSeesRunning
CHECK_DEADLOCK FALSE
