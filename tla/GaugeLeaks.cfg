CONSTANTS
    Runs = {r1}
SPECIFICATION Spec
INVARIANTS GaugeZeroAtRest
CHECK_DEADLOCK FALSE
