CONSTANTS
    MaxBackoffShift = 5
    CounterMax = 7
SPECIFICATION Spec
INVARIANTS FirstRetryAfterInterval
CHECK_DEADLOCK FALSE
