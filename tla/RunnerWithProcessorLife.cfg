CONSTANTS
    Runs = {r1}
    MaxBackoffShift = 5
    CounterMax = 7
SPECIFICATION ComposedSpec
INVARIANTS TypeOK CleanReturn TableReady SilenceBounded
PROPERTIES ProcessorFits CancelledReturns CancelledDrains Resumes
CHECK_DEADLOCK FALSE
