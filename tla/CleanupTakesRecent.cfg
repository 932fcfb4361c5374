CONSTANTS
    c1 = c1 c2 = c2
    Callers = {c1, c2}
    PageSize = 1
    Limit = 2
    MaxRows = 3
    MaxCaptures = 4
    MaxBatches = 2
    Errors = FALSE
SPECIFICATION Spec
PROPERTIES CleanupSparesRecent
CHECK_DEADLOCK FALSE
