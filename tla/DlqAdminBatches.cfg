CONSTANTS
    c1 = c1 c2 = c2
    Callers = {c1, c2}
    PageSize = 1
    Limit = 2
    MaxRows = 3
    MaxCaptures = 3
    MaxBatches = 2
    Errors = TRUE
SPECIFICATION FairSpec
INVARIANTS TypeOK DeletedOnce CleanupComplete
PROPERTIES Answered PagesShowAll
CHECK_DEADLOCK FALSE
