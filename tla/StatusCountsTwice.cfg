CONSTANTS
    Jobs = {j1, j2}
    SerialQueues = {"default", "ledger"}
    MaxAttempts = {0, 2}
SPECIFICATION Spec
PROPERTIES TotalCountsJobs
