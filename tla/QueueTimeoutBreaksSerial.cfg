CONSTANTS
    w1 = w1 w2 = w2 j1 = j1 j2 = j2 j3 = j3 q1 = q1
    NoWorker = NoWorker NoJob = NoJob NoQueue = NoQueue
    Workers = {w1, w2}
    Jobs = {j1, j2}
    Queues = {q1}
    QueueOf <- BothSerial
    MaxAttempts = 2
    MaxRun = 2
    JobTimeout = 2
    QueueTimeout = 1
    Grain = 1
    MaxAge = 3
    MaxCrashes = 0
    Errors = FALSE
SPECIFICATION Spec
INVARIANTS OneAtATime
