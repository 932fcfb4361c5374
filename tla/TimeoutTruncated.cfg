CONSTANTS
    w1 = w1 w2 = w2 j1 = j1 j2 = j2 j3 = j3 q1 = q1
    NoWorker = NoWorker NoJob = NoJob NoQueue = NoQueue
    Workers = {w1, w2}
    Jobs = {j1, j2}
    Queues = {q1}
    QueueOf <- BothSerial
    MaxAttempts = 2
    MaxRun = 3
    JobTimeout = 3
    QueueTimeout = 3
    Grain = 2
    MaxAge = 4
    MaxCrashes = 0
    Errors = FALSE
SPECIFICATION Spec
PROPERTIES OnlyOlderReleased
