CONSTANTS
    w1 = w1 w2 = w2 a1 = a1 a2 = a2 k1 = k1 k2 = k2
    NoKey = NoKey NoWorker = NoWorker
    Workers = {w1}
    Admins = {a1}
    Keys = {k1}
    MaxItems = 2
    KeyOf <- OneKeyTwice
    MaxAttempts = 2
    BatchLimit = 3
    MaxJobs = 3
    MaxCrashes = 0
    MaxCalls = 0
    Env = {}
SPECIFICATION Spec
PROPERTIES OnlyTheFailedIsCutShort
