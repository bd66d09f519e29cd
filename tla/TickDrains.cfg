\* Liveness with a crash, duplicate deliveries and the policy pause_bots.
SPECIFICATION FairSpec
CONSTANTS
    Workers = {w1, w2}
    Callers = {}
    Jobs = {j1, j2}
    NoJob = NoJob
    NoOwner = NoOwner
    BatchSize = 1
    CallTicks = 1
    MaxConflictRetries = 1
    RetentionTicks = 0
    CleanupEvery = 1
    CheckEvery = 1
    Policy = "pause_bots"
    MaxDeliveries = 2
    MaxCrashes = 1
    MaxThrows = 0
    MaxToggles = 0
    MaxMisreads = 0
    MaxResets = 0
    MaxCalls = 0
    MaxCorruptions = 1
PROPERTY EveryJobCloses
CHECK_DEADLOCK FALSE
