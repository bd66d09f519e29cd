\* Two workers and an advance call: duplicate deliveries, a crash, a pipeline that
\* throws, lease expiry, row cleanup.
SPECIFICATION Spec
CONSTANTS
    Workers = {w1, w2}
    Callers = {c1}
    Jobs = {j1, j2}
    NoJob = NoJob
    NoOwner = NoOwner
    BatchSize = 1
    CallTicks = 1
    MaxConflictRetries = 1
    RetentionTicks = 1
    CleanupEvery = 1
    CheckEvery = 2
    Policy = "stop"
    MaxDeliveries = 2
    MaxCrashes = 1
    MaxThrows = 1
    MaxToggles = 0
    MaxMisreads = 0
    MaxResets = 0
    MaxCalls = 1
    MaxCorruptions = 0
SYMMETRY Symmetry
INVARIANT TypeOK
INVARIANT TicksCommittedOnce
INVARIANT RowsMatchCommits
INVARIANT OneIterationUnlessOverran
PROPERTY ImplementsTickClock
PROPERTY CallCommitsAtExpectedVersion
CHECK_DEADLOCK FALSE
