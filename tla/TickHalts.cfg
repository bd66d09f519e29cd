\* Maintenance switched on and a read of it that fails, a corrupt economy, the stop policy, a pipeline that throws, a reset.
SPECIFICATION Spec
CONSTANTS
    Workers = {w1, w2}
    Callers = {}
    Jobs = {j1, j2, j3}
    NoJob = NoJob
    NoOwner = NoOwner
    BatchSize = 2
    CallTicks = 1
    MaxConflictRetries = 0
    RetentionTicks = 0
    CleanupEvery = 1
    CheckEvery = 1
    Policy = "stop"
    MaxDeliveries = 1
    MaxCrashes = 0
    MaxThrows = 1
    MaxToggles = 1
    MaxMisreads = 1
    MaxResets = 1
    MaxCalls = 0
    MaxCorruptions = 1
SYMMETRY Symmetry
INVARIANT MaintenanceStopsBatch
INVARIANT StopEndsAfterBatch
CHECK_DEADLOCK FALSE
