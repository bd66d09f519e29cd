\* Three instances start, stop and die; one does nothing but schedule.
SPECIFICATION FairSpec
CONSTANTS
    Nobody = Nobody
    Instances = {a, b, c}
    Processors = {a, b}
    MaxFailures = 1
INVARIANT OneScheduler
PROPERTY AuthorityReturns
CHECK_DEADLOCK FALSE
