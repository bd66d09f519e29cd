\* A job is cancelled twice at once.
SPECIFICATION Spec
CONSTANTS
    j1 = j1
    j2 = j2
    s1 = s1
    Jobs = {j1, j2}
    Shipments = {}
    Asks <- TwoCancels
    Meetings <- Both
    JobDue <- AtOnce
    Arrives <- AtFirst
    ContractEnds = 2
    Need = 1
    Made = 1
    Load = 1
    Agreed = 2
    Price = 1
    StartOre = 4
    BuyerCash = 2
    StartDepot <- Alike
    Ordered = 0
    Cost = 1
    Wage = 1
    MaxTicks = 2
INVARIANT OnlyJobsInProgressEnd
