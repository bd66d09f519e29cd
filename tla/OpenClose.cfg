\* A tick beside a cancelled job, a cancelled shipment and two deliveries on a contract.
SPECIFICATION Spec
CONSTANTS
    j1 = j1
    j2 = j2
    s1 = s1
    Jobs = {j1}
    Shipments = {s1}
    Asks <- Crossing
    Meetings <- Threes
    JobDue <- AtOnce
    Arrives <- AtFirst
    ContractEnds = 2
    Need = 1
    Made = 1
    Load = 1
    Agreed = 2
    Price = 1
    StartOre = 4
    BuyerCash = 2
    StartDepot <- Alike
    Ordered = 1
    Cost = 1
    Wage = 1
    MaxTicks = 2
INVARIANT PaymentsLostOnce
PROPERTY GoodsMoveOnce
PROPERTY EveryTransactionEnds
