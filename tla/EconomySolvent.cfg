\* Research is paid from reserved cash: reserves exceed cash.
SPECIFICATION EconomySpec
CONSTANTS
    p1 = p1
    ore = ore
    ingot = ingot
    smelt = smelt
    metallurgy = metallurgy
    deepMining = deepMining
    NoCompany = NoCompany
    Companies = {p1, trader}
    Npcs = {trader}
    Traders = {trader}
    Items = {ore}
    Recipes = {smelt, mine}
    Inputs <- MCInputs
    Output <- MCOutput
    RecipeTicks <- MCRecipeTicks
    Nodes = {metallurgy, deepMining}
    Prerequisites <- MCPrerequisites
    ResearchCost <- MCResearchCost
    ResearchDuration <- MCResearchDuration
    Unlocks <- MCUnlocks
    StartKnown <- NothingKnown
    BuildingTypes = {"FACTORY", "WAREHOUSE"}
    Warehouse = "WAREHOUSE"
    AcquisitionCost <- MCAcquisitionCost
    OperatingCost <- MCOperatingCost
    StartBuildings <- OneFactory
    Allocations <- MCAllocations
    Config <- MCConfig
    StartStaff <- Staffed
    Quoting <- MCQuoting
    DefaultReference <- MCReference
    UsualPrice <- MCReference
    UsualQuantity <- MCQuantity
    CadenceOffset <- NoOffset
    DemandSeed <- NoSeed
    DemandItems = {}
    Asked <- Money
    Prices = {2}
    Quantities = {1}
    Runs = {1}
    Deltas = {1}
    StartDepot <- NothingAway
    StartCash = 10
    StartStock = 2
    Capacity = 6
    WarehouseCapacity = 2
    MaxOrders = 40
    MaxBuildings = 2
    CostInterval = 2
    MaxBps = 10
    MaxPercent = 100
    BaseFee = 1
    FeePerUnit = 1
    TravelDuration = 1
    ContractsPerTick = 0
    ContractTtl = 2
    PriceBand = 5
    PriceScale = 10
    Cadence = 2
    MinProfit = 0
    DemandBase = 0
    DemandVariability = 1
    Refunds = {1}
    MaxTicks = 4
    MaxRequests = 4
INVARIANT ScanFindsNothing
