\* A player produces, ships and delivers on contracts beside a trading and a
\* producing bot.
SPECIFICATION EconomySpec
CONSTANTS
    p1 = p1
    ore = ore
    ingot = ingot
    smelt = smelt
    metallurgy = metallurgy
    deepMining = deepMining
    NoCompany = NoCompany
    Companies = {p1, trader, producer}
    Npcs = {trader, producer}
    Traders = {trader}
    Items = {ore, ingot}
    Recipes = {smelt, mine}
    Inputs <- MCInputs
    Output <- MCOutput
    RecipeTicks <- MCRecipeTicks
    Nodes = {metallurgy, deepMining}
    Prerequisites <- MCPrerequisites
    ResearchCost <- MCResearchCost
    ResearchDuration <- MCResearchDuration
    Unlocks <- MCUnlocks
    StartKnown <- AllKnown
    BuildingTypes = {"FACTORY", "WAREHOUSE"}
    Warehouse = "WAREHOUSE"
    AcquisitionCost <- MCAcquisitionCost
    OperatingCost <- MCOperatingCost
    StartBuildings <- OneFactory
    Allocations <- MCAllocations
    Config <- MCConfig
    StartStaff <- Unstaffed
    Quoting <- MCQuoting
    DefaultReference <- MCReference
    UsualPrice <- MCReference
    UsualQuantity <- MCQuantity
    CadenceOffset <- NoOffset
    DemandSeed <- NoSeed
    DemandItems = {ore, ingot}
    Asked <- Goods
    Prices = {2}
    Quantities = {1, 2}
    Runs = {1}
    Deltas = {1}
    StartDepot <- OreAway
    StartCash = 10
    StartStock = 2
    Capacity = 4
    WarehouseCapacity = 2
    MaxOrders = 40
    MaxBuildings = 2
    CostInterval = 2
    MaxBps = 10
    MaxPercent = 100
    BaseFee = 1
    FeePerUnit = 1
    TravelDuration = 1
    ContractsPerTick = 1
    ContractTtl = 2
    PriceBand = 5
    PriceScale = 10
    Cadence = 2
    MinProfit = 0
    DemandBase = 0
    DemandVariability = 1
    Refunds = {1}
    MaxTicks = 3
    MaxRequests = 4
INVARIANT GoodsAccounted
INVARIANT StockIsReservedFor
INVARIANT NothingOverdue
INVARIANT BotOrdersAreCovered
INVARIANT ContractsAreKept
PROPERTY StorageRespected
PROPERTY ClosedStaysClosed
