------------------------------ MODULE Buildings ------------------------------
(***************************************************************************)
(* Buildings (buildings.ts): bought once, paid for at every interval or    *)
(* put out of use, put back into use for nothing; warehouses give storage, *)
(* factories allow a player to produce.                                    *)
(***************************************************************************)
EXTENDS CompanyRows

CONSTANTS
    BuildingTypes,      \* the definitions of the API's catalogue
    Warehouse,          \* the type that stores
    AcquisitionCost,    \* of each type
    OperatingCost,      \* of each type, per interval
    CostInterval,       \* BUILDING_OPERATING_COST_INTERVAL_TICKS
    WarehouseCapacity,  \* WAREHOUSE_CAPACITY_PER_SLOT
    StartBuildings,     \* buildings at tick 0
    MaxBuildings        \* bound, for model checking only

BuildingRow == [company : Companies, type : BuildingTypes, region : {"home", "away"},
                status : {"ACTIVE", "INACTIVE"}, paid : Nat]

\* Costs may be nothing; what is there at tick 0 is not due then.
ASSUME BuildingsAssumption ==
    /\ AcquisitionCost \in [BuildingTypes -> Nat]
    /\ OperatingCost \in [BuildingTypes -> Nat]
    /\ CostInterval \in Nat \ {0}
    /\ WarehouseCapacity \in Nat
    /\ StartBuildings \in Seq(BuildingRow)
    /\ MaxBuildings \in Nat

VARIABLE buildings

Building(c, type, region) ==
    [company |-> c, type |-> type, region |-> region, status |-> "ACTIVE", paid |-> clock]

\* acquireBuildingWithTx
AcquireBuilding(c, type, region) ==
    /\ Len(buildings) < MaxBuildings
    /\ Sound(c) /\ AvailableCash(c) >= AcquisitionCost[type]
    /\ Pay(c, AcquisitionCost[type])
    /\ buildings' = Append(buildings, Building(c, type, region))
    /\ UNCHANGED <<stock, depot, consumed>>

\* reactivateBuildingWithTx: nothing is charged, and the next payment is due an
\* interval from now.
ReactivateBuilding(b) ==
    /\ buildings[b].status = "INACTIVE"
    /\ buildings' = [buildings EXCEPT ![b].status = "ACTIVE", ![b].paid = clock]
    /\ UNCHANGED Tables

\* Buildings to be paid for in this tick, in the order of their ids.
CostsDue ==
    InOrderOf(buildings,
              LAMBDA b : b.status = "ACTIVE" /\ b.paid <= ThisTick - CostInterval,
              LAMBDA b : 0)

CanAfford(c, cost) == AvailableCash(c) >= cost

\* One round of applyBuildingOperatingCostsWithTx; it throws for a company that
\* has reserved more than it has.
ChargeBuilding(b) ==
    LET c == buildings[b].company
        cost == OperatingCost[buildings[b].type]
    IN
    /\ Sound(c)
    /\ IF CanAfford(c, cost)
       THEN /\ Pay(c, cost)
            /\ buildings' = [buildings EXCEPT ![b].paid = ThisTick]
       ELSE /\ buildings' = [buildings EXCEPT ![b].status = "INACTIVE", ![b].paid = ThisTick]
            /\ UNCHANGED <<cash, ledger>>
    /\ UNCHANGED <<stock, depot, consumed>>

ActiveBuildings(c, Wanted(_)) ==
    {b \in DOMAIN buildings : /\ buildings[b].company = c /\ buildings[b].status = "ACTIVE"
                              /\ Wanted(buildings[b])}

\* validateProductionBuildingAvailable
HasProductionBuilding(c) == ActiveBuildings(c, LAMBDA b : b.type # Warehouse) # {}

\* calculateRegionalStorageCapacity of the active warehouses.
CapacityIn(c, region) ==
    Capacity + WarehouseCapacity *
        Cardinality(ActiveBuildings(c, LAMBDA b : b.type = Warehouse /\ b.region = region))

StoredIn(c, region) ==
    IF region = "home" THEN Stored(c) ELSE SumFunction([i \in Items |-> depot[c][i]])

\* validateStorageCapacity
HasRoom(c, region, n) == StoredIn(c, region) + n <= CapacityIn(c, region)

BuildingsInit == buildings = StartBuildings
=============================================================================
