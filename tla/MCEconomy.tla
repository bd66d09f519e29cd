------------------------------ MODULE MCEconomy ------------------------------
(* Values for the runs of Economy: one player, one trading bot and one      *)
(* producing bot; ore is smelted into ingots.                               *)
EXTENDS Economy

CONSTANTS p1, ore, ingot, smelt, metallurgy, deepMining

MCInputs == [r \in Recipes |-> [i \in Items |-> IF r = smelt /\ i = ore THEN 2 ELSE 0]]
MCOutput == [r \in Recipes |-> IF r = smelt /\ ingot \in Items
                                THEN [item |-> ingot, quantity |-> 3]
                                ELSE [item |-> ore, quantity |-> 2]]
MCRecipeTicks == [r \in Recipes |-> IF r = smelt THEN 2 ELSE 1]
MCPrerequisites == [n \in Nodes |-> IF n = deepMining THEN {metallurgy} ELSE {}]
MCResearchCost == [n \in Nodes |-> 4]
MCResearchDuration == [n \in Nodes |-> IF n = metallurgy THEN 1 ELSE 2]
MCUnlocks == [n \in Nodes |-> IF n = metallurgy THEN {smelt} ELSE {}]
AllKnown == [c \in Companies |-> [r \in Recipes |-> "unlocked"]]
NothingKnown == [c \in Companies |-> [r \in Recipes |-> IF c = p1 /\ r = smelt THEN "locked"
                                                                 ELSE "unlocked"]]

MCAcquisitionCost == [t \in BuildingTypes |-> 2]
MCOperatingCost == [t \in BuildingTypes |-> 2]
OneFactory == <<[company |-> p1, type |-> "FACTORY", region |-> "home", status |-> "ACTIVE",
                 paid |-> 0]>>

OreAway == [c \in Companies |-> [i \in Items |-> IF c = p1 /\ i = ore THEN 3 ELSE 0]]
NothingAway == [c \in Companies |-> [i \in Items |-> 0]]

Shares(o, r, l, c) == [operations |-> o, research |-> r, logistics |-> l, corporate |-> c]
Balanced == Shares(40, 20, 20, 20)
MCAllocations == {Balanced, Shares(0, 50, 0, 50)}
MCConfig == [productionBonus |-> 2, researchBonus |-> 2, logisticsBonus |-> 2,
             maxDelta |-> 2, maxDeltaPercent |-> 50, layoffPenalty |-> 4,
             recruitmentCost |-> 1, hiringDelay |-> 2, shockTicks |-> 2, shockPerCapacity |-> 3,
             salary |-> 1, lowCorporate |-> 25, lowCorporatePenalty |-> 1, shortfallPenalty |-> 4,
             recovery |-> 4]
Staffed == [c \in Companies |-> [capacity |-> IF c = p1 THEN 2 ELSE 0, efficiency |-> 7,
                                   allocation |-> Balanced]]
Unstaffed == [c \in Companies |-> [capacity |-> 0, efficiency |-> 10, allocation |-> Balanced]]

MCQuoting == [spread |-> 2, scale |-> 10, maxNotional |-> 8, target |-> 1]
MCReference == [i \in Items |-> 2]
MCQuantity == [i \in Items |-> 1]
NoOffset == [c \in Npcs |-> 0]
NoSeed == [c \in Npcs |-> [i \in Items |-> 0]]

Goods == {"production", "shipment", "contract", "building"}
Money == {"order", "cancel", "building", "reactivate", "allocation", "capacity", "research",
          "refund"}
=============================================================================
