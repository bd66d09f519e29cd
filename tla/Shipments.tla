----------------------------- MODULE Shipments -----------------------------
(***************************************************************************)
(* Shipments (shipments.ts) lead from the home region to the other one.    *)
(* What arrives where there is no room goes back; where there is no room   *)
(* either it stays on the way.                                             *)
(***************************************************************************)
EXTENDS Buildings, Workforce

CONSTANTS
    BaseFee, FeePerUnit,  \* ShipmentRuntimeConfig
    TravelDuration        \* resolveTravelTimeTicks between the two regions

ASSUME ShipmentsAssumption == BaseFee \in Nat /\ FeePerUnit \in Nat /\ TravelDuration \in Nat

VARIABLE shipments

\* The fee leaves enough for everything that is reserved.
FeeLeavesReserve(c, fee) == cash[c].cash - fee >= 0 /\ cash[c].cash - fee >= cash[c].reserved

\* createShipmentWithTx
CreateShipment(c, i, n) ==
    LET fee == BaseFee + n * FeePerUnit IN
    /\ AvailableStock(c, i) >= n
    /\ FeeLeavesReserve(c, fee)
    /\ stock' = [stock EXCEPT ![c][i].quantity = @ - n]
    /\ Pay(c, fee)
    /\ shipments' = Append(shipments,
                           [company |-> c, item |-> i, quantity |-> n, status |-> "IN_TRANSIT",
                            created |-> clock, arrives |-> clock + TravelTicks(c, TravelDuration)])
    /\ UNCHANGED <<depot, consumed>>

\* Mutant: a delivered shipment can be cancelled.
NotCancelled(it) == it.status # "CANCELLED"

InTransit(it) == it.status = "IN_TRANSIT"

\* cancelShipmentWithTx; for a shipment that is closed it does nothing.  There
\* need not be room for what comes back.
CancelShipment(s) ==
    LET it == shipments[s] IN
    /\ InTransit(it)
    /\ shipments' = [shipments EXCEPT ![s].status = "CANCELLED"]
    /\ stock' = [stock EXCEPT ![it.company][it.item].quantity = @ + it.quantity]
    /\ UNCHANGED <<cash, depot, ledger, consumed>>

\* Those that arrive first come first, then those created first.
ShipmentsDue ==
    InOrderOf(shipments, LAMBDA s : s.status = "IN_TRANSIT" /\ s.arrives <= ThisTick,
              LAMBDA s : s.arrives)

\* Mutant: the origin takes back what does not fit.
OriginAlwaysHasRoom(it) == TRUE

OriginHasRoom(it) == HasRoom(it.company, "home", it.quantity)

\* One round of deliverDueShipmentsForTick.
Deliver(s) ==
    LET it == shipments[s]
        closed == [shipments EXCEPT ![s].status = "DELIVERED"]
    IN
    /\ \/ /\ HasRoom(it.company, "away", it.quantity)
          /\ depot' = [depot EXCEPT ![it.company][it.item] = @ + it.quantity]
          /\ shipments' = closed
          /\ UNCHANGED stock
       \/ /\ ~HasRoom(it.company, "away", it.quantity) /\ OriginHasRoom(it)
          /\ stock' = [stock EXCEPT ![it.company][it.item].quantity = @ + it.quantity]
          /\ shipments' = closed
          /\ UNCHANGED depot
       \/ /\ ~HasRoom(it.company, "away", it.quantity) /\ ~OriginHasRoom(it)
          /\ UNCHANGED <<stock, depot, shipments>>
    /\ UNCHANGED <<cash, ledger, consumed>>
=============================================================================
