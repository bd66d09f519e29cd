------------------------------ MODULE Exchange ------------------------------
(***************************************************************************)
(* The exchange of CorpSim: companies with cash and stock, the orders that *)
(* reserve them (market-orders.ts, reservations.ts) and the settlement of  *)
(* a tick's matches (market-matching.ts), with the storage limit           *)
(* (buildings.ts) and the ledger.                                          *)
(*                                                                         *)
(* Requests and ticks run one after the other here, the way the services   *)
(* are written; ExchangeReadCommitted lets their statements interleave.    *)
(* A tick is still taken apart: each match is settled by a step, and a     *)
(* step that throws rolls the whole tick back.                             *)
(***************************************************************************)
EXTENDS Matching, SequencesExt

CONSTANTS
    Companies, Items,
    Prices,      \* unit prices asked for or offered, in cents
    Quantities,  \* order quantities
    StartCash,   \* cents a company starts with
    StartStock,  \* items of each kind a company starts with
    Capacity,    \* calculateRegionalStorageCapacity of a company, all kinds together
    MaxOrders    \* bound on the number of orders, for model checking only

ASSUME AmountsAssumption ==
    /\ IsFiniteSet(Companies)
    /\ IsFiniteSet(Items)
    /\ Prices \subseteq Nat \ {0}
    /\ Quantities \subseteq Nat \ {0}
    /\ StartCash \in Nat
    /\ StartStock \in Nat
    /\ Capacity \in Nat
    /\ MaxOrders \in Nat

VARIABLES
    cash,    \* Company rows: cashCents, reservedCashCents
    stock,   \* Inventory rows: quantity, reservedQuantity
    orders,  \* MarketOrder rows, in the order of their placing
    ledger,  \* LedgerEntry rows: the sums of the deltas of each company
    plan,    \* the matches the tick has yet to settle
    saved    \* what a rollback of the tick restores; NoTick between ticks

vars == <<cash, stock, orders, ledger, plan, saved>>
economy == [cash |-> cash, stock |-> stock, orders |-> orders, ledger |-> ledger]

NoTick == [cash |-> <<>>, stock |-> <<>>, orders |-> <<>>, ledger |-> <<>>]
Ticking == saved # NoTick

AvailableCash(c) == cash[c].cash - cash[c].reserved
AvailableStock(c, i) == stock[c][i].quantity - stock[c][i].reserved

\* Companies start with cash and stock and no orders.
StartingRows ==
    /\ cash = [c \in Companies |-> [cash |-> StartCash, reserved |-> 0]]
    /\ stock = [c \in Companies |-> [i \in Items |-> [quantity |-> StartStock, reserved |-> 0]]]
    /\ orders = <<>>
    /\ ledger = [c \in Companies |-> [cash |-> 0, reserved |-> 0]]

Init == StartingRows /\ plan = <<>> /\ saved = NoTick

-----------------------------------------------------------------------------
(* Requests.                                                               *)

Order(c, i, side, n, price, reservedCash, reservedQuantity) ==
    [company |-> c, item |-> i, side |-> side, quantity |-> n, remaining |-> n,
     price |-> price, reservedCash |-> reservedCash, reservedQuantity |-> reservedQuantity,
     status |-> "OPEN"]

\* createBuyReserveLedgerEntry: no cash moves, the reserve does.
LedgerReserve(c, amount) == ledger' = [ledger EXCEPT ![c].reserved = @ + amount]

\* Mutant: the whole balance is looked at.
CanReserveIgnoringReserves(c, amount) == cash[c].cash >= amount

\* reserveCashForBuyOrder
CanReserve(c, amount) == AvailableCash(c) >= amount

\* placeMarketOrderWithTx for a buy order.
AddBuyOrder(c, i, n, price) ==
    /\ Len(orders) < MaxOrders
    /\ CanReserve(c, n * price)
    /\ cash' = [cash EXCEPT ![c].reserved = @ + n * price]
    /\ orders' = Append(orders, Order(c, i, "BUY", n, price, n * price, 0))
    /\ LedgerReserve(c, n * price)
    /\ UNCHANGED stock

\* placeMarketOrderWithTx for a sell order, with reserveInventoryForSellOrder.
AddSellOrder(c, i, n, price) ==
    /\ Len(orders) < MaxOrders
    /\ AvailableStock(c, i) >= n
    /\ stock' = [stock EXCEPT ![c][i].reserved = @ + n]
    /\ orders' = Append(orders, Order(c, i, "SELL", n, price, 0, n))
    /\ UNCHANGED <<cash, ledger>>

PlaceBuyOrder(c, i, n, price) ==
    ~Ticking /\ AddBuyOrder(c, i, n, price) /\ UNCHANGED <<plan, saved>>

PlaceSellOrder(c, i, n, price) ==
    ~Ticking /\ AddSellOrder(c, i, n, price) /\ UNCHANGED <<plan, saved>>

\* Mutant: a cancelled order is closed but its reserve is kept.
ClosedOnly(order) == [order EXCEPT !.status = "CANCELLED"]

ClosedWithoutReserve(order) ==
    [order EXCEPT !.status = "CANCELLED", !.reservedCash = 0, !.reservedQuantity = 0]

\* cancelMarketOrderWithTx: only an open order is cancelled; what it still
\* reserves is released.
WithdrawOrder(o) ==
    LET order == orders[o] IN
    /\ order.status = "OPEN"
    /\ cash[order.company].reserved >= order.reservedCash
    /\ stock[order.company][order.item].reserved >= order.reservedQuantity
    /\ cash' = [cash EXCEPT ![order.company].reserved = @ - order.reservedCash]
    /\ stock' = [stock EXCEPT ![order.company][order.item].reserved =
                                    @ - order.reservedQuantity]
    /\ orders' = [orders EXCEPT ![o] = ClosedWithoutReserve(order)]
    /\ LedgerReserve(order.company, -order.reservedCash)

CancelOrder(o) == ~Ticking /\ WithdrawOrder(o) /\ UNCHANGED <<plan, saved>>

-----------------------------------------------------------------------------
(* The market stage of a tick.                                             *)

\* runMarketMatchingForTick reads the open orders once and plans every item.
PlanMatches ==
    LET items == SetToSeq(Items)
    IN  FlattenSeq([k \in DOMAIN items |-> PlanOrderMatches(orders, items[k])])

StartMatching ==
    /\ ~Ticking
    /\ saved' = economy
    /\ plan' = PlanMatches
    /\ UNCHANGED <<cash, stock, orders, ledger>>

\* settleMatch, up to the storage check: the rows still allow the match.
MatchHolds(m) ==
    LET buy == orders[m.buy]
        sell == orders[m.sell]
        reduction == m.quantity * buy.price
        notional == m.quantity * m.price
        buyer == cash[buy.company]
        seller == stock[sell.company][sell.item]
    IN  /\ buy.side = "BUY" /\ sell.side = "SELL" /\ buy.item = sell.item
        /\ buy.remaining >= m.quantity /\ sell.remaining >= m.quantity
        /\ buy.reservedCash >= reduction /\ sell.reservedQuantity >= m.quantity
        /\ seller.quantity >= m.quantity /\ seller.reserved >= m.quantity
        /\ buyer.reserved >= reduction /\ buyer.cash >= notional
        /\ buyer.reserved - reduction <= buyer.cash - notional

\* What a company stores, of all items.
Stored(c) == SumFunction([i \in Items |-> stock[c][i].quantity])

\* validateStorageCapacity
RoomFor(c, n) == Stored(c) + n <= Capacity

\* A company that trades with itself needs no room.
BuyerHasRoom(m) ==
    LET c == orders[m.buy].company IN
    c = orders[m.sell].company \/ RoomFor(c, m.quantity)

\* settleMatch returns silently when an order has been closed since planning.
StillOpen(m) == orders[m.buy].status = "OPEN" /\ orders[m.sell].status = "OPEN"

\* Mutant: the buyer's reserve shrinks by what it pays.
ReductionAtTradePrice(m) == m.quantity * m.price

\* The buyer's reserve shrinks by what it had reserved for these items, which
\* may be more than it pays.
Reduction(m) == m.quantity * orders[m.buy].price

Notional(m) == m.quantity * m.price

SoldStock(item, n) == [item EXCEPT !.quantity = @ - n, !.reserved = @ - n]

\* Mutant: an order is filled by one trade or not at all.
IsFilledAtOnce(order, n) == order.quantity = n

IsFilled(order, n) == order.remaining = n

\* The order after n of it have traded.
Filled(order, n, releasedCash, releasedQuantity) ==
    [order EXCEPT !.remaining = @ - n,
                  !.reservedCash = @ - releasedCash,
                  !.reservedQuantity = @ - releasedQuantity,
                  !.status = IF IsFilled(order, n) THEN "FILLED" ELSE "OPEN"]

\* Mutant: the seller's row is the one read before the buyer's was written.
RowReadBefore(paid, c) == cash[c]

\* The seller's row when it is credited.
CreditedRow(paid, c) == paid[c]

\* The rows a match changes.  Both parties may be the same company: then only
\* the reserve changes.
SettleRows(m) ==
    LET buyer == orders[m.buy].company
        seller == orders[m.sell].company
        item == orders[m.buy].item
    IN
    /\ LET paid == [cash EXCEPT ![buyer].cash = @ - Notional(m),
                                ![buyer].reserved = @ - Reduction(m)]
           sent == [stock EXCEPT ![seller][item] = SoldStock(@, m.quantity)]
       IN  /\ cash' = [paid EXCEPT ![seller].cash = CreditedRow(paid, seller).cash + Notional(m)]
           /\ stock' = [sent EXCEPT ![buyer][item].quantity = @ + m.quantity]
    /\ orders' = [orders EXCEPT ![m.buy] = Filled(@, m.quantity, Reduction(m), 0),
                                ![m.sell] = Filled(@, m.quantity, 0, m.quantity)]
    /\ LET debited == [ledger EXCEPT ![buyer].cash = @ - Notional(m),
                                     ![buyer].reserved = @ - Reduction(m)]
       IN  ledger' = [debited EXCEPT ![seller].cash = @ + Notional(m)]

SettleMatch ==
    LET m == Head(plan) IN
    /\ plan # <<>>
    /\ plan' = Tail(plan)
    /\ IF StillOpen(m)
       THEN MatchHolds(m) /\ BuyerHasRoom(m) /\ SettleRows(m)
       ELSE UNCHANGED <<cash, stock, orders, ledger>>
    /\ UNCHANGED saved

\* settleMatch throws: the tick's transaction rolls back.
SettlementThrows ==
    LET m == Head(plan) IN
    /\ plan # <<>>
    /\ StillOpen(m)
    /\ ~(MatchHolds(m) /\ BuyerHasRoom(m))
    /\ cash' = saved.cash
    /\ stock' = saved.stock
    /\ orders' = saved.orders
    /\ ledger' = saved.ledger
    /\ plan' = <<>>
    /\ saved' = NoTick

FinishMatching ==
    /\ Ticking /\ plan = <<>>
    /\ saved' = NoTick
    /\ UNCHANGED <<cash, stock, orders, ledger, plan>>

-----------------------------------------------------------------------------
Request ==
    \/ \E c \in Companies, i \in Items, n \in Quantities, price \in Prices :
          PlaceBuyOrder(c, i, n, price) \/ PlaceSellOrder(c, i, n, price)
    \/ \E o \in DOMAIN orders : CancelOrder(o)

Tick == StartMatching \/ SettleMatch \/ SettlementThrows \/ FinishMatching

Next == Request \/ Tick

Spec == Init /\ [][Next]_vars

-----------------------------------------------------------------------------
(* Properties.                                                             *)

OrderRow == [company : Companies, item : Items, side : {"BUY", "SELL"},
             quantity : Quantities, remaining : Nat, price : Prices,
             reservedCash : Nat, reservedQuantity : Nat,
             status : {"OPEN", "FILLED", "CANCELLED"}]

Match == [buy : Nat \ {0}, sell : Nat \ {0}, quantity : Nat \ {0}, price : Prices]

\* Every variable has its type, and an order is filled when nothing remains.
TypeOK ==
    /\ cash \in [Companies -> [cash : Nat, reserved : Nat]]
    /\ stock \in [Companies -> [Items -> [quantity : Nat, reserved : Nat]]]
    /\ orders \in Seq(OrderRow)
    /\ ledger \in [Companies -> [cash : Int, reserved : Int]]
    /\ plan \in Seq(Match)
    /\ \A o \in DOMAIN orders : orders[o].status = "FILLED" <=> orders[o].remaining = 0

OpenOrdersOf(c) == {o \in DOMAIN orders : orders[o].company = c /\ orders[o].status = "OPEN"}

\* What a company has reserved is exactly what its open orders reserve, each for
\* the quantity that remains of it at its own price; a closed order reserves
\* nothing.  Nothing stays reserved for ever, nothing is released twice, and the
\* company has what it reserves, whatever partial fills, price improvements and
\* trades with itself led to the state (ECONOMIC_INVARIANTS.md).
ReservesAreOpenOrders ==
    /\ \A c \in Companies :
          /\ cash[c].reserved =
                SumFunctionOnSet([o \in DOMAIN orders |-> orders[o].reservedCash], OpenOrdersOf(c))
          /\ cash[c].reserved <= cash[c].cash
    /\ \A c \in Companies, i \in Items :
          /\ stock[c][i].reserved <= stock[c][i].quantity
          /\ stock[c][i].reserved =
                SumFunctionOnSet([o \in DOMAIN orders |-> orders[o].reservedQuantity],
                                 {o \in OpenOrdersOf(c) : orders[o].item = i})
    /\ \A o \in DOMAIN orders :
          LET order == orders[o]
              held  == IF order.status = "OPEN" THEN order.remaining ELSE 0
          IN  /\ order.reservedCash = IF order.side = "BUY" THEN held * order.price ELSE 0
              /\ order.reservedQuantity = IF order.side = "SELL" THEN held ELSE 0

\* Trading neither makes nor destroys cash or goods, inside a tick as well, also
\* when a company trades with itself.
CashAndGoodsConserved ==
    /\ SumFunction([c \in Companies |-> cash[c].cash]) = StartCash * Cardinality(Companies)
    /\ \A i \in Items : SumFunction([c \in Companies |-> stock[c][i].quantity])
                            = StartStock * Cardinality(Companies)

\* The ledger explains every balance and every reserve, also after a rollback.
LedgerExplainsCash ==
    \A c \in Companies : /\ cash[c].cash = StartCash + ledger[c].cash
                         /\ cash[c].reserved = ledger[c].reserved

\* The checks that settleMatch makes on the orders and the parties always hold
\* for a planned match, after any number of earlier matches of the same tick:
\* they never make a tick fail.
MatchesHold == plan # <<>> => StillOpen(Head(plan)) /\ MatchHolds(Head(plan))

\* The planning loop gives each order what price-time priority gives it.
PlansAreFair ==
    ~Ticking => \A i \in Items : ToSet(PlanOrderMatches(orders, i)) = FairMatches(orders, i)

\* When a tick has settled its matches, no open bid meets an open ask any more.
MatchedBookDoesNotCross ==
    Ticking /\ plan = <<>> =>
        \A i \in Items : \A b \in OpenOrders(orders, i, "BUY"), s \in OpenOrders(orders, i, "SELL") :
            orders[b].price < orders[s].price
=============================================================================
