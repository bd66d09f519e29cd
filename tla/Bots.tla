-------------------------------- MODULE Bots --------------------------------
(***************************************************************************)
(* The bots (bot-runner.ts, producer-bot.ts): companies without an owner.  *)
(* At the start of a tick the traders withdraw their orders, all bots are  *)
(* looked at once, the traders' new orders are placed, and the producers   *)
(* start what pays.  All companies without an owner are bots here          *)
(* (botCount), and they trade in all items (itemCodes).                    *)
(***************************************************************************)
EXTENDS Production, LiquidityBot

CONSTANTS
    Traders,           \* the bots with TRADER in their code; the others produce
    DefaultReference,  \* of each item: DEFAULT_REFERENCE_PRICES
    Cadence,           \* producerCadenceTicks
    CadenceOffset,     \* of each bot
    MinProfit          \* producerMinProfitBps, of MaxBps

ASSUME BotsAssumption ==
    /\ Traders \subseteq Npcs
    /\ DefaultReference \in [Items -> Nat \ {0}]
    /\ Cadence \in Nat \ {0} /\ CadenceOffset \in [Npcs -> Nat]
    /\ MinProfit \in Nat

\* The orders to withdraw, by id.
TraderOrders ==
    Ranked({o \in DOMAIN orders : orders[o].status = "OPEN" /\ orders[o].company \in Traders}, <)

\* The best open price of a side among the companies named.
BestPrice(i, side, whose) ==
    LET prices == {orders[o].price : o \in {b \in OpenOrders(orders, i, side) : orders[b].company \in whose}}
    IN  IF prices = {} THEN None ELSE IF side = "BUY" THEN Max(prices) ELSE Min(prices)

\* resolveReferencePrice: the last trade, or the middle of the book.
Reference(i) ==
    LET prices == PricesOf(i)
        bid == BestPrice(i, "BUY", Companies)
        ask == BestPrice(i, "SELL", Companies)
    IN  IF prices # <<>> THEN Last(prices)
        ELSE IF bid # None /\ ask # None THEN (bid + ask) \div 2
        ELSE IF bid # None THEN bid
        ELSE IF ask # None THEN ask ELSE DefaultReference[i]

\* What runBotsForTick tells the plan of an item of a trader.
Snapshot(c, i) ==
    [item |-> i, reference |-> Reference(i),
     available |-> Clamp(AvailableStock(c, i), 0, stock[c][i].quantity),
     openBuy |-> BestPrice(i, "BUY", {c}) # None, openSell |-> BestPrice(i, "SELL", {c}) # None,
     ownBuy |-> BestPrice(i, "BUY", {c}), ownSell |-> BestPrice(i, "SELL", {c}),
     othersBuy |-> BestPrice(i, "BUY", Companies \ {c}),
     othersSell |-> BestPrice(i, "SELL", Companies \ {c})]

PlannedFor(c) ==
    LET items == SetToSeq(Items)
        room == Clamp(CapacityIn(c, "home") - Stored(c), 0, CapacityIn(c, "home"))
        wishes == PlanLiquidityOrders(AvailableCash(c), room,
                                      [k \in DOMAIN items |-> Snapshot(c, items[k])])
    IN  [k \in DOMAIN wishes |-> [company |-> c, wish |-> wishes[k]]]

\* isRecipeProfitable
Worth(i, n) == n * Reference(i)
IsRecipeProfitable(r) ==
    LET costs == SumFunction([i \in Items |-> Worth(i, Inputs[r][i])])
        value == Worth(Output[r].item, Output[r].quantity)
    IN  IF costs = 0 THEN value > 0 ELSE value * MaxBps > costs * (MaxBps + MinProfit)

\* planBotActions: the orders of the traders, then the producers with the
\* recipes that pay at this moment's prices.
PlanBotActions ==
    LET bots == SetToSeq(Traders)
        producers == SetToSeq(Npcs \ Traders)
        profitable == Selected(SetToSeq(Recipes), IsRecipeProfitable)
    IN  FlattenSeq([k \in DOMAIN bots |-> PlannedFor(bots[k])])
        \o [k \in DOMAIN producers |-> [company |-> producers[k], recipes |-> profitable]]

\* Looking at the bots throws when one has reserved more than it has.
BotsSound == \A c \in Npcs : Sound(c)

IsOrder(action) == "wish" \in DOMAIN action

Coverable(action) ==
    LET w == action.wish IN
    IF w.side = "BUY" THEN CanReserve(action.company, w.quantity * w.price)
    ELSE AvailableStock(action.company, w.item) >= w.quantity

PlaceBotOrder(action) ==
    LET w == action.wish IN
    IF w.side = "BUY" THEN AddBuyOrder(action.company, w.item, w.quantity, w.price)
    ELSE AddSellOrder(action.company, w.item, w.quantity, w.price)

\* runProducerBot and startProfitableProductionForCompanyWithTx with one job
\* per tick: on its ticks an idle producer that has free cash starts the first
\* recipe that pays and can be started.
MayProduce(action) ==
    LET c == action.company IN
    /\ ThisTick % Cadence = CadenceOffset[c]
    /\ AvailableCash(c) > 0
    /\ \A j \in DOMAIN jobs : jobs[j].company = c => jobs[j].status # "IN_PROGRESS"

Startable(action) == Selected(action.recipes, LAMBDA r : CanProduce(action.company, r, 1))

Produce(action) ==
    IF MayProduce(action) /\ Startable(action) # <<>>
    THEN StartJob(action.company, Head(Startable(action)), 1, ThisTick)
    ELSE UNCHANGED <<Tables, jobs>>
=============================================================================
