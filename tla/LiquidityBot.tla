---------------------------- MODULE LiquidityBot ----------------------------
(***************************************************************************)
(* The orders a trading bot wants to place (liquidity-bot.ts): for each    *)
(* item a resting sell and buy order around the reference price, and one   *)
(* item bought or sold at once at the best price of the others or its own. *)
(*                                                                         *)
(* `wants' is what planLiquidityOrders keeps track of: the orders so far,  *)
(* and what is left of the cash, of the room and of each side's budget.    *)
(***************************************************************************)
EXTENDS Integers, Sequences

CONSTANT Quoting  \* spread (of scale, 10,000 in the code), maxNotional, target

ASSUME QuotingAssumption ==
    Quoting \in [spread : Nat, scale : Nat \ {0}, maxNotional : Nat, target : Nat]

\* A price that is not there; prices are positive.
None == 0

Least(m, n) == IF m <= n THEN m ELSE n

BuyPrice(reference) ==
    LET price == (reference * (Quoting.scale - Quoting.spread)) \div Quoting.scale
    IN  IF price > 0 THEN price ELSE 1

SellPrice(reference) ==
    LET price == (reference * (Quoting.scale + Quoting.spread)) \div Quoting.scale
    IN  IF price > 0 THEN price ELSE 1

CapByNotional(budget, price, desired) == Least(desired, budget \div price)

Wish(x, side, n, price) == [item |-> x.item, side |-> side, quantity |-> n, price |-> price]

\* Mutant: the cash that a purchase takes up is not taken off.
BuyOnCredit(wants, x, price, desired) ==
    LET n == CapByNotional(wants.buyBudget, price, Least(desired, wants.cash \div price)) IN
    IF n <= 0 THEN wants
    ELSE [wants EXCEPT !.orders = Append(@, Wish(x, "BUY", n, price)),
                       !.buyBudget = @ - n * price]

Buy(wants, x, price, desired) ==
    LET n == CapByNotional(wants.buyBudget, price, Least(desired, wants.cash \div price)) IN
    IF n <= 0 THEN wants
    ELSE [wants EXCEPT !.orders = Append(@, Wish(x, "BUY", n, price)),
                       !.buyBudget = @ - n * price,
                       !.cash = @ - n * price]

Sell(wants, x, price, desired) ==
    LET n == CapByNotional(wants.sellBudget, price, Least(desired, x.available)) IN
    IF n <= 0 THEN wants
    ELSE [wants EXCEPT !.orders = Append(@, Wish(x, "SELL", n, price)),
                       !.sellBudget = @ - n * price]

\* The best price of the others, unless the bot itself has a better order on
\* that side.
Takes(x) ==
    x.othersSell # None /\ (x.ownSell = None \/ x.ownSell > x.othersSell)

Hits(x) ==
    x.othersBuy # None /\ (x.ownBuy = None \/ x.ownBuy < x.othersBuy)

\* One round of the loop of planLiquidityOrders.
QuoteItem(wants, x) ==
    LET sell == IF x.openSell THEN wants ELSE Sell(wants, x, SellPrice(x.reference), Quoting.target)
        both == IF x.openBuy THEN sell ELSE Buy(sell, x, BuyPrice(x.reference), Quoting.target)
        taken == IF both = sell /\ Takes(x)
                 THEN Buy(both, x, x.othersSell, Least(1, both.room)) ELSE both
        room == IF taken = both THEN both.room ELSE both.room - 1
        hit == IF sell = wants /\ Hits(x)
               THEN Sell(taken, x, x.othersBuy, 1) ELSE taken
        ownSell == IF x.ownSell # None THEN x.ownSell
                   ELSE IF sell # wants THEN SellPrice(x.reference) ELSE None
        crossed == IF taken = both /\ ownSell # None THEN Buy(hit, x, ownSell, 1) ELSE hit
    IN  [crossed EXCEPT !.room = room]

\* planLiquidityOrders, for a bot with this cash, this room and these items.
PlanLiquidityOrders(cash, room, items) ==
    LET wants[k \in 0 .. Len(items)] ==
            IF k = 0
            THEN [orders |-> <<>>, cash |-> cash, room |-> room,
                  buyBudget |-> Quoting.maxNotional, sellBudget |-> Quoting.maxNotional]
            ELSE QuoteItem(wants[k - 1], items[k])
    IN  wants[Len(items)].orders
=============================================================================
