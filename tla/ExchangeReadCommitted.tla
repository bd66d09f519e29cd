----------------------- MODULE ExchangeReadCommitted -----------------------
(***************************************************************************)
(* The exchange as PostgreSQL runs it: requests and a tick are concurrent  *)
(* transactions at READ COMMITTED, each statement of which sees the rows   *)
(* committed so far and its own writes.  Rows are read without FOR UPDATE  *)
(* and written back as absolute values; an UPDATE waits for the row's lock *)
(* and then overwrites the columns it names.                               *)
(*                                                                         *)
(* cash, stock, orders and ledger are the committed rows.  The reads of    *)
(* the two orders of a match, of its two parties, and the writes of two    *)
(* rows of one table, are one step each.                                   *)
(***************************************************************************)
EXTENDS Integers, Sequences, FiniteSets

CONSTANTS
    Companies, Items, Prices, Quantities, StartCash, StartStock, Capacity, MaxOrders,
    Requests    \* one request each to place or to cancel an order

ASSUME AmountsAssumption ==
    /\ IsFiniteSet(Companies)
    /\ IsFiniteSet(Items)
    /\ Prices \subseteq Nat \ {0}
    /\ Quantities \subseteq Nat \ {0}
    /\ StartCash \in Nat
    /\ StartStock \in Nat
    /\ Capacity \in Nat
    /\ MaxOrders \in Nat

VARIABLES
    cash, stock, orders, ledger,
    plan,       \* the matches the tick has yet to settle
    request,    \* where each request is, and what it has read
    tick,       \* where the tick is
    seen,       \* what the tick has read for the match at hand
    draft       \* the rows the tick has written and locked, not yet committed

vars == <<cash, stock, orders, ledger, plan, request, tick, seen, draft>>

\* The exchange with its transactions one after the other.
Serial == INSTANCE Exchange WITH saved <- <<>>

\* The same exchange as the tick has read it.
Seen == INSTANCE Exchange WITH
    cash <- seen.cash, stock <- seen.stock, orders <- seen.orders, saved <- <<>>

\* No rows: a table of which nothing has been read or written.
None == [x \in {} |-> x]
NothingSeen == [cash |-> None, stock |-> None, orders |-> None]
NoDraft == [cash |-> None, stock |-> None, orders |-> None,
            ledger |-> [c \in Companies |-> [cash |-> 0, reserved |-> 0]]]

\* Rows of `new' take the place of those of `old'.
Over(new, old) == [x \in DOMAIN old |-> IF x \in DOMAIN new THEN new[x] ELSE old[x]]

\* Stock rows are named by company and item.
StockRows == Companies \X Items
Flat(s) == [r \in StockRows |-> s[r[1]][r[2]]]
Nested(f) == [c \in Companies |-> [i \in Items |-> f[<<c, i>>]]]

\* What the tick sees: its own writes over the committed rows.
TickCash == Over(draft.cash, cash)
TickStock == Over(draft.stock, Flat(stock))
TickOrders == Over(draft.orders, orders)

Fresh == [pc |-> "idle"]
Finish(r) == request' = [request EXCEPT ![r] = [pc |-> "done"]]

Init ==
    /\ Serial!StartingRows
    /\ plan = <<>>
    /\ request = [r \in Requests |-> Fresh]
    /\ tick = "idle"
    /\ seen = NothingSeen
    /\ draft = NoDraft

tickVars == <<plan, tick, seen, draft>>

-----------------------------------------------------------------------------
(* Locks.  A cancellation holds the row it has released from until it has  *)
(* closed its order; the tick holds every row it has written.              *)

CashRowFree(c) ==
    /\ c \notin DOMAIN draft.cash
    /\ \A r \in Requests : request[r].pc = "close" /\ request[r].order.side = "BUY"
                               => request[r].order.company # c

StockRowFree(row) ==
    /\ row \notin DOMAIN draft.stock
    /\ \A r \in Requests : request[r].pc = "close" /\ request[r].order.side = "SELL"
                               => <<request[r].order.company, request[r].order.item>> # row

OrderRowFree(o) == o \notin DOMAIN draft.orders

\* For the tick, the rows it holds itself are free.
TickMayWriteCash(c) == c \in DOMAIN draft.cash \/ CashRowFree(c)
TickMayWriteStock(row) == row \in DOMAIN draft.stock \/ StockRowFree(row)

-----------------------------------------------------------------------------
(* placeMarketOrderWithTx                                                  *)

\* The company or inventory row is read and found sufficient.
BeginBuy(r, c, i, n, price) ==
    /\ request[r].pc = "idle"
    /\ Serial!CanReserve(c, n * price)
    /\ request' = [request EXCEPT ![r] =
          [pc |-> "buy", read |-> cash[c],
           order |-> Serial!Order(c, i, "BUY", n, price, n * price, 0)]]
    /\ UNCHANGED <<cash, stock, orders, ledger, tickVars>>

BeginSell(r, c, i, n, price) ==
    /\ request[r].pc = "idle"
    /\ Serial!AvailableStock(c, i) >= n
    /\ request' = [request EXCEPT ![r] =
          [pc |-> "sell", read |-> stock[c][i],
           order |-> Serial!Order(c, i, "SELL", n, price, 0, n)]]
    /\ UNCHANGED <<cash, stock, orders, ledger, tickVars>>

\* Mutant: the update writes the whole row back.
WholeRow(row, read, amount) == [read EXCEPT !.reserved = @ + amount]

\* The update sets the reserve alone, to what was read plus the amount.
ReserveWritten(row, read, amount) == [row EXCEPT !.reserved = read.reserved + amount]

\* The update, the inserts of the order and its ledger entry, and the commit.
FinishBuy(r) ==
    LET order == request[r].order IN
    /\ request[r].pc = "buy"
    /\ Len(orders) < MaxOrders
    /\ CashRowFree(order.company)
    /\ cash' = [cash EXCEPT ![order.company] =
                    ReserveWritten(@, request[r].read, order.reservedCash)]
    /\ orders' = Append(orders, order)
    /\ Serial!LedgerReserve(order.company, order.reservedCash)
    /\ Finish(r)
    /\ UNCHANGED <<stock, tickVars>>

FinishSell(r) ==
    LET order == request[r].order IN
    /\ request[r].pc = "sell"
    /\ Len(orders) < MaxOrders
    /\ StockRowFree(<<order.company, order.item>>)
    /\ stock' = [stock EXCEPT ![order.company][order.item] =
                    ReserveWritten(@, request[r].read, order.reservedQuantity)]
    /\ orders' = Append(orders, order)
    /\ Finish(r)
    /\ UNCHANGED <<cash, ledger, tickVars>>

-----------------------------------------------------------------------------
(* cancelMarketOrderWithTx                                                 *)

\* The order is read and found open.
ReadOrder(r, o) ==
    /\ request[r].pc = "idle"
    /\ orders[o].status = "OPEN"
    /\ request' = [request EXCEPT ![r] = [pc |-> "read", id |-> o, order |-> orders[o]]]
    /\ UNCHANGED <<cash, stock, orders, ledger, tickVars>>

\* Mutant: the release is not checked.
NotChecked(row, amount) == TRUE

CoversRelease(row, amount) == row.reserved >= amount

\* The company's or the inventory's row is read; a reserve that would become
\* negative throws, and the request is over.
ReadHolder(r) ==
    LET order == request[r].order
        amount == IF order.side = "BUY" THEN order.reservedCash ELSE order.reservedQuantity
        row == IF order.side = "BUY" THEN cash[order.company]
                                     ELSE stock[order.company][order.item]
    IN
    /\ request[r].pc = "read"
    /\ IF CoversRelease(row, amount)
       THEN request' = [request EXCEPT ![r] =
                [pc |-> "release", id |-> @.id, order |-> @.order,
                 reserved |-> row.reserved - amount]]
       ELSE Finish(r)
    /\ UNCHANGED <<cash, stock, orders, ledger, tickVars>>

\* The update of that row; it is visible when the request commits.
Release(r) ==
    LET order == request[r].order IN
    /\ request[r].pc = "release"
    /\ IF order.side = "BUY" THEN CashRowFree(order.company)
                             ELSE StockRowFree(<<order.company, order.item>>)
    /\ request' = [request EXCEPT ![r].pc = "close"]
    /\ UNCHANGED <<cash, stock, orders, ledger, tickVars>>

\* The update of the order, whatever it has become, and the commit.
Close(r) ==
    LET order == request[r].order
        c == order.company
    IN
    /\ request[r].pc = "close"
    /\ OrderRowFree(request[r].id)
    /\ IF order.side = "BUY"
       THEN /\ cash' = [cash EXCEPT ![c].reserved = request[r].reserved]
            /\ Serial!LedgerReserve(c, -order.reservedCash)
            /\ UNCHANGED stock
       ELSE /\ stock' = [stock EXCEPT ![c][order.item].reserved = request[r].reserved]
            /\ UNCHANGED <<cash, ledger>>
    /\ orders' = [orders EXCEPT ![request[r].id] = Serial!ClosedWithoutReserve(@)]
    /\ Finish(r)
    /\ UNCHANGED tickVars

-----------------------------------------------------------------------------
(* The market stage of a tick, in the tick's transaction.                  *)

rowVars == <<cash, stock, orders, ledger, request>>

TickBegins ==
    /\ tick = "idle"
    /\ Serial!PlanMatches # <<>>
    /\ plan' = Serial!PlanMatches
    /\ tick' = "orders"
    /\ UNCHANGED <<rowVars, seen, draft>>

\* settleMatch reads the two orders, and returns if one has been closed.
TickReadsOrders ==
    /\ tick = "orders" /\ plan # <<>>
    /\ IF \A o \in {Head(plan).buy, Head(plan).sell} : TickOrders[o].status = "OPEN"
       THEN /\ seen' = [seen EXCEPT !.orders = TickOrders]
            /\ tick' = "parties"
            /\ UNCHANGED plan
       ELSE /\ plan' = Tail(plan)
            /\ UNCHANGED <<seen, tick>>
    /\ UNCHANGED <<rowVars, draft>>

TickReadsParties ==
    /\ tick = "parties"
    /\ seen' = [seen EXCEPT !.cash = TickCash, !.stock = Nested(TickStock)]
    /\ tick' = "check"
    /\ UNCHANGED <<rowVars, plan, draft>>

RollBack ==
    /\ tick' = "idle"
    /\ plan' = <<>>
    /\ seen' = NothingSeen
    /\ draft' = NoDraft

Buyer == seen.orders[Head(plan).buy].company
Seller == seen.orders[Head(plan).sell].company
Item == seen.orders[Head(plan).buy].item

\* Mutant: the orders are written first.
OrdersFirst == [check |-> "fill", fill |-> "pay", pay |-> "deliver", deliver |-> "orders"]

\* The order of the writes of one match.
After == [check |-> "pay", pay |-> "deliver", deliver |-> "fill", fill |-> "orders"]

\* On to the next write, or to the next match.
Proceed ==
    /\ tick' = After[tick]
    /\ IF After[tick] = "orders" THEN plan' = Tail(plan) /\ seen' = NothingSeen
                                 ELSE UNCHANGED <<plan, seen>>

\* The checks on what was read: one that fails throws.
TickChecks ==
    /\ tick = "check"
    /\ IF Seen!MatchHolds(Head(plan)) /\ Seen!BuyerHasRoom(Head(plan))
       THEN Proceed /\ UNCHANGED draft
       ELSE RollBack
    /\ UNCHANGED rowVars

\* The buyer's cash and reserve and the seller's cash are set to what was read
\* less or plus the payment.
TickPays ==
    LET m == Head(plan)
        buyerRow == [cash |-> seen.cash[Buyer].cash -
                                  IF Buyer = Seller THEN 0 ELSE Seen!Notional(m),
                     reserved |-> seen.cash[Buyer].reserved - Seen!Reduction(m)]
        sellerRow == [TickCash[Seller] EXCEPT
                          !.cash = seen.cash[Seller].cash + Seen!Notional(m)]
        rows == [c \in {Buyer, Seller} |-> IF c = Buyer THEN buyerRow ELSE sellerRow]
    IN
    /\ tick = "pay"
    /\ TickMayWriteCash(Buyer) /\ TickMayWriteCash(Seller)
    /\ draft' = [draft EXCEPT !.cash = [c \in DOMAIN @ \cup {Buyer, Seller} |->
                                            IF c \in DOMAIN rows THEN rows[c] ELSE @[c]]]
    /\ Proceed
    /\ UNCHANGED rowVars

\* The seller's stock is set to what was read less the items; the buyer's is
\* incremented where it is.
TickDelivers ==
    LET n == Head(plan).quantity
        from == <<Seller, Item>>
        to == <<Buyer, Item>>
        base == [row \in DOMAIN draft.stock \cup {from, to} |->
                    IF row = from THEN Seen!SoldStock(seen.stock[Seller][Item], n)
                                  ELSE TickStock[row]]
    IN
    /\ tick = "deliver"
    /\ TickMayWriteStock(from) /\ TickMayWriteStock(to)
    /\ draft' = [draft EXCEPT !.stock = [base EXCEPT ![to].quantity = @ + n]]
    /\ Proceed
    /\ UNCHANGED rowVars

\* The orders' rows are set to what was read less what has traded.
TickFills ==
    LET m == Head(plan)
        rows == [o \in {m.buy, m.sell} |->
                    IF o = m.buy
                    THEN Seen!Filled(seen.orders[o], m.quantity, Seen!Reduction(m), 0)
                    ELSE Seen!Filled(seen.orders[o], m.quantity, 0, m.quantity)]
    IN
    /\ tick = "fill"
    /\ draft' = [draft EXCEPT
          !.orders = [o \in DOMAIN @ \cup {m.buy, m.sell} |->
                         IF o \in DOMAIN rows THEN rows[o] ELSE @[o]],
          !.ledger = [c \in Companies |->
              [cash |-> @[c].cash - (IF c = Buyer THEN Seen!Notional(m) ELSE 0)
                                  + (IF c = Seller THEN Seen!Notional(m) ELSE 0),
               reserved |-> @[c].reserved - IF c = Buyer THEN Seen!Reduction(m) ELSE 0]]]
    /\ Proceed
    /\ UNCHANGED rowVars

TickCommits ==
    /\ tick = "orders" /\ plan = <<>>
    /\ cash' = TickCash
    /\ stock' = Nested(TickStock)
    /\ orders' = TickOrders
    /\ ledger' = [c \in Companies |->
                     [cash |-> ledger[c].cash + draft.ledger[c].cash,
                      reserved |-> ledger[c].reserved + draft.ledger[c].reserved]]
    /\ RollBack
    /\ UNCHANGED request

-----------------------------------------------------------------------------
Placing(r) ==
    \/ \E c \in Companies, i \in Items, n \in Quantities, price \in Prices :
          BeginBuy(r, c, i, n, price) \/ BeginSell(r, c, i, n, price)
    \/ FinishBuy(r) \/ FinishSell(r)

Cancelling(r) ==
    \/ \E o \in DOMAIN orders : ReadOrder(r, o)
    \/ ReadHolder(r) \/ Release(r) \/ Close(r)

Ticking ==
    \/ TickBegins \/ TickReadsOrders \/ TickReadsParties \/ TickChecks
    \/ TickPays \/ TickDelivers \/ TickFills \/ TickCommits

Next == (\E r \in Requests : Placing(r) \/ Cancelling(r)) \/ Ticking

Spec == Init /\ [][Next]_vars

-----------------------------------------------------------------------------
(* Properties.                                                             *)

RequestState ==
    [pc : {"idle", "done"}]
      \cup [pc : {"buy"}, read : [cash : Nat, reserved : Nat], order : Serial!OrderRow]
      \cup [pc : {"sell"}, read : [quantity : Nat, reserved : Nat], order : Serial!OrderRow]
      \cup [pc : {"read"}, id : 1 .. MaxOrders, order : Serial!OrderRow]
      \cup [pc : {"release", "close"}, id : 1 .. MaxOrders, order : Serial!OrderRow,
            reserved : Nat]

\* Every variable has its type; in particular no reserve ever becomes negative.
TypeOK ==
    /\ cash \in [Companies -> [cash : Nat, reserved : Nat]]
    /\ stock \in [Companies -> [Items -> [quantity : Nat, reserved : Nat]]]
    /\ orders \in Seq(Serial!OrderRow)
    /\ ledger \in [Companies -> [cash : Int, reserved : Int]]
    /\ plan \in Seq(Serial!Match)
    /\ request \in [Requests -> RequestState]
    /\ tick \in {"idle", "orders", "parties", "check", "pay", "deliver", "fill"}
    /\ DOMAIN draft.cash \subseteq Companies
    /\ DOMAIN draft.stock \subseteq StockRows
    /\ DOMAIN draft.orders \subseteq DOMAIN orders

\* However the statements of requests and ticks interleave, cash and goods are
\* neither made nor destroyed: here only ticks write balances and quantities, and
\* requests write their reserve without the balance they have read.
CashAndGoodsConserved == Serial!CashAndGoodsConserved

\* A cancellation that has released a reserve, and so holds the row of a company
\* or of its stock, never waits for the row of the order: a tick writes the holder
\* of a reserve before the order too, and would hold both.  So no cancellation and
\* no tick wait for each other, and PostgreSQL finds no deadlock to break.
NoDeadlock ==
    \A r \in Requests : request[r].pc = "close" => OrderRowFree(request[r].id)
=============================================================================
