------------------------- MODULE ReadCommittedProofs -------------------------
(***************************************************************************)
(* Requests and ticks that interleave statement by statement still have    *)
(* rows of the right type, conserve cash and goods and never deadlock, for *)
(* any number of requests, companies and orders.                           *)
(***************************************************************************)
EXTENDS ExchangeReadCommitted, SequenceTheorems, DataLemmas

\* What is proved about the exchange and its operators.
Proved == INSTANCE ExchangeProofs WITH saved <- <<>>

CashRow == [cash : Nat, reserved : Nat]
StockRow == [quantity : Nat, reserved : Nat]
LedgerSums == [cash : Int, reserved : Int]
Books == Seq(Serial!OrderRow)

\* Two versions of an order's row: what no statement writes is the same.
SameOrder(a, b) == a.company = b.company /\ a.item = b.item /\ a.side = b.side

Cash(cs) == [c \in Companies |-> cs[c].cash]
Goods(st, i) == [c \in Companies |-> st[<<c, i>>].quantity]

Conserved(cs, st) ==
    /\ SumFunctionOnSet(Cash(cs), Companies) = StartCash * Cardinality(Companies)
    /\ \A i \in Items : SumFunctionOnSet(Goods(st, i), Companies)
                            = StartStock * Cardinality(Companies)

\* The rows have their types, the committed ones and those the tick sees.
Typed ==
    /\ TypeOK
    /\ Len(orders) <= MaxOrders
    /\ draft = [cash |-> draft.cash, stock |-> draft.stock, orders |-> draft.orders,
                ledger |-> draft.ledger]
    /\ seen = [cash |-> seen.cash, stock |-> seen.stock, orders |-> seen.orders]
    /\ TickCash \in [Companies -> CashRow]
    /\ TickStock \in [StockRows -> StockRow]
    /\ TickOrders \in Books
    /\ draft.ledger \in [Companies -> LedgerSums]

\* Neither the committed rows nor those the tick will commit lose or make any.
Balanced == Conserved(cash, Flat(stock)) /\ Conserved(TickCash, TickStock)

\* An order that a cancellation or the tick has read, written or planned with
\* exists, and is still the order of the same company.
OrdersKeep ==
    /\ \A k \in 1 .. Len(plan) : plan[k].buy \in DOMAIN orders /\ plan[k].sell \in DOMAIN orders
    /\ \A o \in DOMAIN draft.orders : SameOrder(draft.orders[o], orders[o])
    /\ \A r \in Requests : request[r].pc \in {"read", "release", "close"} =>
          /\ request[r].id \in DOMAIN orders
          /\ SameOrder(request[r].order, orders[request[r].id])

\* The orders that the tick has read for the match at hand.
OrdersSeen ==
    tick \in {"parties", "check", "pay", "deliver", "fill"} =>
        /\ plan # <<>>
        /\ seen.orders \in Books /\ DOMAIN seen.orders \subseteq DOMAIN orders
        /\ Head(plan).buy \in DOMAIN seen.orders /\ Head(plan).sell \in DOMAIN seen.orders
        /\ \A o \in DOMAIN seen.orders : SameOrder(seen.orders[o], orders[o])

\* The balances and quantities it has read are those it sees until it writes them:
\* requests write reserves alone.  The match passed its checks before any write.
BalancesSeen ==
    /\ tick \in {"check", "pay", "deliver", "fill"} =>
          /\ seen.cash \in [Companies -> CashRow]
          /\ seen.stock \in [Companies -> [Items -> StockRow]]
    /\ tick \in {"check", "pay"} =>
          \A c \in Companies : seen.cash[c].cash = TickCash[c].cash
    /\ tick \in {"check", "pay", "deliver"} =>
          \A c \in Companies, i \in Items : seen.stock[c][i].quantity = TickStock[<<c, i>>].quantity
    /\ tick \in {"pay", "deliver", "fill"} => Seen!MatchHolds(Head(plan))

\* The row that an order's reserve is part of, written by the tick or not.
HolderWritten(order) ==
    IF order.side = "BUY" THEN order.company \in DOMAIN draft.cash
                          ELSE <<order.company, order.item>> \in DOMAIN draft.stock

\* The tick and a cancellation never hold the same row, and the tick has written
\* the holder of every order it has written.
Locks ==
    /\ \A r \in Requests : request[r].pc = "close" => ~HolderWritten(request[r].order)
    /\ \A o \in DOMAIN draft.orders : HolderWritten(orders[o])
    /\ tick \in {"deliver", "fill"} => Buyer \in DOMAIN draft.cash
    /\ tick = "fill" => <<Seller, Item>> \in DOMAIN draft.stock

\* The inductive invariant.
ReadCommittedInv == Typed /\ Balanced /\ OrdersKeep /\ OrdersSeen /\ BalancesSeen /\ Locks

-----------------------------------------------------------------------------
(* The operators of the exchange, here and where they are proved about.    *)

LEMMA Amounts ==
    /\ \A n \in Quantities : n \in Nat \ {0}
    /\ \A p \in Prices : p \in Nat \ {0}
    /\ StartCash \in Nat /\ StartStock \in Nat /\ MaxOrders \in Nat
    /\ IsFiniteSet(Companies)
BY AmountsAssumption

\* The assumption under which the exchange is proved about.
LEMMA ExchangeAssumption ==
    /\ Proved!IsFiniteSet(Companies) /\ Proved!IsFiniteSet(Items)
    /\ Prices \subseteq Nat \ {0} /\ Quantities \subseteq Nat \ {0}
    /\ StartCash \in Nat /\ StartStock \in Nat /\ Capacity \in Nat /\ MaxOrders \in Nat
BY AmountsAssumption DEF Proved!IsFiniteSet, IsFiniteSet

\* The plan of a tick is the one that ExchangeProofs is about.
LEMMA SamePlan == Serial!PlanMatches = Proved!PlanMatches
<1>1. \A S : Serial!SetToSeq(S) = Proved!SetToSeq(S)
  BY SMT DEF Serial!SetToSeq, Proved!SetToSeq, Serial!Cardinality, Proved!Cardinality,
             Serial!IsInjective, Proved!IsInjective
<1>2. \A s : Serial!FlattenSeq(s) = Proved!FlattenSeq(s)
  BY SMT DEF Serial!FlattenSeq, Proved!FlattenSeq
<1>3. \A book, item : Serial!PlanOrderMatches(book, item) = Proved!PlanOrderMatches(book, item)
  BY SMT DEF Serial!PlanOrderMatches, Proved!PlanOrderMatches,
             Serial!OpenOrders, Proved!OpenOrders, Serial!NextMatch, Proved!NextMatch,
             Serial!BidFirst, Proved!BidFirst, Serial!AskFirst, Proved!AskFirst,
             Serial!Older, Proved!Older, Serial!Crosses, Proved!Crosses,
             Serial!Smaller, Proved!Smaller, Serial!ExecutionPrice, Proved!ExecutionPrice,
             Serial!Cardinality, Proved!Cardinality, Serial!IsFiniteSet, Proved!IsFiniteSet
<1> QED
  BY <1>1, <1>2, <1>3 DEF Serial!PlanMatches, Proved!PlanMatches

\* A plan is a sequence of matches between orders of the book.
LEMMA PlanTyped ==
    ASSUME orders \in Books
    PROVE  /\ Serial!PlanMatches \in Seq(Serial!Match)
           /\ \A k \in 1 .. Len(Serial!PlanMatches) :
                 /\ Serial!PlanMatches[k].buy \in DOMAIN orders
                 /\ Serial!PlanMatches[k].sell \in DOMAIN orders
<1>1. orders \in Proved!Books
  BY DEF Books, Proved!Books, Proved!OrderRow, Serial!OrderRow
<1>2. PICK L : Proved!Schedule(orders, Proved!PlanMatches, L)
  BY <1>1, Proved!PlanIsScheduled, ExchangeAssumption
<1>3. /\ Proved!PlanMatches \in Seq(Serial!Match)
      /\ \A k \in 1 .. Len(Proved!PlanMatches) :
            Proved!Fits(orders, orders[Proved!PlanMatches[k].buy].item, L[k], Proved!PlanMatches[k])
  BY <1>2 DEF Proved!Schedule, Proved!Match, Serial!Match
<1>4. \A item, left, m : Proved!Fits(orders, item, left, m) =>
                            m.buy \in DOMAIN orders /\ m.sell \in DOMAIN orders
  BY DEF Proved!Fits, Proved!Bids, Proved!Asks, Proved!OpenOrders
<1> QED
  BY <1>3, <1>4, SamePlan

\* What the property says of the committed rows.
LEMMA ConservedIsProperty ==
    ASSUME Conserved(cash, Flat(stock))
    PROVE  CashAndGoodsConserved
<1>1. \A f : Serial!SumFunction(f) = SumFunctionOnSet(f, DOMAIN f)
  BY DEF Serial!SumFunction, Serial!SumFunctionOnSet, SumFunctionOnSet,
         Serial!FoldFunctionOnSet, FoldFunctionOnSet, Serial!MapThenFoldSet, MapThenFoldSet
<1>2. Serial!Cardinality(Companies) = Cardinality(Companies)
  BY DEF Serial!Cardinality, Cardinality
<1>3. Serial!SumFunction([c \in Companies |-> cash[c].cash]) = StartCash * Cardinality(Companies)
  BY <1>1 DEF Conserved, Cash
<1>4. ASSUME NEW i \in Items
      PROVE  Serial!SumFunction([c \in Companies |-> stock[c][i].quantity])
                = StartStock * Cardinality(Companies)
  <2>1. Goods(Flat(stock), i) = [c \in Companies |-> stock[c][i].quantity]
    BY DEF Goods, Flat, StockRows
  <2> QED
    BY <1>1, <2>1 DEF Conserved
<1> QED
  BY <1>2, <1>3, <1>4 DEF CashAndGoodsConserved, Serial!CashAndGoodsConserved

-----------------------------------------------------------------------------
(* Rows.                                                                   *)

LEMMA OrderFields ==
    ASSUME NEW row \in Serial!OrderRow
    PROVE  /\ row.company \in Companies /\ row.item \in Items /\ row.side \in {"BUY", "SELL"}
           /\ row.quantity \in Quantities /\ row.remaining \in Nat /\ row.price \in Prices
           /\ row.reservedCash \in Nat /\ row.reservedQuantity \in Nat
           /\ row.status \in {"OPEN", "FILLED", "CANCELLED"}
BY DEF Serial!OrderRow

LEMMA RowFields ==
    /\ \A row \in CashRow : row.cash \in Nat /\ row.reserved \in Nat
    /\ \A row \in StockRow : row.quantity \in Nat /\ row.reserved \in Nat
    /\ \A row \in LedgerSums : row.cash \in Int /\ row.reserved \in Int
BY DEF CashRow, StockRow, LedgerSums

LEMMA BookRows ==
    ASSUME NEW os \in Books
    PROVE  /\ DOMAIN os = 1 .. Len(os) /\ Len(os) \in Nat
           /\ \A o \in DOMAIN os : os[o] \in Serial!OrderRow
BY DEF Books

LEMMA RequestFields ==
    ASSUME NEW q \in RequestState
    PROVE  /\ q.pc = "buy" => q.read \in CashRow /\ q.order \in Serial!OrderRow
           /\ q.pc = "sell" => q.read \in StockRow /\ q.order \in Serial!OrderRow
           /\ q.pc \in {"read", "release", "close"} =>
                 q.id \in 1 .. MaxOrders /\ q.order \in Serial!OrderRow
           /\ q.pc \in {"release", "close"} => q.reserved \in Nat
BY DEF RequestState, CashRow, StockRow

\* A new order.
LEMMA OrderTyped ==
    ASSUME NEW c \in Companies, NEW i \in Items, NEW side \in {"BUY", "SELL"},
           NEW n \in Quantities, NEW price \in Prices, NEW a \in Nat, NEW q \in Nat
    PROVE  Serial!Order(c, i, side, n, price, a, q) \in Serial!OrderRow
BY Amounts DEF Serial!Order, Serial!OrderRow

\* The rows the tick sees, one by one.
LEMMA TickRows ==
    ASSUME Typed
    PROVE  /\ DOMAIN cash = Companies /\ DOMAIN Flat(stock) = StockRows
           /\ \A c \in Companies :
                 TickCash[c] = IF c \in DOMAIN draft.cash THEN draft.cash[c] ELSE cash[c]
           /\ \A row \in StockRows :
                 TickStock[row] = IF row \in DOMAIN draft.stock THEN draft.stock[row]
                                                               ELSE stock[row[1]][row[2]]
           /\ DOMAIN TickOrders = DOMAIN orders
           /\ \A o \in DOMAIN orders :
                 TickOrders[o] = IF o \in DOMAIN draft.orders THEN draft.orders[o] ELSE orders[o]
<1>1. DOMAIN cash = Companies
  BY DEF Typed, TypeOK
<1> QED
  BY <1>1 DEF TickCash, TickStock, TickOrders, Over, Flat

LEMMA StockRowOf ==
    /\ \A c \in Companies, i \in Items : <<c, i>> \in StockRows /\ <<c, i>>[1] = c /\ <<c, i>>[2] = i
    /\ \A row \in StockRows : row[1] \in Companies /\ row[2] \in Items /\ row = <<row[1], row[2]>>
BY DEF StockRows

-----------------------------------------------------------------------------
(* Requests.                                                               *)

\* What any step of request r may do: it becomes q, writes reserves, and adds,
\* closes or leaves orders.
RequestStep(r, q) ==
    /\ cash' \in [Companies -> CashRow] /\ \A c \in Companies : cash'[c].cash = cash[c].cash
    /\ stock' \in [Companies -> [Items -> StockRow]]
    /\ \A c \in Companies, i \in Items : stock'[c][i].quantity = stock[c][i].quantity
    /\ orders' \in Books /\ Len(orders') <= MaxOrders
    /\ \A o \in DOMAIN orders : o \in DOMAIN orders' /\ SameOrder(orders'[o], orders[o])
    /\ ledger' \in [Companies -> LedgerSums]
    /\ UNCHANGED tickVars
    /\ q \in RequestState /\ request' = [request EXCEPT ![r] = q]
    /\ q.pc \in {"read", "release", "close"} =>
          q.id \in DOMAIN orders' /\ SameOrder(q.order, orders'[q.id])
    /\ q.pc = "close" => ~HolderWritten(q.order)

LEMMA RequestKeepsInv ==
    ASSUME ReadCommittedInv, NEW r \in Requests, NEW q, RequestStep(r, q)
    PROVE  ReadCommittedInv'
<1>1. /\ plan' = plan /\ tick' = tick /\ seen' = seen /\ draft' = draft
      /\ orders' \in Books /\ Len(orders') <= MaxOrders
      /\ \A o \in DOMAIN orders : o \in DOMAIN orders' /\ SameOrder(orders'[o], orders[o])
  BY DEF RequestStep, tickVars
<1>2. /\ request' \in [Requests -> RequestState]
      /\ \A s \in Requests : request'[s] = IF s = r THEN q ELSE request[s]
  BY DEF RequestStep, ReadCommittedInv, Typed, TypeOK
<1>3. Typed
  BY DEF ReadCommittedInv
<1>4. TypeOK'
  BY <1>1, <1>2, <1>3 DEF RequestStep, Typed, TypeOK, CashRow, StockRow, LedgerSums, Books
<1>5. ASSUME NEW c \in Companies
      PROVE  /\ TickCash'[c] \in CashRow /\ TickCash'[c].cash = TickCash[c].cash
             /\ TickCash'[c] = IF c \in DOMAIN draft.cash THEN draft.cash[c] ELSE cash'[c]
             /\ cash'[c].cash = cash[c].cash
  <2>1. cash' \in [Companies -> CashRow] /\ cash'[c].cash = cash[c].cash
    BY DEF RequestStep
  <2>2. TickCash'[c] = IF c \in DOMAIN draft.cash THEN draft.cash[c] ELSE cash'[c]
    BY <1>1, <2>1 DEF TickCash, Over
  <2>3. TickCash[c] \in CashRow /\ TickCash[c] = IF c \in DOMAIN draft.cash THEN draft.cash[c] ELSE cash[c]
    BY <1>3, TickRows DEF Typed
  <2> QED
    BY <2>1, <2>2, <2>3
<1>6. ASSUME NEW row \in StockRows
      PROVE  /\ TickStock'[row] \in StockRow /\ TickStock'[row].quantity = TickStock[row].quantity
             /\ Flat(stock)'[row].quantity = Flat(stock)[row].quantity
  <2>1. stock' \in [Companies -> [Items -> StockRow]]
        /\ stock'[row[1]][row[2]].quantity = stock[row[1]][row[2]].quantity
    BY StockRowOf DEF RequestStep
  <2>2. TickStock'[row] = IF row \in DOMAIN draft.stock THEN draft.stock[row]
                                                        ELSE stock'[row[1]][row[2]]
    BY <1>1 DEF TickStock, Over, Flat
  <2>3. TickStock[row] \in StockRow
        /\ TickStock[row] = IF row \in DOMAIN draft.stock THEN draft.stock[row]
                                                          ELSE stock[row[1]][row[2]]
    BY <1>3, TickRows DEF Typed
  <2> QED
    BY <2>1, <2>2, <2>3, StockRowOf DEF Flat
<1>7. TickCash' \in [Companies -> CashRow] /\ TickStock' \in [StockRows -> StockRow]
  <2>1. DOMAIN TickCash' = Companies
    BY DEF TickCash, Over, RequestStep
  <2>2. DOMAIN TickStock' = StockRows
    BY DEF TickStock, Over, Flat
  <2>3. TickCash' = [c \in DOMAIN TickCash' |-> TickCash'[c]]
        /\ TickStock' = [row \in DOMAIN TickStock' |-> TickStock'[row]]
    BY DEF TickCash, TickStock, Over
  <2> QED
    BY <1>5, <1>6, <2>1, <2>2, <2>3
<1>8. TickOrders' \in Books
  <2>1. /\ DOMAIN orders' = 1 .. Len(orders') /\ Len(orders') \in Nat
        /\ \A o \in DOMAIN orders' : orders'[o] \in Serial!OrderRow
    BY <1>1, BookRows
  <2>2. ASSUME NEW o \in DOMAIN draft.orders PROVE draft.orders[o] \in Serial!OrderRow
    <3>1. o \in DOMAIN orders
      BY <1>3 DEF Typed, TypeOK
    <3>2. TickOrders[o] = draft.orders[o] /\ DOMAIN TickOrders = DOMAIN orders
      BY <1>3, <3>1, TickRows
    <3> QED
      BY <1>3, <3>1, <3>2, BookRows DEF Typed
  <2>3. TickOrders' = [o \in 1 .. Len(orders') |->
                          IF o \in DOMAIN draft.orders THEN draft.orders[o] ELSE orders'[o]]
    BY <1>1, <2>1 DEF TickOrders, Over
  <2> QED
    BY <2>1, <2>2, <2>3 DEF Books
<1>9. Typed'
  BY <1>1, <1>3, <1>4, <1>7, <1>8 DEF Typed
<1>10. Balanced'
  <2>1. Cash(cash)' = Cash(cash) /\ Cash(TickCash)' = Cash(TickCash)
    BY <1>5 DEF Cash
  <2>2. ASSUME NEW i \in Items
        PROVE  Goods(Flat(stock), i)' = Goods(Flat(stock), i) /\ Goods(TickStock, i)' = Goods(TickStock, i)
    BY <1>6, StockRowOf DEF Goods
  <2> QED
    BY <2>1, <2>2 DEF Balanced, Conserved, ReadCommittedInv
<1>11. OrdersKeep'
  <2>1. \A k \in 1 .. Len(plan) : plan[k].buy \in DOMAIN orders' /\ plan[k].sell \in DOMAIN orders'
    BY <1>1 DEF ReadCommittedInv, OrdersKeep
  <2>2. \A o \in DOMAIN draft.orders : SameOrder(draft.orders[o], orders'[o])
    BY <1>1, <1>3 DEF ReadCommittedInv, OrdersKeep, SameOrder, Typed, TypeOK
  <2>3. ASSUME NEW s \in Requests, request'[s].pc \in {"read", "release", "close"}
        PROVE  /\ request'[s].id \in DOMAIN orders'
               /\ SameOrder(request'[s].order, orders'[request'[s].id])
    <3>1. CASE s = r
      BY <1>2, <2>3, <3>1 DEF RequestStep
    <3>2. CASE s # r
      BY <1>1, <1>2, <2>3, <3>2 DEF ReadCommittedInv, OrdersKeep, SameOrder
    <3> QED
      BY <3>1, <3>2
  <2> QED
    BY <1>1, <2>1, <2>2, <2>3 DEF OrdersKeep
<1>12. OrdersSeen'
  BY <1>1 DEF ReadCommittedInv, OrdersSeen, SameOrder
<1>13. BalancesSeen'
  <2>1. Seen!MatchHolds(Head(plan))' <=> Seen!MatchHolds(Head(plan))
    BY <1>1 DEF Seen!MatchHolds
  <2>2. \A c \in Companies : TickCash'[c].cash = TickCash[c].cash
    BY <1>5
  <2>3. \A c \in Companies, i \in Items : TickStock'[<<c, i>>].quantity = TickStock[<<c, i>>].quantity
    BY <1>6, StockRowOf
  <2> QED
    BY <1>1, <2>1, <2>2, <2>3 DEF ReadCommittedInv, BalancesSeen
<1>14. Locks'
  <2>1. \A order : HolderWritten(order)' = HolderWritten(order)
    BY <1>1 DEF HolderWritten
  <2>2. \A s \in Requests : request'[s].pc = "close" => ~HolderWritten(request'[s].order)
    BY <1>2 DEF RequestStep, ReadCommittedInv, Locks
  <2>3. ASSUME NEW o \in DOMAIN draft.orders PROVE HolderWritten(orders'[o])
    <3>1. o \in DOMAIN orders /\ HolderWritten(orders[o])
      BY <1>3 DEF ReadCommittedInv, Locks, Typed, TypeOK
    <3> QED
      BY <1>1, <3>1 DEF HolderWritten, SameOrder
  <2>4. Buyer' = Buyer /\ Seller' = Seller /\ Item' = Item
    BY <1>1 DEF Buyer, Seller, Item
  <2> QED
    BY <1>1, <2>2, <2>3, <2>4 DEF Locks, ReadCommittedInv, HolderWritten
<1> QED
  BY <1>9, <1>10, <1>11, <1>12, <1>13, <1>14 DEF ReadCommittedInv

\* A step that moves a request on and writes no row.
LEMMA QuietRequest ==
    ASSUME ReadCommittedInv, NEW r \in Requests, NEW q \in RequestState,
           UNCHANGED <<cash, stock, orders, ledger, tickVars>>,
           request' = [request EXCEPT ![r] = q],
           q.pc \in {"read", "release", "close"} =>
              q.id \in DOMAIN orders /\ SameOrder(q.order, orders[q.id]),
           q.pc = "close" => ~HolderWritten(q.order)
    PROVE  ReadCommittedInv'
<1>1. Typed /\ TypeOK
  BY DEF ReadCommittedInv, Typed
<1>2. \A o \in DOMAIN orders : SameOrder(orders[o], orders[o])
  BY DEF SameOrder
<1>3. RequestStep(r, q)
  BY <1>1, <1>2 DEF RequestStep, Typed, TypeOK, CashRow, StockRow, LedgerSums, Books
<1> QED
  BY <1>3, RequestKeepsInv

LEMMA BeginKeepsInv ==
    ASSUME ReadCommittedInv, NEW r \in Requests, NEW c \in Companies, NEW i \in Items,
           NEW n \in Quantities, NEW price \in Prices,
           BeginBuy(r, c, i, n, price) \/ BeginSell(r, c, i, n, price)
    PROVE  ReadCommittedInv'
<1>1. /\ cash \in [Companies -> [cash : Nat, reserved : Nat]]
      /\ stock \in [Companies -> [Items -> [quantity : Nat, reserved : Nat]]]
  BY DEF ReadCommittedInv, Typed, TypeOK
<1>2. n \in Nat /\ n * price \in Nat
  BY Amounts, Proved!Products, ExchangeAssumption
<1>3. CASE BeginBuy(r, c, i, n, price)
  <2> DEFINE q == [pc |-> "buy", read |-> cash[c],
                   order |-> Serial!Order(c, i, "BUY", n, price, n * price, 0)]
  <2>1. q \in RequestState
    BY <1>1, <1>2, OrderTyped DEF RequestState
  <2> QED
    BY <1>3, <2>1, QuietRequest DEF BeginBuy
<1>4. CASE BeginSell(r, c, i, n, price)
  <2> DEFINE q == [pc |-> "sell", read |-> stock[c][i],
                   order |-> Serial!Order(c, i, "SELL", n, price, 0, n)]
  <2>1. q \in RequestState
    BY <1>1, <1>2, OrderTyped DEF RequestState
  <2> QED
    BY <1>4, <2>1, QuietRequest DEF BeginSell
<1> QED
  BY <1>3, <1>4

LEMMA ReadOrderKeepsInv ==
    ASSUME ReadCommittedInv, NEW r \in Requests, NEW o \in DOMAIN orders, ReadOrder(r, o)
    PROVE  ReadCommittedInv'
<1> DEFINE q == [pc |-> "read", id |-> o, order |-> orders[o]]
<1>1. orders \in Books /\ Len(orders) <= MaxOrders
  BY DEF ReadCommittedInv, Typed, TypeOK, Books
<1>2. o \in 1 .. MaxOrders /\ orders[o] \in Serial!OrderRow
  BY <1>1, BookRows, Amounts
<1>3. q \in RequestState
  BY <1>2 DEF RequestState
<1> QED
  BY <1>3, QuietRequest DEF ReadOrder, SameOrder

LEMMA ReadHolderKeepsInv ==
    ASSUME ReadCommittedInv, NEW r \in Requests, ReadHolder(r)
    PROVE  ReadCommittedInv'
<1> DEFINE order == request[r].order
           amount == IF order.side = "BUY" THEN order.reservedCash ELSE order.reservedQuantity
           row == IF order.side = "BUY" THEN cash[order.company] ELSE stock[order.company][order.item]
           q == [pc |-> "release", id |-> request[r].id, order |-> order,
                 reserved |-> row.reserved - amount]
           done == [pc |-> "done"]
<1>1. /\ request \in [Requests -> RequestState] /\ request[r] \in RequestState
      /\ cash \in [Companies -> CashRow] /\ stock \in [Companies -> [Items -> StockRow]]
  BY DEF ReadCommittedInv, Typed, TypeOK, CashRow, StockRow
<1>2. /\ request[r].pc = "read"
      /\ request[r].id \in 1 .. MaxOrders /\ order \in Serial!OrderRow
      /\ request[r].id \in DOMAIN orders /\ SameOrder(order, orders[request[r].id])
  BY <1>1, RequestFields DEF ReadHolder, ReadCommittedInv, OrdersKeep
<1>3. amount \in Nat /\ row.reserved \in Nat
  BY <1>1, <1>2, OrderFields, RowFields
<1>4. UNCHANGED <<cash, stock, orders, ledger, tickVars>>
  BY DEF ReadHolder
<1>5. CASE CoversRelease(row, amount)
  <2>1. row.reserved - amount \in Nat
    BY <1>3, <1>5 DEF CoversRelease
  <2>2. q \in RequestState
    BY <1>2, <2>1 DEF RequestState
  <2>3. request' = [request EXCEPT ![r] = q]
    BY <1>1, <1>5 DEF ReadHolder
  <2> QED
    BY <1>2, <1>4, <2>2, <2>3, QuietRequest
<1>6. CASE ~CoversRelease(row, amount)
  <2>1. done \in RequestState
    BY DEF RequestState
  <2>2. request' = [request EXCEPT ![r] = done]
    BY <1>6 DEF ReadHolder, Finish
  <2> QED
    BY <1>4, <2>1, <2>2, QuietRequest
<1> QED
  BY <1>5, <1>6

LEMMA ReleaseKeepsInv ==
    ASSUME ReadCommittedInv, NEW r \in Requests, Release(r)
    PROVE  ReadCommittedInv'
<1> DEFINE q == [request[r] EXCEPT !.pc = "close"]
<1>1. /\ request \in [Requests -> RequestState] /\ request[r] \in RequestState
      /\ request[r].pc = "release"
  BY DEF ReadCommittedInv, Typed, TypeOK, Release
<1>2. request[r] \in [pc : {"release", "close"}, id : 1 .. MaxOrders, order : Serial!OrderRow,
                      reserved : Nat]
  BY <1>1 DEF RequestState
<1>3. /\ q \in [pc : {"release", "close"}, id : 1 .. MaxOrders, order : Serial!OrderRow,
                reserved : Nat]
      /\ q.pc = "close" /\ q.id = request[r].id /\ q.order = request[r].order
  BY <1>2
<1>4. q \in RequestState
  BY <1>3 DEF RequestState
<1>5. ~HolderWritten(request[r].order)
  BY DEF Release, HolderWritten, CashRowFree, StockRowFree
<1>6. request' = [request EXCEPT ![r] = q]
  BY <1>1 DEF Release
<1>7. request[r].id \in DOMAIN orders /\ SameOrder(request[r].order, orders[request[r].id])
  BY <1>1 DEF ReadCommittedInv, OrdersKeep
<1>8. UNCHANGED <<cash, stock, orders, ledger, tickVars>>
  BY DEF Release
<1> HIDE DEF q
<1> QED
  BY <1>3, <1>4, <1>5, <1>6, <1>7, <1>8, QuietRequest

\* A new order joins the book; the orders that were there stay.
LEMMA OrderAdded ==
    ASSUME NEW os \in Books, NEW row \in Serial!OrderRow, Len(os) < MaxOrders
    PROVE  LET new == Append(os, row) IN
           /\ new \in Books /\ Len(new) <= MaxOrders
           /\ \A o \in DOMAIN os : o \in DOMAIN new /\ SameOrder(new[o], os[o])
BY AppendProperties, Amounts, BookRows DEF Books, SameOrder

\* An order is closed; it is still the order of the same company.
LEMMA OrderClosed ==
    ASSUME NEW os \in Books, NEW o \in DOMAIN os
    PROVE  LET new == [os EXCEPT ![o] = Serial!ClosedWithoutReserve(os[o])] IN
           /\ new \in Books /\ Len(new) = Len(os) /\ DOMAIN new = DOMAIN os
           /\ \A p \in DOMAIN os : SameOrder(new[p], os[p])
<1>1. ASSUME NEW order \in Serial!OrderRow
      PROVE  /\ Serial!ClosedWithoutReserve(order) \in Serial!OrderRow
             /\ SameOrder(Serial!ClosedWithoutReserve(order), order)
  BY DEF Serial!ClosedWithoutReserve, Serial!OrderRow, SameOrder
<1>2. os[o] \in Serial!OrderRow
  BY BookRows
<1>3. /\ Serial!ClosedWithoutReserve(os[o]) \in Serial!OrderRow
      /\ SameOrder(Serial!ClosedWithoutReserve(os[o]), os[o])
  BY <1>1, <1>2
<1> QED
  BY <1>3 DEF Books, SameOrder

\* A company's reserve is written; so is the stock's.
LEMMA CashReserveWritten ==
    ASSUME NEW c \in Companies, NEW a \in Nat, cash \in [Companies -> CashRow]
    PROVE  LET new == [cash EXCEPT ![c].reserved = a] IN
           /\ new \in [Companies -> CashRow]
           /\ \A d \in Companies : new[d].cash = cash[d].cash
BY Proved!ReserveWritten, ExchangeAssumption DEF CashRow

LEMMA StockReserveWritten ==
    ASSUME NEW c \in Companies, NEW i \in Items, NEW a \in Nat,
           stock \in [Companies -> [Items -> StockRow]]
    PROVE  LET new == [stock EXCEPT ![c][i].reserved = a] IN
           /\ new \in [Companies -> [Items -> StockRow]]
           /\ \A d \in Companies, j \in Items : new[d][j].quantity = stock[d][j].quantity
BY Proved!StockReserveWritten, ExchangeAssumption DEF StockRow

LEMMA LedgerReserveTyped ==
    ASSUME NEW c \in Companies, NEW a \in Int, ledger \in [Companies -> LedgerSums],
           Serial!LedgerReserve(c, a)
    PROVE  ledger' \in [Companies -> LedgerSums]
<1>1. ledger[c] \in LedgerSums /\ ledger[c].reserved + a \in Int
  BY RowFields
<1>2. ledger' = [ledger EXCEPT ![c].reserved = ledger[c].reserved + a]
  BY DEF Serial!LedgerReserve
<1>3. [ledger EXCEPT ![c].reserved = ledger[c].reserved + a] \in [Companies -> LedgerSums]
  BY <1>1, Proved!ReserveWritten, ExchangeAssumption DEF LedgerSums
<1> QED
  BY <1>2, <1>3

LEMMA FinishKeepsInv ==
    ASSUME ReadCommittedInv, NEW r \in Requests, FinishBuy(r) \/ FinishSell(r)
    PROVE  ReadCommittedInv'
<1> DEFINE order == request[r].order
           done == [pc |-> "done"]
<1>1. /\ request[r] \in RequestState /\ orders \in Books
      /\ cash \in [Companies -> CashRow] /\ stock \in [Companies -> [Items -> StockRow]]
      /\ ledger \in [Companies -> LedgerSums]
  BY DEF ReadCommittedInv, Typed, TypeOK, CashRow, StockRow, LedgerSums, Books
<1>2. /\ done \in RequestState /\ done.pc = "done"
      /\ request' = [request EXCEPT ![r] = done] /\ UNCHANGED tickVars
      /\ request[r].pc \in {"buy", "sell"} /\ Len(orders) < MaxOrders
      /\ orders' = Append(orders, order)
  BY DEF FinishBuy, FinishSell, Finish, RequestState
<1>3. /\ order \in Serial!OrderRow /\ order.company \in Companies /\ order.item \in Items
      /\ order.reservedCash \in Nat /\ order.reservedQuantity \in Nat
  <2>1. order \in Serial!OrderRow
    BY <1>1, <1>2, RequestFields
  <2> QED
    BY <2>1, OrderFields
<1>4. /\ orders' \in Books /\ Len(orders') <= MaxOrders
      /\ \A o \in DOMAIN orders : o \in DOMAIN orders' /\ SameOrder(orders'[o], orders[o])
  BY <1>1, <1>2, <1>3, OrderAdded
<1> HIDE DEF order, done
<1>5. CASE FinishBuy(r)
  <2> DEFINE a == request[r].read.reserved + order.reservedCash
  <2>1. request[r].pc = "buy" /\ stock' = stock
    BY <1>5 DEF FinishBuy
  <2>2. a \in Nat
    BY <1>1, <1>3, <2>1, RequestFields, RowFields
  <2>3. cash' = [cash EXCEPT ![order.company].reserved = a]
    BY <1>1, <1>3, <1>5 DEF FinishBuy, ReserveWritten, order
  <2>4. ledger' \in [Companies -> LedgerSums]
    BY <1>1, <1>3, <1>5, LedgerReserveTyped DEF FinishBuy, order
  <2> HIDE DEF a
  <2>5. cash' \in [Companies -> CashRow] /\ \A c \in Companies : cash'[c].cash = cash[c].cash
    BY <1>1, <1>3, <2>2, <2>3, CashReserveWritten
  <2>6. RequestStep(r, done)
    BY <1>1, <1>2, <1>4, <2>1, <2>4, <2>5 DEF RequestStep
  <2> QED
    BY <2>6, RequestKeepsInv
<1>6. CASE FinishSell(r)
  <2> DEFINE a == request[r].read.reserved + order.reservedQuantity
  <2>1. request[r].pc = "sell" /\ cash' = cash /\ ledger' = ledger
    BY <1>6 DEF FinishSell
  <2>2. a \in Nat
    BY <1>1, <1>3, <2>1, RequestFields, RowFields
  <2>3. stock' = [stock EXCEPT ![order.company][order.item].reserved = a]
    BY <1>1, <1>3, <1>6 DEF FinishSell, ReserveWritten, order
  <2> HIDE DEF a
  <2>4. /\ stock' \in [Companies -> [Items -> StockRow]]
        /\ \A c \in Companies, i \in Items : stock'[c][i].quantity = stock[c][i].quantity
    BY <1>1, <1>3, <2>2, <2>3, StockReserveWritten
  <2>5. RequestStep(r, done)
    BY <1>1, <1>2, <1>4, <2>1, <2>4 DEF RequestStep
  <2> QED
    BY <2>5, RequestKeepsInv
<1> QED
  BY <1>5, <1>6

LEMMA CloseKeepsInv ==
    ASSUME ReadCommittedInv, NEW r \in Requests, Close(r)
    PROVE  ReadCommittedInv'
<1> DEFINE order == request[r].order
           done == [pc |-> "done"]
           o == request[r].id
           a == request[r].reserved
           row == Serial!ClosedWithoutReserve(orders[o])
<1>1. /\ request[r] \in RequestState /\ orders \in Books /\ Len(orders) <= MaxOrders
      /\ cash \in [Companies -> CashRow] /\ stock \in [Companies -> [Items -> StockRow]]
      /\ ledger \in [Companies -> LedgerSums]
  BY DEF ReadCommittedInv, Typed, TypeOK, CashRow, StockRow, LedgerSums, Books
<1>2. /\ done \in RequestState /\ done.pc = "done"
      /\ request' = [request EXCEPT ![r] = done] /\ UNCHANGED tickVars
      /\ request[r].pc = "close"
  BY DEF Close, Finish, RequestState
<1>3. /\ o \in DOMAIN orders /\ a \in Nat
      /\ order.company \in Companies /\ order.item \in Items /\ order.reservedCash \in Nat
  BY <1>1, <1>2, RequestFields, OrderFields DEF ReadCommittedInv, OrdersKeep
<1>4. /\ orders' \in Books /\ Len(orders') <= MaxOrders
      /\ \A p \in DOMAIN orders : p \in DOMAIN orders' /\ SameOrder(orders'[p], orders[p])
  <2>1. orders' = [orders EXCEPT ![o] = row]
    BY DEF Close
  <2> HIDE DEF o
  <2>2. LET new == [orders EXCEPT ![o] = row] IN
        /\ new \in Books /\ Len(new) = Len(orders) /\ DOMAIN new = DOMAIN orders
        /\ \A p \in DOMAIN orders : SameOrder(new[p], orders[p])
    BY <1>1, <1>3, OrderClosed
  <2> QED
    BY <1>1, <2>1, <2>2
<1> HIDE DEF order, done
<1>5. CASE order.side = "BUY"
  <2>1. /\ cash' = [cash EXCEPT ![order.company].reserved = a]
        /\ Serial!LedgerReserve(order.company, -order.reservedCash) /\ stock' = stock
    BY <1>5 DEF Close, order
  <2> HIDE DEF a
  <2>2. ledger' \in [Companies -> LedgerSums]
    BY <1>1, <1>3, <2>1, LedgerReserveTyped
  <2>3. cash' \in [Companies -> CashRow] /\ \A c \in Companies : cash'[c].cash = cash[c].cash
    BY <1>1, <1>3, <2>1, CashReserveWritten
  <2>4. RequestStep(r, done)
    BY <1>1, <1>2, <1>4, <2>1, <2>2, <2>3 DEF RequestStep
  <2> QED
    BY <2>4, RequestKeepsInv
<1>6. CASE order.side # "BUY"
  <2>1. /\ stock' = [stock EXCEPT ![order.company][order.item].reserved = a]
        /\ cash' = cash /\ ledger' = ledger
    BY <1>6 DEF Close, order
  <2> HIDE DEF a
  <2>2. /\ stock' \in [Companies -> [Items -> StockRow]]
        /\ \A c \in Companies, i \in Items : stock'[c][i].quantity = stock[c][i].quantity
    BY <1>1, <1>3, <2>1, StockReserveWritten
  <2>3. RequestStep(r, done)
    BY <1>1, <1>2, <1>4, <2>1, <2>2 DEF RequestStep
  <2> QED
    BY <2>3, RequestKeepsInv
<1> QED
  BY <1>5, <1>6

-----------------------------------------------------------------------------
(* Ticks.                                                                  *)

\* A step of the tick writes no committed row and moves no request.
LEMMA TickKeepsInv ==
    ASSUME ReadCommittedInv, UNCHANGED rowVars,
           plan' \in Seq(Serial!Match),
           \A k \in 1 .. Len(plan') : plan'[k].buy \in DOMAIN orders /\ plan'[k].sell \in DOMAIN orders,
           tick' \in {"idle", "orders", "parties", "check", "pay", "deliver", "fill"},
           seen' = [cash |-> seen'.cash, stock |-> seen'.stock, orders |-> seen'.orders],
           draft' = [cash |-> draft'.cash, stock |-> draft'.stock, orders |-> draft'.orders,
                     ledger |-> draft'.ledger],
           DOMAIN draft'.cash \subseteq Companies, DOMAIN draft'.stock \subseteq StockRows,
           DOMAIN draft'.orders \subseteq DOMAIN orders,
           TickCash' \in [Companies -> CashRow], TickStock' \in [StockRows -> StockRow],
           TickOrders' \in Books, draft'.ledger \in [Companies -> LedgerSums],
           Conserved(TickCash', TickStock'),
           \A o \in DOMAIN draft'.orders : SameOrder(draft'.orders[o], orders[o]),
           OrdersSeen', BalancesSeen', Locks'
    PROVE  ReadCommittedInv'
<1>1. cash' = cash /\ stock' = stock /\ orders' = orders /\ ledger' = ledger /\ request' = request
  BY DEF rowVars
<1>2. TypeOK'
  BY <1>1 DEF ReadCommittedInv, Typed, TypeOK
<1>3. Typed'
  BY <1>1, <1>2 DEF ReadCommittedInv, Typed
<1>4. Flat(stock)' = Flat(stock)
  BY <1>1 DEF Flat
<1>5. Balanced'
  BY <1>1, <1>4 DEF ReadCommittedInv, Balanced, Conserved, Cash, Goods
<1>6. OrdersKeep'
  BY <1>1 DEF ReadCommittedInv, OrdersKeep
<1> QED
  BY <1>3, <1>5, <1>6 DEF ReadCommittedInv

\* A step that writes nothing either: it reads, checks or moves on.
LEMMA ReadingKeepsInv ==
    ASSUME ReadCommittedInv, UNCHANGED <<rowVars, draft>>,
           plan' \in Seq(Serial!Match),
           \A k \in 1 .. Len(plan') : plan'[k].buy \in DOMAIN orders /\ plan'[k].sell \in DOMAIN orders,
           tick' \in {"idle", "orders", "parties", "check", "pay"},
           seen' = [cash |-> seen'.cash, stock |-> seen'.stock, orders |-> seen'.orders],
           OrdersSeen', BalancesSeen'
    PROVE  ReadCommittedInv'
<1>1. draft' = draft /\ request' = request /\ orders' = orders
  BY DEF rowVars
<1>2. TickCash' = TickCash /\ TickStock' = TickStock /\ TickOrders' = TickOrders
  BY DEF rowVars, TickCash, TickStock, TickOrders, Flat
<1>3. Locks'
  BY <1>1 DEF ReadCommittedInv, Locks, HolderWritten
<1>4. Typed /\ TypeOK /\ Conserved(TickCash, TickStock)
      /\ \A o \in DOMAIN draft.orders : SameOrder(draft.orders[o], orders[o])
  BY DEF ReadCommittedInv, Typed, Balanced, OrdersKeep
<1>5. /\ draft' = [cash |-> draft'.cash, stock |-> draft'.stock, orders |-> draft'.orders,
                   ledger |-> draft'.ledger]
      /\ DOMAIN draft'.cash \subseteq Companies /\ DOMAIN draft'.stock \subseteq StockRows
      /\ DOMAIN draft'.orders \subseteq DOMAIN orders
      /\ TickCash' \in [Companies -> CashRow] /\ TickStock' \in [StockRows -> StockRow]
      /\ TickOrders' \in Books /\ draft'.ledger \in [Companies -> LedgerSums]
      /\ Conserved(TickCash', TickStock')
      /\ \A o \in DOMAIN draft'.orders : SameOrder(draft'.orders[o], orders[o])
  BY <1>1, <1>2, <1>4 DEF Typed, TypeOK
<1>6. UNCHANGED rowVars
  OBVIOUS
<1> QED
  BY <1>3, <1>5, <1>6, TickKeepsInv

LEMMA TickBeginsKeepsInv ==
    ASSUME ReadCommittedInv, TickBegins
    PROVE  ReadCommittedInv'
<1>1. orders \in Books
  BY DEF ReadCommittedInv, Typed, TypeOK, Books
<1>2. OrdersSeen' /\ BalancesSeen'
  BY DEF TickBegins, OrdersSeen, BalancesSeen
<1>3. seen' = [cash |-> seen'.cash, stock |-> seen'.stock, orders |-> seen'.orders]
  BY DEF TickBegins, ReadCommittedInv, Typed
<1> QED
  BY <1>1, <1>2, <1>3, PlanTyped, ReadingKeepsInv DEF TickBegins

\* What is planned, and what is left of it after the first match.
LEMMA PlanRest ==
    ASSUME ReadCommittedInv, plan # <<>>
    PROVE  /\ Head(plan) \in Serial!Match
           /\ Head(plan).buy \in DOMAIN orders /\ Head(plan).sell \in DOMAIN orders
           /\ Tail(plan) \in Seq(Serial!Match)
           /\ \A k \in 1 .. Len(Tail(plan)) :
                 Tail(plan)[k].buy \in DOMAIN orders /\ Tail(plan)[k].sell \in DOMAIN orders
<1>1. /\ plan \in Seq(Serial!Match)
      /\ \A k \in 1 .. Len(plan) : plan[k].buy \in DOMAIN orders /\ plan[k].sell \in DOMAIN orders
  BY DEF ReadCommittedInv, Typed, TypeOK, OrdersKeep
<1>2. /\ Head(plan) = plan[1] /\ 1 \in 1 .. Len(plan) /\ plan[1] \in Serial!Match
      /\ Tail(plan) \in Seq(Serial!Match) /\ Len(Tail(plan)) = Len(plan) - 1 /\ Len(plan) \in Nat
      /\ \A k \in 1 .. Len(Tail(plan)) : Tail(plan)[k] = plan[k + 1] /\ k + 1 \in 1 .. Len(plan)
  BY <1>1
<1> QED
  BY <1>1, <1>2

LEMMA TickReadsOrdersKeepsInv ==
    ASSUME ReadCommittedInv, TickReadsOrders
    PROVE  ReadCommittedInv'
<1> DEFINE m == Head(plan)
           open == \A o \in {m.buy, m.sell} : TickOrders[o].status = "OPEN"
<1>1. tick = "orders" /\ plan # <<>> /\ UNCHANGED <<rowVars, draft>>
  BY DEF TickReadsOrders
<1>2. CASE open
  <2>1. seen' = [seen EXCEPT !.orders = TickOrders] /\ tick' = "parties" /\ plan' = plan
    BY <1>2 DEF TickReadsOrders
  <2>2. /\ seen = [cash |-> seen.cash, stock |-> seen.stock, orders |-> seen.orders]
        /\ plan \in Seq(Serial!Match)
        /\ \A k \in 1 .. Len(plan) : plan[k].buy \in DOMAIN orders /\ plan[k].sell \in DOMAIN orders
    BY DEF ReadCommittedInv, Typed, TypeOK, OrdersKeep
  <2>3. /\ seen' = [cash |-> seen.cash, stock |-> seen.stock, orders |-> TickOrders]
        /\ seen'.orders = TickOrders
        /\ seen' = [cash |-> seen'.cash, stock |-> seen'.stock, orders |-> seen'.orders]
    BY <2>1, <2>2
  <2>4. /\ TickOrders \in Books /\ DOMAIN TickOrders = DOMAIN orders
        /\ \A o \in DOMAIN TickOrders : SameOrder(TickOrders[o], orders[o])
    BY TickRows DEF ReadCommittedInv, Typed, OrdersKeep, SameOrder
  <2>5. OrdersSeen'
    BY <1>1, <2>1, <2>3, <2>4, PlanRest DEF OrdersSeen, rowVars
  <2>6. BalancesSeen'
    BY <2>1 DEF BalancesSeen
  <2> QED
    BY <1>1, <2>1, <2>2, <2>3, <2>5, <2>6, ReadingKeepsInv
<1>3. CASE ~open
  <2>1. seen' = seen /\ tick' = "orders" /\ plan' = Tail(plan)
    BY <1>1, <1>3 DEF TickReadsOrders
  <2>2. OrdersSeen' /\ BalancesSeen'
    BY <2>1 DEF OrdersSeen, BalancesSeen
  <2>3. seen' = [cash |-> seen'.cash, stock |-> seen'.stock, orders |-> seen'.orders]
    BY <2>1 DEF ReadCommittedInv, Typed
  <2> QED
    BY <1>1, <2>1, <2>2, <2>3, PlanRest, ReadingKeepsInv
<1> QED
  BY <1>2, <1>3

LEMMA TickReadsPartiesKeepsInv ==
    ASSUME ReadCommittedInv, TickReadsParties
    PROVE  ReadCommittedInv'
<1>1. /\ tick = "parties" /\ tick' = "check" /\ UNCHANGED <<rowVars, draft>> /\ plan' = plan
      /\ seen' = [seen EXCEPT !.cash = TickCash, !.stock = Nested(TickStock)]
  BY DEF TickReadsParties
<1>2. /\ seen = [cash |-> seen.cash, stock |-> seen.stock, orders |-> seen.orders]
      /\ plan \in Seq(Serial!Match)
      /\ \A k \in 1 .. Len(plan) : plan[k].buy \in DOMAIN orders /\ plan[k].sell \in DOMAIN orders
      /\ TickCash \in [Companies -> CashRow] /\ TickStock \in [StockRows -> StockRow]
  BY DEF ReadCommittedInv, Typed, TypeOK, OrdersKeep
<1>3. /\ seen' = [cash |-> TickCash, stock |-> Nested(TickStock), orders |-> seen.orders]
      /\ seen' = [cash |-> seen'.cash, stock |-> seen'.stock, orders |-> seen'.orders]
      /\ seen'.cash = TickCash /\ seen'.stock = Nested(TickStock) /\ seen'.orders = seen.orders
  BY <1>1, <1>2
<1>4. OrdersSeen'
  BY <1>1, <1>3 DEF ReadCommittedInv, OrdersSeen, rowVars
<1>5. /\ Nested(TickStock) \in [Companies -> [Items -> StockRow]]
      /\ \A c \in Companies, i \in Items : Nested(TickStock)[c][i] = TickStock[<<c, i>>]
  BY <1>2, StockRowOf DEF Nested
<1>6. TickCash' = TickCash /\ TickStock' = TickStock
  BY <1>1 DEF rowVars, TickCash, TickStock, Flat
<1>7. BalancesSeen'
  BY <1>1, <1>2, <1>3, <1>5, <1>6 DEF BalancesSeen
<1> QED
  BY <1>1, <1>2, <1>3, <1>4, <1>7, ReadingKeepsInv

\* The tick gives up its draft: a rollback, or the end of a commit.
LEMMA RollBackKeepsInv ==
    ASSUME ReadCommittedInv, RollBack, request' = request,
           cash' \in [Companies -> CashRow], stock' \in [Companies -> [Items -> StockRow]],
           orders' \in Books, Len(orders') = Len(orders), ledger' \in [Companies -> LedgerSums],
           \A o \in DOMAIN orders : SameOrder(orders'[o], orders[o]),
           Conserved(cash', Flat(stock'))
    PROVE  ReadCommittedInv'
<1>1. /\ tick' = "idle" /\ plan' = <<>> /\ seen' = NothingSeen /\ draft' = NoDraft
      /\ draft' = [cash |-> None, stock |-> None, orders |-> None, ledger |-> NoDraft.ledger]
      /\ seen' = [cash |-> None, stock |-> None, orders |-> None]
      /\ draft'.cash = None /\ draft'.stock = None /\ draft'.orders = None
      /\ draft'.ledger \in [Companies -> LedgerSums]
  BY DEF RollBack, NoDraft, NothingSeen, LedgerSums
<1>2. DOMAIN None = {}
  BY DEF None
<1>3. DOMAIN orders' = DOMAIN orders
  BY BookRows DEF ReadCommittedInv, Typed, TypeOK, Books
<1>4. TypeOK'
  <2>1. plan' \in Seq(Serial!Match)
    BY <1>1
  <2> QED
    BY <1>1, <1>2, <2>1 DEF ReadCommittedInv, Typed, TypeOK, CashRow, StockRow, LedgerSums, Books
<1>5. TickCash' = cash' /\ TickStock' = Flat(stock)' /\ TickOrders' = orders'
  <2>1. TickCash' = [c \in DOMAIN cash' |-> cash'[c]]
    BY <1>1, <1>2 DEF TickCash, Over
  <2>2. TickStock' = [row \in StockRows |-> Flat(stock)'[row]]
    BY <1>1, <1>2 DEF TickStock, Over, Flat
  <2>3. TickOrders' = [o \in DOMAIN orders' |-> orders'[o]]
    BY <1>1, <1>2 DEF TickOrders, Over
  <2>4. orders' = [o \in DOMAIN orders' |-> orders'[o]]
    BY DEF Books
  <2> QED
    BY <2>1, <2>2, <2>3, <2>4 DEF Flat
<1>6. Flat(stock)' \in [StockRows -> StockRow]
  BY StockRowOf DEF Flat
<1>7. Typed'
  <2>1. /\ draft' = [cash |-> draft'.cash, stock |-> draft'.stock, orders |-> draft'.orders,
                     ledger |-> draft'.ledger]
        /\ seen' = [cash |-> seen'.cash, stock |-> seen'.stock, orders |-> seen'.orders]
    BY <1>1
  <2>2. Len(orders') <= MaxOrders
    BY DEF ReadCommittedInv, Typed
  <2> QED
    BY <1>1, <1>4, <1>5, <1>6, <2>1, <2>2 DEF Typed
<1>8. Balanced'
  <2>1. Flat(stock)' = Flat(stock')
    BY DEF Flat
  <2>2. Conserved(cash, Flat(stock))' /\ Conserved(cash', TickStock')
    BY <1>5, <2>1 DEF Conserved, Cash, Goods
  <2>3. Conserved(TickCash, TickStock)'
    BY <1>5, <2>2 DEF Conserved, Cash, Goods
  <2> QED
    BY <2>2, <2>3 DEF Balanced
<1>9. OrdersKeep'
  <2>1. ASSUME NEW r \in Requests, request[r].pc \in {"read", "release", "close"}
        PROVE  request[r].id \in DOMAIN orders' /\ SameOrder(request[r].order, orders'[request[r].id])
    BY <1>3, <2>1 DEF ReadCommittedInv, OrdersKeep, SameOrder
  <2> QED
    BY <1>1, <1>2, <2>1 DEF OrdersKeep
<1>10. OrdersSeen' /\ BalancesSeen'
  BY <1>1 DEF OrdersSeen, BalancesSeen
<1>11. Locks'
  BY <1>1, <1>2 DEF Locks, HolderWritten
<1> QED
  BY <1>7, <1>8, <1>9, <1>10, <1>11 DEF ReadCommittedInv

\* Where the tick goes after each write of a match.
LEMMA ProceedSteps ==
    ASSUME Proceed
    PROVE  /\ tick = "check" => tick' = "pay" /\ plan' = plan /\ seen' = seen
           /\ tick = "pay" => tick' = "deliver" /\ plan' = plan /\ seen' = seen
           /\ tick = "deliver" => tick' = "fill" /\ plan' = plan /\ seen' = seen
           /\ tick = "fill" => tick' = "orders" /\ plan' = Tail(plan) /\ seen' = NothingSeen
BY DEF Proceed, After

LEMMA TickChecksKeepsInv ==
    ASSUME ReadCommittedInv, TickChecks
    PROVE  ReadCommittedInv'
<1>1. tick = "check" /\ UNCHANGED rowVars
  BY DEF TickChecks
<1>2. Typed /\ TypeOK
  BY DEF ReadCommittedInv, Typed
<1>3. CASE Seen!MatchHolds(Head(plan)) /\ Seen!BuyerHasRoom(Head(plan))
  <2>1. tick' = "pay" /\ plan' = plan /\ seen' = seen /\ draft' = draft
    BY <1>1, <1>3, ProceedSteps DEF TickChecks
  <2>2. OrdersSeen'
    BY <1>1, <2>1 DEF ReadCommittedInv, OrdersSeen, rowVars
  <2>3. Seen!MatchHolds(Head(plan))'
    BY <1>3, <2>1 DEF Seen!MatchHolds
  <2>4. TickCash' = TickCash /\ TickStock' = TickStock
    BY <1>1, <2>1 DEF rowVars, TickCash, TickStock, Flat
  <2>5. BalancesSeen'
    BY <1>1, <2>1, <2>3, <2>4 DEF ReadCommittedInv, BalancesSeen
  <2>6. /\ plan \in Seq(Serial!Match)
        /\ \A k \in 1 .. Len(plan) : plan[k].buy \in DOMAIN orders /\ plan[k].sell \in DOMAIN orders
        /\ seen = [cash |-> seen.cash, stock |-> seen.stock, orders |-> seen.orders]
    BY DEF ReadCommittedInv, Typed, TypeOK, OrdersKeep
  <2>7. UNCHANGED <<rowVars, draft>>
    BY <1>1, <2>1
  <2> QED
    BY <2>1, <2>2, <2>5, <2>6, <2>7, ReadingKeepsInv
<1>4. CASE ~(Seen!MatchHolds(Head(plan)) /\ Seen!BuyerHasRoom(Head(plan)))
  <2>1. /\ RollBack /\ request' = request
        /\ cash' = cash /\ stock' = stock /\ orders' = orders /\ ledger' = ledger
    BY <1>1, <1>4 DEF TickChecks, rowVars
  <2>2. Conserved(cash', Flat(stock'))
    BY <2>1 DEF ReadCommittedInv, Balanced
  <2>3. \A o \in DOMAIN orders : SameOrder(orders'[o], orders[o])
    BY <2>1 DEF SameOrder
  <2> QED
    BY <1>2, <2>1, <2>2, <2>3, RollBackKeepsInv DEF TypeOK, CashRow, StockRow, LedgerSums, Books
<1> QED
  BY <1>3, <1>4

LEMMA TickCommitsKeepsInv ==
    ASSUME ReadCommittedInv, TickCommits
    PROVE  ReadCommittedInv'
<1>1. /\ cash' = TickCash /\ stock' = Nested(TickStock) /\ orders' = TickOrders /\ RollBack
      /\ request' = request
  BY DEF TickCommits
<1>2. /\ TickCash \in [Companies -> CashRow] /\ TickStock \in [StockRows -> StockRow]
      /\ TickOrders \in Books /\ ledger \in [Companies -> LedgerSums]
      /\ draft.ledger \in [Companies -> LedgerSums] /\ orders \in Books
      /\ Conserved(TickCash, TickStock)
  BY DEF ReadCommittedInv, Typed, TypeOK, LedgerSums, Balanced, Books
<1>3. Nested(TickStock) \in [Companies -> [Items -> StockRow]] /\ Flat(Nested(TickStock)) = TickStock
  BY <1>2, StockRowOf DEF Nested, Flat
<1>4. DOMAIN TickOrders = DOMAIN orders /\ \A o \in DOMAIN orders : SameOrder(TickOrders[o], orders[o])
  BY TickRows DEF ReadCommittedInv, OrdersKeep, SameOrder
<1>5. Len(TickOrders) = Len(orders)
  BY <1>2, <1>4 DEF Books
<1>6. ledger' \in [Companies -> LedgerSums]
  <2>1. ledger' = [c \in Companies |->
            [cash |-> ledger[c].cash + draft.ledger[c].cash,
             reserved |-> ledger[c].reserved + draft.ledger[c].reserved]]
    BY DEF TickCommits
  <2>2. ASSUME NEW c \in Companies
        PROVE  /\ ledger[c].cash + draft.ledger[c].cash \in Int
               /\ ledger[c].reserved + draft.ledger[c].reserved \in Int
    BY <1>2, RowFields
  <2> QED
    BY <2>1, <2>2 DEF LedgerSums
<1> QED
  BY <1>1, <1>2, <1>3, <1>4, <1>5, <1>6, RollBackKeepsInv

\* The match at hand, once it has passed its checks.
LEMMA MatchAtHand ==
    ASSUME ReadCommittedInv, tick \in {"pay", "deliver", "fill"}
    PROVE  LET m == Head(plan)
               buy == seen.orders[m.buy]
               sell == seen.orders[m.sell]
           IN
           /\ plan # <<>> /\ m \in Serial!Match /\ m.quantity \in Nat
           /\ m.buy \in DOMAIN seen.orders /\ m.sell \in DOMAIN seen.orders /\ m.buy # m.sell
           /\ buy \in Serial!OrderRow /\ sell \in Serial!OrderRow
           /\ Buyer \in Companies /\ Seller \in Companies /\ Item \in Items
           /\ Seen!Notional(m) \in Nat /\ Seen!Reduction(m) \in Nat
           /\ seen.cash[Buyer].cash >= Seen!Notional(m)
           /\ seen.cash[Buyer].reserved >= Seen!Reduction(m)
           /\ seen.stock[Seller][Item].quantity >= m.quantity
           /\ seen.stock[Seller][Item].reserved >= m.quantity
           /\ buy.remaining >= m.quantity /\ buy.reservedCash >= Seen!Reduction(m)
           /\ sell.remaining >= m.quantity /\ sell.reservedQuantity >= m.quantity
           /\ buy.side = "BUY" /\ sell.side = "SELL" /\ sell.item = Item
<1> DEFINE m == Head(plan)
           buy == seen.orders[m.buy]
           sell == seen.orders[m.sell]
<1>1. plan # <<>> /\ m.buy \in DOMAIN seen.orders /\ m.sell \in DOMAIN seen.orders
      /\ seen.orders \in Books
  BY DEF ReadCommittedInv, OrdersSeen
<1>2. m \in Serial!Match
  BY <1>1, PlanRest
<1>3. m.quantity \in Nat /\ m.price \in Nat
  BY <1>2, Amounts DEF Serial!Match
<1>4. buy \in Serial!OrderRow /\ sell \in Serial!OrderRow
  BY <1>1, BookRows
<1>5. buy.company \in Companies /\ sell.company \in Companies /\ buy.item \in Items /\ buy.price \in Nat
  BY <1>4, OrderFields, Amounts
<1>6. Seen!MatchHolds(m)
  BY DEF ReadCommittedInv, BalancesSeen
<1>7. m.quantity * m.price \in Nat /\ m.quantity * buy.price \in Nat
  BY <1>3, <1>5, Proved!Products, ExchangeAssumption
<1>8. /\ Buyer = buy.company /\ Seller = sell.company /\ Item = buy.item
      /\ Seen!Notional(m) = m.quantity * m.price /\ Seen!Reduction(m) = m.quantity * buy.price
  BY DEF Buyer, Seller, Item, Seen!Notional, Seen!Reduction
<1>9. /\ seen.cash[buy.company].cash >= m.quantity * m.price
      /\ seen.cash[buy.company].reserved >= m.quantity * buy.price
      /\ seen.stock[sell.company][sell.item].quantity >= m.quantity
      /\ seen.stock[sell.company][sell.item].reserved >= m.quantity
      /\ buy.remaining >= m.quantity /\ buy.reservedCash >= m.quantity * buy.price
      /\ sell.remaining >= m.quantity /\ sell.reservedQuantity >= m.quantity
      /\ buy.side = "BUY" /\ sell.side = "SELL" /\ sell.item = buy.item
  BY <1>6 DEF Seen!MatchHolds
<1>10. m.buy # m.sell
  BY <1>9
<1> HIDE DEF m, buy, sell
<1>11. seen.stock[Seller][Item] = seen.stock[sell.company][sell.item]
  BY <1>8, <1>9
<1>12. /\ Buyer \in Companies /\ Seller \in Companies /\ Item \in Items
       /\ Seen!Notional(m) \in Nat /\ Seen!Reduction(m) \in Nat
       /\ seen.cash[Buyer].cash >= Seen!Notional(m)
       /\ seen.cash[Buyer].reserved >= Seen!Reduction(m)
       /\ seen.stock[Seller][Item].quantity >= m.quantity
       /\ seen.stock[Seller][Item].reserved >= m.quantity
       /\ buy.reservedCash >= Seen!Reduction(m) /\ sell.item = Item
  BY <1>5, <1>7, <1>8, <1>9, <1>11
<1> QED
  BY <1>1, <1>2, <1>3, <1>4, <1>9, <1>10, <1>12 DEF m, buy, sell

LEMMA TickPaysKeepsInv ==
    ASSUME ReadCommittedInv, TickPays
    PROVE  ReadCommittedInv'
<1> DEFINE m == Head(plan)
           N == Seen!Notional(m)
           R == Seen!Reduction(m)
           buyerRow == [cash |-> seen.cash[Buyer].cash - IF Buyer = Seller THEN 0 ELSE N,
                        reserved |-> seen.cash[Buyer].reserved - R]
           sellerRow == [TickCash[Seller] EXCEPT !.cash = seen.cash[Seller].cash + N]
           rows == [c \in {Buyer, Seller} |-> IF c = Buyer THEN buyerRow ELSE sellerRow]
           written == [c \in DOMAIN draft.cash \cup {Buyer, Seller} |->
                          IF c \in DOMAIN rows THEN rows[c] ELSE draft.cash[c]]
<1>1. /\ tick = "pay" /\ tick' = "deliver" /\ plan' = plan /\ seen' = seen /\ UNCHANGED rowVars
      /\ TickMayWriteCash(Buyer) /\ TickMayWriteCash(Seller)
  BY ProceedSteps DEF TickPays
<1>2. /\ draft = [cash |-> draft.cash, stock |-> draft.stock, orders |-> draft.orders,
                  ledger |-> draft.ledger]
      /\ TickCash \in [Companies -> CashRow] /\ TickStock \in [StockRows -> StockRow]
      /\ TickOrders \in Books /\ draft.ledger \in [Companies -> LedgerSums]
      /\ DOMAIN draft.cash \subseteq Companies /\ DOMAIN draft.stock \subseteq StockRows
      /\ DOMAIN draft.orders \subseteq DOMAIN orders
      /\ DOMAIN cash = Companies
      /\ seen = [cash |-> seen.cash, stock |-> seen.stock, orders |-> seen.orders]
      /\ plan \in Seq(Serial!Match)
      /\ \A k \in 1 .. Len(plan) : plan[k].buy \in DOMAIN orders /\ plan[k].sell \in DOMAIN orders
      /\ \A o \in DOMAIN draft.orders : SameOrder(draft.orders[o], orders[o])
  BY TickRows DEF ReadCommittedInv, Typed, TypeOK, OrdersKeep
<1>3. draft' = [draft EXCEPT !.cash = written]
  BY DEF TickPays
<1>4. /\ draft'.cash = written /\ draft'.stock = draft.stock /\ draft'.orders = draft.orders
      /\ draft'.ledger = draft.ledger
      /\ draft' = [cash |-> draft'.cash, stock |-> draft'.stock, orders |-> draft'.orders,
                   ledger |-> draft'.ledger]
  <2> HIDE DEF written
  <2> QED
    BY <1>2, <1>3
<1>5. /\ Buyer \in Companies /\ Seller \in Companies /\ N \in Nat /\ R \in Nat
      /\ seen.cash[Buyer].cash >= N /\ seen.cash[Buyer].reserved >= R
  BY <1>1, MatchAtHand
<1>6. /\ seen.cash \in [Companies -> CashRow]
      /\ \A c \in Companies : seen.cash[c].cash = TickCash[c].cash
  BY <1>1 DEF ReadCommittedInv, BalancesSeen
<1>7. \A c \in Companies : /\ seen.cash[c].cash \in Nat /\ seen.cash[c].reserved \in Nat
                           /\ TickCash[c] \in CashRow /\ TickCash[c].cash \in Nat
  BY <1>2, <1>6, RowFields
<1> HIDE DEF N, R
<1>8. /\ buyerRow \in CashRow
      /\ buyerRow.cash = TickCash[Buyer].cash - IF Buyer = Seller THEN 0 ELSE N
  BY <1>5, <1>6, <1>7 DEF CashRow
<1>9. sellerRow \in CashRow /\ sellerRow.cash = TickCash[Seller].cash + N
  <2>1. ASSUME NEW row \in CashRow, NEW x \in Nat
        PROVE  [row EXCEPT !.cash = x] \in CashRow /\ [row EXCEPT !.cash = x].cash = x
    BY DEF CashRow
  <2>2. seen.cash[Seller].cash + N \in Nat /\ TickCash[Seller] \in CashRow
    BY <1>5, <1>7
  <2> QED
    BY <1>5, <1>6, <2>1, <2>2
<1> HIDE DEF buyerRow, sellerRow
<1>10. DOMAIN written = DOMAIN draft.cash \cup {Buyer, Seller} /\ DOMAIN written \subseteq Companies
  BY <1>2, <1>5
<1>11. \A c \in DOMAIN written :
          written[c] = IF c = Buyer THEN buyerRow ELSE IF c = Seller THEN sellerRow ELSE draft.cash[c]
  OBVIOUS
<1> HIDE DEF written
<1>12. ASSUME NEW c \in Companies
       PROVE  TickCash'[c] = IF c = Buyer THEN buyerRow ELSE IF c = Seller THEN sellerRow ELSE TickCash[c]
  <2>1. TickCash'[c] = IF c \in DOMAIN written THEN written[c] ELSE cash[c]
    BY <1>1, <1>2, <1>4 DEF TickCash, Over, rowVars
  <2>2. TickCash[c] = IF c \in DOMAIN draft.cash THEN draft.cash[c] ELSE cash[c]
    BY <1>2 DEF TickCash, Over
  <2> QED
    BY <1>10, <1>11, <2>1, <2>2
<1>13. TickCash' \in [Companies -> CashRow]
  <2>1. TickCash' = [c \in Companies |-> TickCash'[c]]
    BY <1>1, <1>2 DEF TickCash, Over, rowVars
  <2> QED
    BY <1>7, <1>8, <1>9, <1>12, <2>1
<1>14. TickStock' = TickStock /\ TickOrders' = TickOrders
  BY <1>1, <1>4 DEF rowVars, TickStock, TickOrders, Flat
<1>15. Conserved(TickCash', TickStock')
  <2> DEFINE f == Cash(TickCash)
             g == Cash(TickCash')
  <2>1. \A c \in Companies : f[c] = TickCash[c].cash /\ g[c] = TickCash'[c].cash
    BY DEF Cash
  <2> HIDE DEF f, g
  <2>2. \A c \in Companies : g[c] = f[c] - (IF c = Buyer THEN N ELSE 0)
                                         + (IF c = Seller THEN N ELSE 0)
    BY <1>5, <1>7, <1>8, <1>9, <1>12, <2>1
  <2>3. \A c \in Companies : f[c] \in Int
    BY <1>7, <2>1
  <2>4. N \in Int /\ IsFiniteSet(Companies)
    BY <1>5, Amounts
  <2>5. SumFunctionOnSet(g, Companies) = SumFunctionOnSet(f, Companies)
    BY <1>5, <2>2, <2>3, <2>4, SumMoved
  <2> QED
    BY <1>14, <2>5 DEF ReadCommittedInv, Balanced, Conserved, f, g
<1>16. OrdersSeen'
  BY <1>1 DEF ReadCommittedInv, OrdersSeen, rowVars
<1>17. BalancesSeen'
  <2>1. Seen!MatchHolds(Head(plan))' <=> Seen!MatchHolds(Head(plan))
    BY <1>1 DEF Seen!MatchHolds
  <2> QED
    BY <1>1, <1>14, <2>1 DEF ReadCommittedInv, BalancesSeen
<1>18. Locks'
  <2>1. Buyer' = Buyer /\ Seller' = Seller /\ Item' = Item
    BY <1>1 DEF Buyer, Seller, Item
  <2>2. ASSUME NEW r \in Requests, request[r].pc = "close" PROVE ~HolderWritten(request[r].order)'
    <3>1. ~HolderWritten(request[r].order)
      BY <2>2 DEF ReadCommittedInv, Locks
    <3>2. request[r].order.side = "BUY" => request[r].order.company \notin {Buyer, Seller}
      BY <1>1, <2>2, <3>1 DEF TickMayWriteCash, CashRowFree, HolderWritten
    <3> QED
      BY <1>1, <1>4, <1>10, <3>1, <3>2 DEF HolderWritten, rowVars
  <2>3. ASSUME NEW o \in DOMAIN draft.orders PROVE HolderWritten(orders[o])'
    <3>1. HolderWritten(orders[o])
      BY DEF ReadCommittedInv, Locks
    <3> QED
      BY <1>1, <1>4, <1>10, <3>1 DEF HolderWritten, rowVars
  <2>4. tick' = "deliver" /\ Buyer' \in DOMAIN draft'.cash
    BY <1>1, <1>4, <1>10, <2>1
  <2> QED
    BY <1>1, <1>4, <2>2, <2>3, <2>4 DEF Locks, rowVars
<1> QED
  BY <1>1, <1>2, <1>4, <1>10, <1>13, <1>14, <1>15, <1>16, <1>17, <1>18, TickKeepsInv

\* A row of stock from which n items are sold, and one to which they go.
LEMMA SoldAndBought ==
    ASSUME NEW row \in StockRow, NEW n \in Nat
    PROVE  /\ row.quantity >= n /\ row.reserved >= n =>
                 Seen!SoldStock(row, n) \in StockRow /\ Seen!SoldStock(row, n).quantity = row.quantity - n
           /\ [row EXCEPT !.quantity = @ + n] \in StockRow
           /\ [row EXCEPT !.quantity = @ + n].quantity = row.quantity + n
<1>1. row.quantity \in Nat /\ row.reserved \in Nat
  BY RowFields
<1>2. ASSUME NEW a \in Nat, NEW b \in Nat
      PROVE  /\ [row EXCEPT !.quantity = a] \in StockRow
             /\ [row EXCEPT !.quantity = a].quantity = a
             /\ [row EXCEPT !.quantity = a, !.reserved = b] \in StockRow
             /\ [row EXCEPT !.quantity = a, !.reserved = b].quantity = a
  BY DEF StockRow
<1>3. Seen!SoldStock(row, n) = [row EXCEPT !.quantity = row.quantity - n, !.reserved = row.reserved - n]
  BY DEF Seen!SoldStock
<1>4. ASSUME row.quantity >= n, row.reserved >= n
      PROVE  Seen!SoldStock(row, n) \in StockRow /\ Seen!SoldStock(row, n).quantity = row.quantity - n
  <2>1. row.quantity - n \in Nat /\ row.reserved - n \in Nat
    BY <1>1, <1>4
  <2> QED
    BY <1>2, <1>3, <2>1
<1>5. row.quantity + n \in Nat
  BY <1>1
<1> QED
  BY <1>2, <1>4, <1>5

LEMMA TickDeliversKeepsInv ==
    ASSUME ReadCommittedInv, TickDelivers
    PROVE  ReadCommittedInv'
<1> DEFINE n == Head(plan).quantity
           from == <<Seller, Item>>
           to == <<Buyer, Item>>
           sold == Seen!SoldStock(seen.stock[Seller][Item], n)
           base == [row \in DOMAIN draft.stock \cup {from, to} |->
                       IF row = from THEN sold ELSE TickStock[row]]
           written == [base EXCEPT ![to].quantity = @ + n]
<1>1. /\ tick = "deliver" /\ tick' = "fill" /\ plan' = plan /\ seen' = seen /\ UNCHANGED rowVars
      /\ TickMayWriteStock(from) /\ TickMayWriteStock(to)
  BY ProceedSteps DEF TickDelivers
<1>2. /\ draft = [cash |-> draft.cash, stock |-> draft.stock, orders |-> draft.orders,
                  ledger |-> draft.ledger]
      /\ TickCash \in [Companies -> CashRow] /\ TickStock \in [StockRows -> StockRow]
      /\ TickOrders \in Books /\ draft.ledger \in [Companies -> LedgerSums]
      /\ DOMAIN draft.cash \subseteq Companies /\ DOMAIN draft.stock \subseteq StockRows
      /\ DOMAIN draft.orders \subseteq DOMAIN orders
      /\ seen = [cash |-> seen.cash, stock |-> seen.stock, orders |-> seen.orders]
      /\ plan \in Seq(Serial!Match)
      /\ \A k \in 1 .. Len(plan) : plan[k].buy \in DOMAIN orders /\ plan[k].sell \in DOMAIN orders
      /\ \A o \in DOMAIN draft.orders : SameOrder(draft.orders[o], orders[o])
  BY DEF ReadCommittedInv, Typed, TypeOK, OrdersKeep
<1>3. draft' = [draft EXCEPT !.stock = written]
  BY DEF TickDelivers
<1>4. /\ draft'.stock = written /\ draft'.cash = draft.cash /\ draft'.orders = draft.orders
      /\ draft'.ledger = draft.ledger
      /\ draft' = [cash |-> draft'.cash, stock |-> draft'.stock, orders |-> draft'.orders,
                   ledger |-> draft'.ledger]
  <2> HIDE DEF written
  <2> QED
    BY <1>2, <1>3
<1>5. /\ Buyer \in Companies /\ Seller \in Companies /\ Item \in Items /\ n \in Nat
      /\ seen.stock[Seller][Item].quantity >= n /\ seen.stock[Seller][Item].reserved >= n
      /\ from \in StockRows /\ to \in StockRows
  BY <1>1, MatchAtHand, StockRowOf
<1>6. /\ seen.stock[Seller][Item] \in StockRow
      /\ seen.stock[Seller][Item].quantity = TickStock[from].quantity
  BY <1>1, <1>5 DEF ReadCommittedInv, BalancesSeen
<1> HIDE DEF n
<1>7. sold \in StockRow /\ sold.quantity = TickStock[from].quantity - n
  BY <1>5, <1>6, SoldAndBought
<1>8. \A row \in StockRows : TickStock[row] \in StockRow /\ TickStock[row].quantity \in Nat
  BY <1>2, RowFields
<1> HIDE DEF sold, from, to
<1>9. /\ DOMAIN base = DOMAIN draft.stock \cup {from, to} /\ DOMAIN base \subseteq StockRows
      /\ \A row \in DOMAIN base : base[row] = IF row = from THEN sold ELSE TickStock[row]
  BY <1>2, <1>5
<1> HIDE DEF base
<1>10. /\ DOMAIN written = DOMAIN base
       /\ \A row \in DOMAIN base :
             written[row] = IF row = to THEN [base[to] EXCEPT !.quantity = @ + n] ELSE base[row]
  BY <1>9
<1> HIDE DEF written
<1>11. ASSUME NEW row \in DOMAIN base
       PROVE  /\ base[row] \in StockRow
              /\ base[row].quantity = TickStock[row].quantity - (IF row = from THEN n ELSE 0)
  BY <1>5, <1>7, <1>8, <1>9
<1>12. ASSUME NEW row \in DOMAIN base
       PROVE  /\ written[row] \in StockRow
              /\ written[row].quantity = TickStock[row].quantity
                    - (IF row = from THEN n ELSE 0) + (IF row = to THEN n ELSE 0)
  <2>1. base[row].quantity \in Int /\ TickStock[row].quantity \in Int
    BY <1>8, <1>9, <1>11, RowFields
  <2>2. CASE row = to
    <3>1. written[row] \in StockRow /\ written[row].quantity = base[row].quantity + n
      BY <1>5, <1>10, <1>11, <2>2, SoldAndBought, ZenonT(60)
    <3> QED
      BY <1>5, <1>11, <2>1, <2>2, <3>1
  <2>3. CASE row # to
    BY <1>5, <1>10, <1>11, <2>1, <2>3
  <2> QED
    BY <2>2, <2>3
<1>13. ASSUME NEW row \in StockRows
       PROVE  TickStock'[row] = IF row \in DOMAIN base THEN written[row] ELSE TickStock[row]
  <2>1. TickStock'[row] = IF row \in DOMAIN written THEN written[row] ELSE Flat(stock)[row]
    BY <1>1, <1>4 DEF TickStock, Over, Flat, rowVars
  <2>2. TickStock[row] = IF row \in DOMAIN draft.stock THEN draft.stock[row] ELSE Flat(stock)[row]
    BY DEF TickStock, Over, Flat
  <2> QED
    BY <1>9, <1>10, <2>1, <2>2
<1>14. ASSUME NEW row \in StockRows
       PROVE  /\ TickStock'[row] \in StockRow
              /\ TickStock'[row].quantity = TickStock[row].quantity
                    - (IF row = from THEN n ELSE 0) + (IF row = to THEN n ELSE 0)
  <2>1. CASE row \in DOMAIN base
    BY <1>12, <1>13, <2>1
  <2>2. CASE row \notin DOMAIN base
    BY <1>8, <1>9, <1>13, <2>2
  <2> QED
    BY <2>1, <2>2
<1>15. TickStock' \in [StockRows -> StockRow]
  <2>1. TickStock' = [row \in StockRows |-> TickStock'[row]]
    BY DEF TickStock, Over, Flat
  <2> QED
    BY <1>14, <2>1
<1>16. TickCash' = TickCash /\ TickOrders' = TickOrders
  BY <1>1, <1>4 DEF rowVars, TickCash, TickOrders
<1>17. Conserved(TickCash', TickStock')
  <2>1. ASSUME NEW i \in Items
        PROVE  SumFunctionOnSet(Goods(TickStock', i), Companies)
                  = SumFunctionOnSet(Goods(TickStock, i), Companies)
    <3> DEFINE f == Goods(TickStock, i)
               g == Goods(TickStock', i)
               k == IF i = Item THEN n ELSE 0
    <3>1. \A c \in Companies : f[c] = TickStock[<<c, i>>].quantity /\ g[c] = TickStock'[<<c, i>>].quantity
      BY DEF Goods
    <3> HIDE DEF f, g
    <3>2. k \in Int /\ IsFiniteSet(Companies)
      BY <1>5, Amounts
    <3>3. ASSUME NEW c \in Companies PROVE f[c] \in Int
      <4>1. <<c, i>> \in StockRows
        BY StockRowOf
      <4>2. TickStock[<<c, i>>].quantity \in Nat
        BY <1>8, <4>1
      <4> QED
        BY <3>1, <4>2
    <3>4. ASSUME NEW c \in Companies
          PROVE  g[c] = f[c] - (IF c = Seller THEN k ELSE 0) + (IF c = Buyer THEN k ELSE 0)
      <4>1. /\ <<c, i>> \in StockRows
            /\ <<c, i>> = from <=> c = Seller /\ i = Item
            /\ <<c, i>> = to <=> c = Buyer /\ i = Item
        BY StockRowOf DEF from, to
      <4>2. g[c] = f[c] - (IF c = Seller /\ i = Item THEN n ELSE 0)
                        + (IF c = Buyer /\ i = Item THEN n ELSE 0)
        BY <1>14, <3>1, <4>1
      <4> QED
        BY <1>5, <3>3, <4>2
    <3> HIDE DEF k
    <3>5. SumFunctionOnSet(g, Companies) = SumFunctionOnSet(f, Companies)
      BY <1>5, <3>2, <3>3, <3>4, SumMoved
    <3> QED
      BY <3>5 DEF f, g
  <2> QED
    BY <1>16, <2>1 DEF ReadCommittedInv, Balanced, Conserved
<1>18. OrdersSeen'
  BY <1>1 DEF ReadCommittedInv, OrdersSeen, rowVars
<1>19. BalancesSeen'
  <2>1. Seen!MatchHolds(Head(plan))' <=> Seen!MatchHolds(Head(plan))
    BY <1>1 DEF Seen!MatchHolds
  <2> QED
    BY <1>1, <2>1 DEF ReadCommittedInv, BalancesSeen
<1>20. Locks'
  <2>1. Buyer' = Buyer /\ Seller' = Seller /\ Item' = Item
    BY <1>1 DEF Buyer, Seller, Item
  <2>2. ASSUME NEW r \in Requests, request[r].pc = "close" PROVE ~HolderWritten(request[r].order)'
    <3>1. ~HolderWritten(request[r].order)
      BY <2>2 DEF ReadCommittedInv, Locks
    <3>2. request[r].order.side \in {"BUY", "SELL"}
      BY <2>2, RequestFields, OrderFields DEF ReadCommittedInv, Typed, TypeOK
    <3>3. request[r].order.side = "SELL" =>
             <<request[r].order.company, request[r].order.item>> \notin {from, to}
      BY <1>1, <2>2, <3>1, <3>2 DEF TickMayWriteStock, StockRowFree, HolderWritten
    <3> QED
      BY <1>1, <1>4, <1>9, <1>10, <3>1, <3>2, <3>3 DEF HolderWritten, rowVars
  <2>3. ASSUME NEW o \in DOMAIN draft.orders PROVE HolderWritten(orders[o])'
    <3>1. HolderWritten(orders[o])
      BY DEF ReadCommittedInv, Locks
    <3> QED
      BY <1>1, <1>4, <1>9, <1>10, <3>1 DEF HolderWritten, rowVars
  <2>4. Buyer' \in DOMAIN draft'.cash
    BY <1>1, <1>4, <2>1 DEF ReadCommittedInv, Locks
  <2>5. <<Seller', Item'>> \in DOMAIN draft'.stock
    BY <1>4, <1>9, <1>10, <2>1 DEF from
  <2> QED
    BY <1>1, <1>4, <2>2, <2>3, <2>4, <2>5 DEF Locks, rowVars
<1> QED
  BY <1>1, <1>2, <1>4, <1>9, <1>10, <1>15, <1>16, <1>17, <1>18, <1>19, <1>20, TickKeepsInv

\* An order that has traded, in part or whole, is still the order of its company.
LEMMA FilledTyped ==
    ASSUME NEW order \in Serial!OrderRow, NEW n \in Nat, NEW a \in Nat, NEW q \in Nat,
           order.remaining - n \in Nat, order.reservedCash - a \in Nat,
           order.reservedQuantity - q \in Nat
    PROVE  /\ Seen!Filled(order, n, a, q) \in Serial!OrderRow
           /\ SameOrder(Seen!Filled(order, n, a, q), order)
BY DEF Seen!Filled, Seen!IsFilled, Serial!OrderRow, SameOrder

LEMMA TickFillsKeepsInv ==
    ASSUME ReadCommittedInv, TickFills
    PROVE  ReadCommittedInv'
<1> DEFINE m == Head(plan)
           n == m.quantity
           N == Seen!Notional(m)
           R == Seen!Reduction(m)
           bought == Seen!Filled(seen.orders[m.buy], n, R, 0)
           sold == Seen!Filled(seen.orders[m.sell], n, 0, n)
           rows == [o \in {m.buy, m.sell} |->
                       IF o = m.buy THEN Seen!Filled(seen.orders[o], n, R, 0)
                                    ELSE Seen!Filled(seen.orders[o], n, 0, n)]
           written == [o \in DOMAIN draft.orders \cup {m.buy, m.sell} |->
                          IF o \in DOMAIN rows THEN rows[o] ELSE draft.orders[o]]
           sums == [c \in Companies |->
                       [cash |-> draft.ledger[c].cash - (IF c = Buyer THEN N ELSE 0)
                                                      + (IF c = Seller THEN N ELSE 0),
                        reserved |-> draft.ledger[c].reserved - IF c = Buyer THEN R ELSE 0]]
<1>1. /\ tick = "fill" /\ tick' = "orders" /\ plan' = Tail(plan) /\ seen' = NothingSeen
      /\ UNCHANGED rowVars
  BY ProceedSteps DEF TickFills
<1>2. /\ draft = [cash |-> draft.cash, stock |-> draft.stock, orders |-> draft.orders,
                  ledger |-> draft.ledger]
      /\ TickCash \in [Companies -> CashRow] /\ TickStock \in [StockRows -> StockRow]
      /\ TickOrders \in Books /\ draft.ledger \in [Companies -> LedgerSums] /\ orders \in Books
      /\ DOMAIN draft.cash \subseteq Companies /\ DOMAIN draft.stock \subseteq StockRows
      /\ DOMAIN draft.orders \subseteq DOMAIN orders
      /\ \A o \in DOMAIN draft.orders : SameOrder(draft.orders[o], orders[o])
      /\ Conserved(TickCash, TickStock)
  BY DEF ReadCommittedInv, Typed, TypeOK, OrdersKeep, Balanced, Books
<1>3. draft' = [draft EXCEPT !.orders = written, !.ledger = sums]
  BY <1>2 DEF TickFills
<1>4. /\ draft'.orders = written /\ draft'.ledger = sums
      /\ draft'.cash = draft.cash /\ draft'.stock = draft.stock
      /\ draft' = [cash |-> draft'.cash, stock |-> draft'.stock, orders |-> draft'.orders,
                   ledger |-> draft'.ledger]
  <2> HIDE DEF written, sums
  <2> QED
    BY <1>2, <1>3
<1>5. /\ plan # <<>> /\ n \in Nat /\ N \in Nat /\ R \in Nat /\ m.buy # m.sell
      /\ m.buy \in DOMAIN seen.orders /\ m.sell \in DOMAIN seen.orders
      /\ seen.orders[m.buy] \in Serial!OrderRow /\ seen.orders[m.sell] \in Serial!OrderRow
      /\ seen.orders[m.buy].remaining >= n /\ seen.orders[m.buy].reservedCash >= R
      /\ seen.orders[m.sell].remaining >= n /\ seen.orders[m.sell].reservedQuantity >= n
      /\ seen.orders[m.buy].side = "BUY" /\ seen.orders[m.sell].side = "SELL"
      /\ seen.orders[m.sell].item = Item
  BY <1>1, MatchAtHand
<1>6. m.buy \in DOMAIN orders /\ m.sell \in DOMAIN orders
  BY <1>5, PlanRest
<1>7. /\ SameOrder(seen.orders[m.buy], orders[m.buy])
      /\ SameOrder(seen.orders[m.sell], orders[m.sell])
  BY <1>1, <1>5 DEF ReadCommittedInv, OrdersSeen
<1>8. Buyer = seen.orders[m.buy].company /\ Seller = seen.orders[m.sell].company
  BY DEF Buyer, Seller
<1>9. sums \in [Companies -> LedgerSums]
  <2>1. ASSUME NEW c \in Companies
        PROVE  draft.ledger[c].cash \in Int /\ draft.ledger[c].reserved \in Int
    BY <1>2, RowFields
  <2> HIDE DEF N, R
  <2> QED
    BY <1>5, <2>1 DEF LedgerSums
<1> HIDE DEF sums, N, R, n
<1>10. bought \in Serial!OrderRow /\ SameOrder(bought, seen.orders[m.buy])
  <2>1. /\ seen.orders[m.buy].remaining - n \in Nat /\ seen.orders[m.buy].reservedCash - R \in Nat
        /\ seen.orders[m.buy].reservedQuantity - 0 \in Nat
    BY <1>5, OrderFields
  <2> QED
    BY <1>5, <2>1, FilledTyped
<1>11. sold \in Serial!OrderRow /\ SameOrder(sold, seen.orders[m.sell])
  <2>1. /\ seen.orders[m.sell].remaining - n \in Nat /\ seen.orders[m.sell].reservedCash - 0 \in Nat
        /\ seen.orders[m.sell].reservedQuantity - n \in Nat
    BY <1>5, OrderFields
  <2> QED
    BY <1>5, <2>1, FilledTyped
<1> HIDE DEF bought, sold
<1>12. /\ DOMAIN written = DOMAIN draft.orders \cup {m.buy, m.sell}
       /\ \A o \in DOMAIN written :
             written[o] = IF o = m.buy THEN bought ELSE IF o = m.sell THEN sold ELSE draft.orders[o]
  BY DEF bought, sold
<1> HIDE DEF written
<1>13. DOMAIN written \subseteq DOMAIN orders
  BY <1>2, <1>6, <1>12
<1>14. \A o \in DOMAIN written : SameOrder(written[o], orders[o])
  BY <1>2, <1>7, <1>10, <1>11, <1>12 DEF SameOrder
<1>15. TickOrders' \in Books
  <2>1. DOMAIN orders = 1 .. Len(orders) /\ \A o \in DOMAIN orders : TickOrders[o] \in Serial!OrderRow
    BY <1>2, BookRows, TickRows DEF ReadCommittedInv
  <2>2. TickOrders' = [o \in DOMAIN orders |-> IF o \in DOMAIN written THEN written[o] ELSE orders[o]]
    BY <1>1, <1>4 DEF TickOrders, Over, rowVars
  <2>3. ASSUME NEW o \in DOMAIN orders
        PROVE  (IF o \in DOMAIN written THEN written[o] ELSE orders[o]) \in Serial!OrderRow
    <3>1. TickOrders[o] = IF o \in DOMAIN draft.orders THEN draft.orders[o] ELSE orders[o]
      BY TickRows DEF ReadCommittedInv
    <3> QED
      BY <1>2, <1>10, <1>11, <1>12, <2>1, <3>1
  <2> QED
    BY <1>2, <2>1, <2>2, <2>3 DEF Books
<1>16. TickCash' = TickCash /\ TickStock' = TickStock
  BY <1>1, <1>4 DEF rowVars, TickCash, TickStock, Flat
<1>17. OrdersSeen' /\ BalancesSeen'
  BY <1>1 DEF OrdersSeen, BalancesSeen
<1>18. Locks'
  <2>1. \A order : HolderWritten(order)' = HolderWritten(order)
    BY <1>4 DEF HolderWritten
  <2>2. HolderWritten(orders[m.buy])
    BY <1>1, <1>5, <1>7, <1>8 DEF ReadCommittedInv, Locks, HolderWritten, SameOrder
  <2>3. HolderWritten(orders[m.sell])
    BY <1>1, <1>5, <1>7, <1>8 DEF ReadCommittedInv, Locks, HolderWritten, SameOrder
  <2>4. ASSUME NEW o \in DOMAIN written PROVE HolderWritten(orders[o])
    BY <1>12, <2>2, <2>3 DEF ReadCommittedInv, Locks
  <2>5. \A r \in Requests : request[r].pc = "close" => ~HolderWritten(request[r].order)
    BY DEF ReadCommittedInv, Locks
  <2>6. request' = request /\ orders' = orders
    BY <1>1 DEF rowVars
  <2>7. \A r \in Requests : request'[r].pc = "close" => ~HolderWritten(request[r].order)'
    BY <2>1, <2>5, <2>6
  <2>8. \A o \in DOMAIN draft'.orders : HolderWritten(orders[o])'
    BY <1>4, <2>4, <2>6 DEF HolderWritten
  <2> QED
    BY <1>1, <1>4, <2>5, <2>6, <2>8 DEF Locks, HolderWritten
<1>19. /\ seen' = [cash |-> seen'.cash, stock |-> seen'.stock, orders |-> seen'.orders]
       /\ tick' \in {"idle", "orders", "parties", "check", "pay", "deliver", "fill"}
  BY <1>1 DEF NothingSeen
<1>20. /\ plan' \in Seq(Serial!Match)
       /\ \A k \in 1 .. Len(plan') : plan'[k].buy \in DOMAIN orders /\ plan'[k].sell \in DOMAIN orders
  BY <1>1, <1>5, PlanRest
<1>21. /\ DOMAIN draft'.orders \subseteq DOMAIN orders
       /\ \A o \in DOMAIN draft'.orders : SameOrder(draft'.orders[o], orders[o])
  BY <1>4, <1>13, <1>14
<1>22. /\ DOMAIN draft'.cash \subseteq Companies /\ DOMAIN draft'.stock \subseteq StockRows
       /\ TickCash' \in [Companies -> CashRow] /\ TickStock' \in [StockRows -> StockRow]
       /\ draft'.ledger \in [Companies -> LedgerSums] /\ Conserved(TickCash', TickStock')
  BY <1>2, <1>4, <1>9, <1>16
<1> QED
  BY <1>1, <1>4, <1>15, <1>17, <1>18, <1>19, <1>20, <1>21, <1>22, TickKeepsInv

-----------------------------------------------------------------------------
LEMMA InitHolds ==
    ASSUME Init
    PROVE  ReadCommittedInv
<1> DEFINE money == [cash |-> StartCash, reserved |-> 0]
           goods == [quantity |-> StartStock, reserved |-> 0]
<1>1. /\ cash = [c \in Companies |-> money] /\ stock = [c \in Companies |-> [i \in Items |-> goods]]
      /\ orders = <<>> /\ ledger = [c \in Companies |-> [cash |-> 0, reserved |-> 0]]
      /\ plan = <<>> /\ request = [r \in Requests |-> Fresh] /\ tick = "idle"
      /\ seen = NothingSeen /\ draft = NoDraft
  BY DEF Init, Serial!StartingRows
<1>2. DOMAIN None = {}
  BY DEF None
<1>3. /\ draft.cash = None /\ draft.stock = None /\ draft.orders = None
      /\ draft.ledger = [c \in Companies |-> [cash |-> 0, reserved |-> 0]]
      /\ draft = [cash |-> draft.cash, stock |-> draft.stock, orders |-> draft.orders,
                  ledger |-> draft.ledger]
      /\ seen = [cash |-> seen.cash, stock |-> seen.stock, orders |-> seen.orders]
  BY <1>1 DEF NoDraft, NothingSeen
<1>4. money \in CashRow /\ goods \in StockRow /\ [cash |-> 0, reserved |-> 0] \in LedgerSums
      /\ Fresh \in RequestState /\ Fresh.pc = "idle"
  BY Amounts DEF CashRow, StockRow, LedgerSums, RequestState, Fresh
<1>5. /\ cash \in [Companies -> CashRow] /\ stock \in [Companies -> [Items -> StockRow]]
      /\ orders \in Books /\ Len(orders) <= MaxOrders /\ DOMAIN orders = {}
      /\ ledger \in [Companies -> LedgerSums] /\ draft.ledger \in [Companies -> LedgerSums]
      /\ plan \in Seq(Serial!Match) /\ Len(plan) = 0
      /\ request \in [Requests -> RequestState]
  <2> HIDE DEF money, goods
  <2> QED
    BY <1>1, <1>3, <1>4, Amounts DEF Books
<1>6. TickCash = cash /\ TickStock = Flat(stock) /\ TickOrders = orders
  <2>1. TickCash = [c \in Companies |-> cash[c]]
    BY <1>1, <1>2, <1>3 DEF TickCash, Over
  <2>2. TickStock = [row \in StockRows |-> Flat(stock)[row]]
    BY <1>2, <1>3 DEF TickStock, Over, Flat
  <2>3. TickOrders = [o \in DOMAIN orders |-> orders[o]]
    BY <1>2, <1>3 DEF TickOrders, Over
  <2> QED
    BY <1>5, <2>1, <2>2, <2>3 DEF Flat, Books
<1>7. Flat(stock) \in [StockRows -> StockRow]
  BY <1>5, StockRowOf DEF Flat
<1>8. TypeOK
  BY <1>1, <1>2, <1>3, <1>5 DEF TypeOK, CashRow, StockRow, LedgerSums, Books
<1>9. Typed
  BY <1>3, <1>5, <1>6, <1>7, <1>8 DEF Typed
<1>10. Conserved(cash, Flat(stock))
  <2>1. SumFunctionOnSet(Cash(cash), Companies) = StartCash * Cardinality(Companies)
    <3>1. \A c \in Companies : Cash(cash)[c] = StartCash
      BY <1>1 DEF Cash
    <3> QED
      BY <3>1, Amounts, SumConstant
  <2>2. ASSUME NEW i \in Items
        PROVE  SumFunctionOnSet(Goods(Flat(stock), i), Companies) = StartStock * Cardinality(Companies)
    <3>1. \A c \in Companies : Goods(Flat(stock), i)[c] = StartStock
      BY <1>1, StockRowOf DEF Goods, Flat
    <3> QED
      BY <3>1, Amounts, SumConstant
  <2> QED
    BY <2>1, <2>2 DEF Conserved
<1>11. Balanced
  BY <1>6, <1>10 DEF Balanced
<1>12. \A r \in Requests : request[r].pc = "idle"
  BY <1>1, <1>4
<1> QED
  BY <1>1, <1>2, <1>3, <1>5, <1>9, <1>11, <1>12
  DEF ReadCommittedInv, OrdersKeep, OrdersSeen, BalancesSeen, Locks

LEMMA NextKeepsInv ==
    ASSUME ReadCommittedInv, [Next]_vars
    PROVE  ReadCommittedInv'
<1>1. ASSUME NEW r \in Requests, Placing(r) PROVE ReadCommittedInv'
  BY <1>1, BeginKeepsInv, FinishKeepsInv DEF Placing
<1>2. ASSUME NEW r \in Requests, Cancelling(r) PROVE ReadCommittedInv'
  BY <1>2, ReadOrderKeepsInv, ReadHolderKeepsInv, ReleaseKeepsInv, CloseKeepsInv DEF Cancelling
<1>3. CASE Ticking
  BY <1>3, TickBeginsKeepsInv, TickReadsOrdersKeepsInv, TickReadsPartiesKeepsInv,
     TickChecksKeepsInv, TickPaysKeepsInv, TickDeliversKeepsInv, TickFillsKeepsInv,
     TickCommitsKeepsInv DEF Ticking
<1>4. CASE UNCHANGED vars
  <2>1. /\ cash' = cash /\ stock' = stock /\ orders' = orders /\ ledger' = ledger /\ plan' = plan
        /\ request' = request /\ tick' = tick /\ seen' = seen /\ draft' = draft
    BY <1>4 DEF vars
  <2>2. TickCash' = TickCash /\ TickStock' = TickStock /\ TickOrders' = TickOrders
        /\ Flat(stock)' = Flat(stock)
    BY <2>1 DEF TickCash, TickStock, TickOrders, Flat
  <2>3. Typed'
    BY <2>1, <2>2 DEF ReadCommittedInv, Typed, TypeOK
  <2>4. Balanced'
    BY <2>1, <2>2 DEF ReadCommittedInv, Balanced, Conserved, Cash, Goods
  <2>5. OrdersKeep' /\ OrdersSeen'
    BY <2>1 DEF ReadCommittedInv, OrdersKeep, OrdersSeen
  <2>6. Seen!MatchHolds(Head(plan))' <=> Seen!MatchHolds(Head(plan))
    BY <2>1 DEF Seen!MatchHolds
  <2>7. BalancesSeen'
    BY <2>1, <2>2, <2>6 DEF ReadCommittedInv, BalancesSeen
  <2>8. Locks'
    BY <2>1 DEF ReadCommittedInv, Locks, HolderWritten, Buyer, Seller, Item
  <2> QED
    BY <2>3, <2>4, <2>5, <2>7, <2>8 DEF ReadCommittedInv
<1> QED
  BY <1>1, <1>2, <1>3, <1>4 DEF Next

\* The rows, the requests and the tick keep to the inductive invariant however
\* the statements of placeMarketOrderWithTx, cancelMarketOrderWithTx and
\* settleMatch interleave.
THEOREM ReadCommittedIsSound == Spec => []ReadCommittedInv
<1>1. Init => ReadCommittedInv
  BY InitHolds
<1>2. ReadCommittedInv /\ [Next]_vars => ReadCommittedInv'
  BY NextKeepsInv
<1> QED
  BY <1>1, <1>2, PTL DEF Spec

\* Every row has its type at every step: no balance, quantity or reserve that a
\* request or a tick writes from what it has read before is ever negative.
THEOREM RacingRowsAreTyped == Spec => []TypeOK
<1>1. ReadCommittedInv => TypeOK
  BY DEF ReadCommittedInv, Typed
<1> QED
  BY <1>1, ReadCommittedIsSound, PTL

\* Requests beside a tick neither make nor destroy cash or goods: a request
\* updates the reserve column alone, and the tick's balances are its own.
THEOREM RacingConserves == Spec => []CashAndGoodsConserved
<1>1. ReadCommittedInv => CashAndGoodsConserved
  BY ConservedIsProperty DEF ReadCommittedInv, Balanced
<1> QED
  BY <1>1, ReadCommittedIsSound, PTL

\* A cancellation that holds the row of a company or of its stock finds the row of
\* the order free: settleMatch writes the holder of a reserve before the order.
THEOREM CancellationsNeverDeadlock == Spec => []NoDeadlock
<1>1. ASSUME ReadCommittedInv, NEW r \in Requests, request[r].pc = "close"
      PROVE  OrderRowFree(request[r].id)
  <2>1. /\ ~HolderWritten(request[r].order)
        /\ SameOrder(request[r].order, orders[request[r].id])
    BY <1>1 DEF ReadCommittedInv, Locks, OrdersKeep
  <2>2. ~HolderWritten(orders[request[r].id])
    BY <2>1 DEF HolderWritten, SameOrder
  <2> QED
    BY <1>1, <2>2 DEF ReadCommittedInv, Locks, OrderRowFree
<1>2. ReadCommittedInv => NoDeadlock
  BY <1>1 DEF NoDeadlock
<1> QED
  BY <1>2, ReadCommittedIsSound, PTL
=============================================================================
