-------------------------- MODULE EconomyRowsProofs --------------------------
(***************************************************************************)
(* What the operations of the economy do to its rows, for any companies,   *)
(* items, recipes, nodes and amounts: which tables each writes, that the   *)
(* tables keep their types, by how much balances, reserves and stocks      *)
(* change, and with them what orders and jobs hold, the account of goods,  *)
(* the status of research, the volume of candles and what stores contain.  *)
(* EconomyProofs argues with these facts alone.                            *)
(***************************************************************************)
EXTENDS Economy, DataLemmas

\* What is proved of the exchange, for the orders of bots as well: they have any
\* price and any quantity.
Trading == INSTANCE ExchangeProofs WITH Prices <- Nat \ {0}, Quantities <- Nat \ {0}

\* What it asks of the constants.
LEMMA TradingAssumption ==
    /\ Trading!IsFiniteSet(Companies) /\ Trading!IsFiniteSet(Items)
    /\ Nat \ {0} \subseteq Nat \ {0}
    /\ StartCash \in Nat /\ StartStock \in Nat /\ Capacity \in Nat /\ MaxOrders \in Nat
BY AmountsAssumption DEF Trading!IsFiniteSet, IsFiniteSet

-----------------------------------------------------------------------------
(* The types of the rows.                                                  *)

Positive == Nat \ {0}

CashRows == [Companies -> [cash : Nat, reserved : Nat]]
StockRows == [Companies -> [Items -> [quantity : Nat, reserved : Nat]]]
LedgerRows == [Companies -> [cash : Int, reserved : Int]]
DepotRows == [Companies -> [Items -> Nat]]

BookRow == Trading!OrderRow
TradeRow == [item : Items, price : Positive, quantity : Positive, tick : Nat]
HireRow == [company : Companies, delta : Positive, applied : Nat, arrives : Nat]
LabRow == [company : Companies, node : Nodes, status : {"RUNNING", "CANCELLED", "COMPLETED"},
           completes : Nat]
JobRow == [company : Companies, recipe : Recipes, runs : Positive,
           status : {"IN_PROGRESS", "CANCELLED", "COMPLETED"}, due : Nat]
ShipmentRow == [company : Companies, item : Items, quantity : Positive,
                status : {"IN_TRANSIT", "CANCELLED", "DELIVERED"}, created : Nat, arrives : Nat]
ContractRow == [buyer : Npcs, seller : Players \cup {NoCompany}, item : Items,
                remaining : Nat, price : Positive,
                status : Live \cup {"FULFILLED", "EXPIRED"}, expires : Nat]
ResearchRows == [Companies -> [Nodes -> {"NONE", "AVAILABLE", "LOCKED", "RESEARCHING", "COMPLETED"}]]
KnownRows == [Companies -> [Recipes -> {"none", "locked", "unlocked"}]]

CandleRow == [item : Items, tick : Nat, open : Positive, close : Positive, high : Positive,
              low : Positive, volume : Positive, count : Positive, vwap : Nat]
CandleSets == {S \in SUBSET CandleRow : IsFiniteSet(S)}

\* All rows, with a type for each table.
AllRows == [cash : CashRows, stock : StockRows, orders : Seq(BookRow), ledger : LedgerRows,
            depot : DepotRows, consumed : [Items -> Nat], trades : Seq(TradeRow),
            buildings : Seq(BuildingRow), staff : [Companies -> StaffRow], hires : Seq(HireRow),
            research : ResearchRows, labs : Seq(LabRow), known : KnownRows, jobs : Seq(JobRow),
            shipments : Seq(ShipmentRow), contracts : Seq(ContractRow), candles : CandleSets]

Typed ==
    /\ cash \in CashRows /\ stock \in StockRows /\ orders \in Seq(BookRow)
    /\ ledger \in LedgerRows /\ depot \in DepotRows /\ consumed \in [Items -> Nat]
    /\ trades \in Seq(TradeRow) /\ buildings \in Seq(BuildingRow)
    /\ staff \in [Companies -> StaffRow] /\ hires \in Seq(HireRow)
    /\ research \in ResearchRows /\ labs \in Seq(LabRow) /\ known \in KnownRows
    /\ jobs \in Seq(JobRow) /\ shipments \in Seq(ShipmentRow)
    /\ contracts \in Seq(ContractRow) /\ candles \in CandleSets

\* The record of all rows is typed when each table is.
LEMMA RowsTyped == Rows \in AllRows <=> Typed
BY DEF Rows, AllRows, Typed

\* The same, after a step.
LEMMA RowsTypedNext == (Rows \in AllRows)' <=> Typed'
BY DEF Rows, AllRows, Typed

\* Rows are the rows they are when all tables are.
LEMMA RowsSame ==
    ASSUME NEW r \in AllRows,
           cash' = r.cash, stock' = r.stock, orders' = r.orders, ledger' = r.ledger,
           depot' = r.depot, consumed' = r.consumed, trades' = r.trades,
           buildings' = r.buildings, staff' = r.staff, hires' = r.hires,
           research' = r.research, labs' = r.labs, known' = r.known, jobs' = r.jobs,
           shipments' = r.shipments, contracts' = r.contracts, candles' = r.candles
    PROVE  Rows' = r
BY DEF Rows, AllRows

\* The rows as a whole stay when every table does.
LEMMA RowsAreKept ==
    ASSUME UNCHANGED allRows
    PROVE  Rows' = Rows
BY DEF Rows, allRows, people, science

\* The rows a tick saves are never the mark of no tick.
LEMMA RowsAreNotNoTick == Rows # NoTick
<1>1. "jobs" \in DOMAIN Rows BY DEF Rows
<1>2. "jobs" \notin DOMAIN NoTick BY DEF NoTick
<1> QED BY <1>1, <1>2

-----------------------------------------------------------------------------
(* What the writes of single rows do.                                      *)

\* The balance of c changes by k and its reserve by r, and the ledger says so.
Booked(c, k, r) ==
    /\ cash' \in CashRows /\ ledger' \in LedgerRows
    /\ \A d \in Companies :
          /\ cash'[d].cash = cash[d].cash + (IF d = c THEN k ELSE 0)
          /\ cash'[d].reserved = cash[d].reserved + (IF d = c THEN r ELSE 0)
          /\ ledger'[d].cash = ledger[d].cash + (IF d = c THEN k ELSE 0)
          /\ ledger'[d].reserved = ledger[d].reserved + (IF d = c THEN r ELSE 0)

\* The stock of c of item i changes by q, what is reserved of it by r.
Stocked(c, i, q, r) ==
    /\ stock' \in StockRows
    /\ \A d \in Companies, j \in Items :
          /\ stock'[d][j].quantity = stock[d][j].quantity + (IF d = c /\ j = i THEN q ELSE 0)
          /\ stock'[d][j].reserved = stock[d][j].reserved + (IF d = c /\ j = i THEN r ELSE 0)

\* The balances and stocks are numbers.
LEMMA Balances ==
    ASSUME cash \in CashRows, ledger \in LedgerRows, stock \in StockRows
    PROVE  /\ \A c \in Companies : /\ cash[c].cash \in Nat /\ cash[c].reserved \in Nat
                                   /\ ledger[c].cash \in Int /\ ledger[c].reserved \in Int
           /\ \A c \in Companies, i \in Items :
                 stock[c][i].quantity \in Nat /\ stock[c][i].reserved \in Nat
<1>1. \A c \in Companies : /\ cash[c] \in [cash : Nat, reserved : Nat]
                           /\ ledger[c] \in [cash : Int, reserved : Int]
  BY DEF CashRows, LedgerRows
<1>2. \A c \in Companies, i \in Items : stock[c][i] \in [quantity : Nat, reserved : Nat]
  BY DEF StockRows
<1> QED
  BY <1>1, <1>2

\* So they are when the rows have their types.
LEMMA TypedBalances ==
    ASSUME Typed
    PROVE  /\ \A c \in Companies : /\ cash[c].cash \in Nat /\ cash[c].reserved \in Nat
                                   /\ ledger[c].cash \in Int /\ ledger[c].reserved \in Int
           /\ \A c \in Companies, i \in Items :
                 stock[c][i].quantity \in Nat /\ stock[c][i].reserved \in Nat
<1>1. cash \in CashRows /\ ledger \in LedgerRows /\ stock \in StockRows
  BY DEF Typed
<1> QED
  BY ONLY <1>1, Balances

\* Pay and IssueRefund: a balance changes.
LEMMA BalanceBooked ==
    ASSUME cash \in CashRows, ledger \in LedgerRows, stock \in StockRows,
           NEW c \in Companies, NEW k \in Int, cash[c].cash + k \in Nat,
           cash' = [cash EXCEPT ![c].cash = cash[c].cash + k],
           ledger' = [ledger EXCEPT ![c].cash = ledger[c].cash + k]
    PROVE  Booked(c, k, 0)
<1>1. ledger[c].cash + k \in Int
  BY Balances
<1>2. /\ cash' \in CashRows
      /\ \A d \in Companies :
            /\ cash'[d].reserved = cash[d].reserved
            /\ cash'[d].cash = IF d = c THEN cash[c].cash + k ELSE cash[d].cash
  BY Trading!CashWritten DEF CashRows
<1>3. /\ ledger' \in LedgerRows
      /\ \A d \in Companies :
            /\ ledger'[d].reserved = ledger[d].reserved
            /\ ledger'[d].cash = IF d = c THEN ledger[c].cash + k ELSE ledger[d].cash
  BY <1>1, Trading!CashWritten DEF LedgerRows
<1> QED
  BY <1>2, <1>3, Balances DEF Booked

\* An expense that is covered.
LEMMA PayBooked ==
    ASSUME cash \in CashRows, ledger \in LedgerRows, stock \in StockRows,
           NEW c \in Companies, NEW n \in Nat, n <= cash[c].cash, Pay(c, n)
    PROVE  Booked(c, -n, 0)
<1>1. /\ cash[c].cash + (-n) \in Nat /\ cash[c].cash + (-n) = cash[c].cash - n
      /\ ledger[c].cash + (-n) = ledger[c].cash - n
  BY Balances
<1>2. /\ cash' = [cash EXCEPT ![c].cash = cash[c].cash - n]
      /\ ledger' = [ledger EXCEPT ![c].cash = ledger[c].cash - n]
  BY DEF Pay
<1>3. -n \in Int
  OBVIOUS
<1> QED
  BY <1>1, <1>2, <1>3, BalanceBooked

\* A reserve changes.
LEMMA ReserveBooked ==
    ASSUME cash \in CashRows, ledger \in LedgerRows, stock \in StockRows,
           NEW c \in Companies, NEW k \in Int, cash[c].reserved + k \in Nat,
           cash' = [cash EXCEPT ![c].reserved = cash[c].reserved + k],
           ledger' = [ledger EXCEPT ![c].reserved = ledger[c].reserved + k]
    PROVE  Booked(c, 0, k)
<1>1. ledger[c].reserved + k \in Int
  BY Balances
<1>2. /\ cash' \in CashRows
      /\ \A d \in Companies :
            /\ cash'[d].cash = cash[d].cash
            /\ cash'[d].reserved = IF d = c THEN cash[c].reserved + k ELSE cash[d].reserved
  BY Trading!ReserveWritten DEF CashRows
<1>3. /\ ledger' \in LedgerRows
      /\ \A d \in Companies :
            /\ ledger'[d].cash = ledger[d].cash
            /\ ledger'[d].reserved = IF d = c THEN ledger[c].reserved + k ELSE ledger[d].reserved
  BY <1>1, Trading!ReserveWritten DEF LedgerRows
<1> QED
  BY <1>2, <1>3, Balances DEF Booked

\* The quantity of a row of the stock changes.
LEMMA QuantityStocked ==
    ASSUME cash \in CashRows, ledger \in LedgerRows, stock \in StockRows,
           NEW c \in Companies, NEW i \in Items, NEW q \in Int, stock[c][i].quantity + q \in Nat,
           stock' = [stock EXCEPT ![c][i].quantity = stock[c][i].quantity + q]
    PROVE  Stocked(c, i, q, 0)
<1> DEFINE row == [quantity |-> stock[c][i].quantity + q, reserved |-> stock[c][i].reserved]
<1>1. stock[c][i] \in [quantity : Nat, reserved : Nat]
  BY DEF StockRows
<1>2. [stock[c][i] EXCEPT !.quantity = stock[c][i].quantity + q] = row
  BY <1>1
<1>3. stock' = [stock EXCEPT ![c][i] = row]
  BY <1>2
<1>4. row \in [quantity : Nat, reserved : Nat]
  BY <1>1
<1>5. /\ stock' \in StockRows
      /\ \A d \in Companies, j \in Items :
            stock'[d][j] = IF d = c /\ j = i THEN row ELSE stock[d][j]
  BY <1>3, <1>4, Trading!StockWritten DEF StockRows
<1> QED
  BY <1>5, Balances DEF Stocked

\* What is reserved of a row of the stock changes.
LEMMA ReservedStocked ==
    ASSUME cash \in CashRows, ledger \in LedgerRows, stock \in StockRows,
           NEW c \in Companies, NEW i \in Items, NEW r \in Int, stock[c][i].reserved + r \in Nat,
           stock' = [stock EXCEPT ![c][i].reserved = stock[c][i].reserved + r]
    PROVE  Stocked(c, i, 0, r)
<1>1. /\ stock' \in StockRows
      /\ \A d \in Companies, j \in Items :
            /\ stock'[d][j].quantity = stock[d][j].quantity
            /\ stock'[d][j].reserved = IF d = c /\ j = i THEN stock[c][i].reserved + r
                                       ELSE stock[d][j].reserved
  BY Trading!StockReserveWritten DEF StockRows
<1> QED
  BY <1>1, Balances DEF Stocked

-----------------------------------------------------------------------------
(* What the operations on orders do.                                       *)

\* placeMarketOrderWithTx for a buy order.
LEMMA AddBuyOrderDoes ==
    ASSUME Typed, NEW c \in Companies, NEW i \in Items, NEW n \in Positive, NEW p \in Positive,
           AddBuyOrder(c, i, n, p)
    PROVE  LET row == Order(c, i, "BUY", n, p, n * p, 0) IN
           /\ n * p \in Nat /\ n * p <= cash[c].cash - cash[c].reserved
           /\ row \in BookRow /\ orders' = Append(orders, row) /\ orders' \in Seq(BookRow)
           /\ Booked(c, 0, n * p) /\ stock' = stock
<1> DEFINE row == Order(c, i, "BUY", n, p, n * p, 0)
<1>1. n \in Nat /\ p \in Nat /\ n * p \in Nat
  BY TradingAssumption, Trading!Products DEF Positive
<1>2. n * p <= cash[c].cash - cash[c].reserved
  BY DEF AddBuyOrder, CanReserve, AvailableCash
<1>3. row \in BookRow
  BY <1>1 DEF Order, BookRow, Trading!OrderRow, Positive
<1>4. orders' = Append(orders, row) /\ stock' = stock
  BY DEF AddBuyOrder
<1>5. orders' \in Seq(BookRow)
  <2> HIDE DEF row
  <2> QED
    BY <1>3, <1>4 DEF Typed
<1>6. /\ cash' = [cash EXCEPT ![c].reserved = cash[c].reserved + n * p]
      /\ ledger' = [ledger EXCEPT ![c].reserved = ledger[c].reserved + n * p]
  BY DEF AddBuyOrder, LedgerReserve
<1>7. Booked(c, 0, n * p)
  <2> DEFINE k == n * p
  <2>1. k \in Nat /\ cash' = [cash EXCEPT ![c].reserved = cash[c].reserved + k]
        /\ ledger' = [ledger EXCEPT ![c].reserved = ledger[c].reserved + k]
    BY <1>1, <1>6
  <2> HIDE DEF k
  <2>2. cash[c].reserved + k \in Nat /\ k \in Int
    BY <2>1, TypedBalances
  <2>3. Booked(c, 0, k)
    BY <2>1, <2>2, ReserveBooked DEF Typed
  <2> QED
    BY <2>3 DEF k
<1> QED
  BY <1>1, <1>2, <1>3, <1>4, <1>5, <1>7

\* placeMarketOrderWithTx for a sell order.
LEMMA AddSellOrderDoes ==
    ASSUME Typed, NEW c \in Companies, NEW i \in Items, NEW n \in Positive, NEW p \in Positive,
           AddSellOrder(c, i, n, p)
    PROVE  LET row == Order(c, i, "SELL", n, p, 0, n) IN
           /\ n <= stock[c][i].quantity - stock[c][i].reserved
           /\ row \in BookRow /\ orders' = Append(orders, row) /\ orders' \in Seq(BookRow)
           /\ Stocked(c, i, 0, n) /\ cash' = cash /\ ledger' = ledger
<1> DEFINE row == Order(c, i, "SELL", n, p, 0, n)
<1>1. n \in Nat
  BY DEF Positive
<1>2. n <= stock[c][i].quantity - stock[c][i].reserved
  BY DEF AddSellOrder, AvailableStock
<1>3. row \in BookRow
  BY <1>1 DEF Order, BookRow, Trading!OrderRow, Positive
<1>4. orders' = Append(orders, row) /\ cash' = cash /\ ledger' = ledger
  BY DEF AddSellOrder
<1>5. orders' \in Seq(BookRow)
  <2> HIDE DEF row
  <2> QED
    BY <1>3, <1>4 DEF Typed
<1>6. stock' = [stock EXCEPT ![c][i].reserved = stock[c][i].reserved + n]
  BY DEF AddSellOrder
<1>7. Stocked(c, i, 0, n)
  <2>1. cash \in CashRows /\ ledger \in LedgerRows /\ stock \in StockRows
    BY DEF Typed
  <2>2. stock[c][i].reserved \in Nat
    BY <2>1, Balances
  <2>3. stock[c][i].reserved + n \in Nat /\ n \in Int
    BY <2>2 DEF Positive
  <2> QED
    BY <1>6, <2>1, <2>3, ReservedStocked
<1> QED
  BY <1>2, <1>3, <1>4, <1>5, <1>7

\* The fields of an order.
LEMMA BookFields ==
    ASSUME NEW row \in BookRow
    PROVE  /\ row.company \in Companies /\ row.item \in Items /\ row.side \in {"BUY", "SELL"}
           /\ row.quantity \in Positive /\ row.remaining \in Nat /\ row.price \in Positive
           /\ row.reservedCash \in Nat /\ row.reservedQuantity \in Nat
           /\ row.status \in {"OPEN", "FILLED", "CANCELLED"}
BY DEF BookRow, Trading!OrderRow, Positive

\* cancelMarketOrderWithTx.
LEMMA WithdrawOrderDoes ==
    ASSUME Typed, NEW o \in DOMAIN orders, WithdrawOrder(o)
    PROVE  LET order == orders[o]
               row == ClosedWithoutReserve(order) IN
           /\ order \in BookRow /\ order.status = "OPEN"
           /\ row \in BookRow /\ orders' = [orders EXCEPT ![o] = row] /\ orders' \in Seq(BookRow)
           /\ Booked(order.company, 0, -order.reservedCash)
           /\ Stocked(order.company, order.item, 0, -order.reservedQuantity)
<1> DEFINE order == orders[o]
           row == ClosedWithoutReserve(order)
           c == order.company
           i == order.item
<1>1. order \in BookRow
  BY RowsOfTable DEF Typed
<1>2. /\ c \in Companies /\ i \in Items /\ order.reservedCash \in Nat
      /\ order.reservedQuantity \in Nat
  BY <1>1, BookFields
<1>3. row \in BookRow
  BY <1>1, TradingAssumption, Trading!ClosedRow
     DEF BookRow, ClosedWithoutReserve, Trading!ClosedWithoutReserve
<1>4. /\ order.status = "OPEN" /\ orders' = [orders EXCEPT ![o] = row]
      /\ cash[c].reserved >= order.reservedCash
      /\ stock[c][i].reserved >= order.reservedQuantity
      /\ cash' = [cash EXCEPT ![c].reserved = cash[c].reserved - order.reservedCash]
      /\ ledger' = [ledger EXCEPT ![c].reserved = ledger[c].reserved + (-order.reservedCash)]
      /\ stock' = [stock EXCEPT ![c][i].reserved = stock[c][i].reserved - order.reservedQuantity]
  BY DEF WithdrawOrder, LedgerReserve
<1>5. orders' \in Seq(BookRow)
  <2> HIDE DEF row
  <2> QED
    BY <1>3, <1>4, RowReplaced DEF Typed
<1> HIDE DEF order, row, c, i
<1>6. Booked(c, 0, -order.reservedCash)
  <2>1. /\ cash[c].reserved + (-order.reservedCash) \in Nat /\ -order.reservedCash \in Int
        /\ cash[c].reserved - order.reservedCash = cash[c].reserved + (-order.reservedCash)
    BY <1>2, <1>4, TypedBalances
  <2> QED
    BY <1>2, <1>4, <2>1, ReserveBooked DEF Typed
<1>7. Stocked(c, i, 0, -order.reservedQuantity)
  <2>1. /\ stock[c][i].reserved + (-order.reservedQuantity) \in Nat
        /\ -order.reservedQuantity \in Int
        /\ stock[c][i].reserved - order.reservedQuantity
              = stock[c][i].reserved + (-order.reservedQuantity)
    BY <1>2, <1>4, TypedBalances
  <2> QED
    BY <1>2, <1>4, <2>1, ReservedStocked DEF Typed
<1> QED
  BY <1>1, <1>3, <1>4, <1>5, <1>6, <1>7 DEF order, row, c, i

\* What a settled match writes: buyer and seller, the item and the amounts.
Settlement(m, b, s, i, n, N, R) ==
    LET buy == orders[m.buy]
        sell == orders[m.sell]
    IN
    /\ m.buy \in DOMAIN orders /\ m.sell \in DOMAIN orders /\ m.buy # m.sell
    /\ buy \in BookRow /\ sell \in BookRow
    /\ b \in Companies /\ s \in Companies /\ i \in Items /\ n \in Positive /\ N \in Nat /\ R \in Nat
    /\ b = buy.company /\ s = sell.company /\ i = buy.item /\ n = m.quantity
    /\ N = n * m.price /\ R = n * buy.price
    /\ buy.status = "OPEN" /\ sell.status = "OPEN"
    /\ buy.side = "BUY" /\ sell.side = "SELL" /\ sell.item = i
    /\ buy.remaining >= n /\ sell.remaining >= n
    /\ buy.reservedCash >= R /\ sell.reservedQuantity >= n
    /\ stock[s][i].quantity >= n /\ stock[s][i].reserved >= n
    /\ cash[b].reserved >= R /\ cash[b].cash >= N
    /\ cash[b].reserved - R <= cash[b].cash - N
    /\ cash' \in CashRows /\ Trading!PaymentMoved(cash', cash, b, s, N, R)
    /\ ledger' \in LedgerRows /\ Trading!PaymentMoved(ledger', ledger, b, s, N, R)
    /\ stock' \in StockRows /\ Trading!GoodsMoved(stock', stock, b, s, i, n)
    /\ orders' \in Seq(BookRow) /\ Trading!OrdersFilled(orders', orders, m.buy, m.sell, n, R)

\* settleMatch.
LEMMA SettleRowsDoes ==
    ASSUME Typed, NEW m \in Trading!Match, m.buy \in DOMAIN orders, m.sell \in DOMAIN orders,
           StillOpen(m), MatchHolds(m), SettleRows(m)
    PROVE  Settlement(m, orders[m.buy].company, orders[m.sell].company, orders[m.buy].item,
                      m.quantity, Notional(m), Reduction(m))
<1> DEFINE buy == orders[m.buy]
           sell == orders[m.sell]
           b == buy.company
           s == sell.company
           i == buy.item
           n == m.quantity
           N == Notional(m)
           R == Reduction(m)
<1>1. buy \in BookRow /\ sell \in BookRow
  BY RowsOfTable DEF Typed
<1>2. /\ b \in Companies /\ s \in Companies /\ i \in Items
      /\ buy.remaining \in Nat /\ sell.remaining \in Nat
      /\ buy.price \in Positive /\ buy.reservedCash \in Nat /\ sell.reservedQuantity \in Nat
  BY <1>1, BookFields
<1>3. /\ buy.side = "BUY" /\ sell.side = "SELL" /\ sell.item = i
      /\ buy.remaining >= n /\ sell.remaining >= n
      /\ buy.reservedCash >= R /\ sell.reservedQuantity >= n
      /\ stock[s][i].quantity >= n /\ stock[s][i].reserved >= n
      /\ cash[b].reserved >= R /\ cash[b].cash >= N
      /\ cash[b].reserved - R <= cash[b].cash - N
  BY DEF MatchHolds, Notional, Reduction
<1>4. buy.status = "OPEN" /\ sell.status = "OPEN"
  BY DEF StillOpen
<1>5. /\ n \in Positive /\ m.price \in Positive /\ N = n * m.price /\ R = n * buy.price
      /\ N \in Nat /\ R \in Nat
  BY <1>2, TradingAssumption, Trading!Products DEF Notional, Reduction, Trading!Match, Positive
<1>6. m.buy # m.sell
  BY <1>3
<1>7. /\ cash' = Trading!Paid(cash, b, s, N, R)
      /\ stock' = Trading!Delivered(stock, b, s, i, n)
      /\ ledger' = Trading!Paid(ledger, b, s, N, R)
  BY DEF SettleRows, CreditedRow, Trading!Paid, Trading!Delivered, SoldStock, Trading!SoldStock
<1>8. orders' = Trading!BothFilled(orders, m.buy, m.sell, n, R)
  BY DEF SettleRows, Trading!BothFilled, Filled, Trading!Filled, IsFilled, Trading!IsFilled
<1> HIDE DEF buy, sell, b, s, i, n, N, R
<1>9. /\ \A c \in Companies : cash[c].cash \in Nat /\ cash[c].reserved \in Nat
      /\ \A c \in Companies : ledger[c].cash \in Int /\ ledger[c].reserved \in Int
  BY TypedBalances
<1>10. cash' \in CashRows /\ Trading!PaymentMoved(cash', cash, b, s, N, R)
  <2>1. cash[b].cash - N \in Nat /\ cash[b].reserved - R \in Nat
    BY <1>2, <1>3, <1>5, <1>9
  <2>2. \A v \in Nat : v \in Int /\ v + N \in Nat
    BY <1>5
  <2>3. cash \in [Companies -> [cash : Nat, reserved : Nat]]
    BY DEF Typed, CashRows
  <2> QED
    BY <1>2, <1>5, <1>7, <2>1, <2>2, <2>3, TradingAssumption, Trading!PaidMovesCash DEF CashRows
<1>11. ledger' \in LedgerRows /\ Trading!PaymentMoved(ledger', ledger, b, s, N, R)
  <2>1. ledger[b].cash - N \in Int /\ ledger[b].reserved - R \in Int
    BY <1>2, <1>5, <1>9
  <2>2. \A v \in Int : v \in Int /\ v + N \in Int
    BY <1>5
  <2>3. ledger \in [Companies -> [cash : Int, reserved : Int]]
    BY DEF Typed, LedgerRows
  <2> QED
    BY <1>2, <1>5, <1>7, <2>1, <2>2, <2>3, TradingAssumption, Trading!PaidMovesCash DEF LedgerRows
<1>12. stock' \in StockRows /\ Trading!GoodsMoved(stock', stock, b, s, i, n)
  <2>1. stock \in [Companies -> [Items -> [quantity : Nat, reserved : Nat]]] /\ n \in Nat
    BY <1>5 DEF Typed, StockRows, Positive
  <2> QED
    BY <1>2, <1>3, <1>7, <2>1, TradingAssumption, Trading!DeliveredMovesGoods DEF StockRows
<1>13. orders' \in Seq(BookRow) /\ Trading!OrdersFilled(orders', orders, m.buy, m.sell, n, R)
  <2>1. orders \in Trading!Books /\ n \in Nat
    BY <1>5 DEF Typed, Trading!Books, BookRow, Positive
  <2>2. Trading!OrdersFilled(orders', orders, m.buy, m.sell, n, R)
    BY <1>3, <1>5, <1>6, <1>8, <2>1, TradingAssumption, Trading!BothOrdersFilled DEF buy, sell
  <2> QED
    BY <2>2 DEF Trading!OrdersFilled, Trading!Books, BookRow
<1>14. Settlement(m, b, s, i, n, N, R)
  BY <1>1, <1>2, <1>3, <1>4, <1>5, <1>6, <1>10, <1>11, <1>12, <1>13
     DEF Settlement, buy, sell, b, s, i, n
<1> QED
  BY <1>14 DEF buy, sell, b, s, i, n, N, R

-----------------------------------------------------------------------------
(* What the operations on buildings and on the workforce do.               *)

\* What the prover has to be told of products and quotients.
LEMMA Quotients ==
    /\ \A a, b \in Int : a * b \in Int
    /\ \A a, b \in Positive : a * b \in Positive
    /\ \A a \in Int, b \in Positive : a \div b \in Int
    /\ \A a \in Nat, b \in Positive : a \div b \in Nat /\ a % b \in 0 .. b - 1
<1>1. \A a, b \in Int : a * b \in Int
  OBVIOUS
<1>2. ASSUME NEW a \in Positive, NEW b \in Positive PROVE a * b \in Positive
  <2>1. a >= 1 /\ b >= 1
    BY DEF Positive
  <2>2. a * b >= 1
    BY <2>1 DEF Positive
  <2> QED
    BY <2>2 DEF Positive
<1>3. \A a \in Int, b \in Positive : a \div b \in Int
  BY DEF Positive
<1>4. \A a \in Nat, b \in Positive : a \div b \in Nat /\ a % b \in 0 .. b - 1
  BY DEF Positive
<1> QED
  BY <1>1, <1>2, <1>3, <1>4

\* A clamped integer lies between the bounds.
LEMMA Clamped ==
    ASSUME NEW n \in Int, NEW low \in Int, NEW high \in Int
    PROVE  /\ Clamp(n, low, high) \in Int
           /\ low <= high => Clamp(n, low, high) \in low .. high
BY DEF Clamp

\* The configuration of the workforce, and the rows it works on.
LEMMA Settings ==
    ASSUME Typed
    PROVE  /\ MaxBps \in Positive /\ MaxPercent \in Positive
           /\ Config.productionBonus \in Nat /\ Config.researchBonus \in Nat
           /\ Config.logisticsBonus \in Nat /\ Config.layoffPenalty \in Nat
           /\ Config.recruitmentCost \in Nat /\ Config.hiringDelay \in Positive
           /\ Config.shockTicks \in Positive /\ Config.shockPerCapacity \in Nat
           /\ Config.salary \in Nat /\ Config.lowCorporate \in Nat
           /\ Config.lowCorporatePenalty \in Nat /\ Config.shortfallPenalty \in Nat
           /\ Config.recovery \in Nat
           /\ \A c \in Companies :
                 /\ staff[c] \in StaffRow
                 /\ staff[c].capacity \in Nat /\ staff[c].efficiency \in 0 .. MaxBps
                 /\ staff[c].allocation \in Allocation
                 /\ staff[c].allocation.operations \in Nat /\ staff[c].allocation.research \in Nat
                 /\ staff[c].allocation.logistics \in Nat /\ staff[c].allocation.corporate \in Nat
<1>1. \A c \in Companies : staff[c] \in StaffRow
  BY DEF Typed
<1>2. \A row \in StaffRow : /\ row.capacity \in Nat /\ row.efficiency \in 0 .. MaxBps
                            /\ row.allocation \in Allocation
  BY DEF StaffRow
<1>3. \A a \in Allocation : /\ a.operations \in Nat /\ a.research \in Nat
                            /\ a.logistics \in Nat /\ a.corporate \in Nat
  BY DEF Allocation
<1> QED
  BY <1>1, <1>2, <1>3, WorkforceAssumption DEF Positive

\* The bonus of a company is an integer, and what takes time still does when it
\* is shortened.
LEMMA DurationsShortened ==
    ASSUME Typed, NEW c \in Companies, NEW percent \in Nat, NEW max \in Nat, NEW ticks \in Nat
    PROVE  /\ Shortened(ticks, Bonus(c, percent, max)) \in Nat
           /\ ticks > 0 => Shortened(ticks, Bonus(c, percent, max)) > 0
<1>1. MaxBps \in Positive /\ MaxPercent \in Positive /\ staff[c].efficiency \in Nat
  BY Settings DEF Positive
<1>2. MaxPercent * MaxBps \in Positive
  BY <1>1, Quotients
<1>3. percent * staff[c].efficiency * max \in Int
  BY <1>1, Quotients
<1> DEFINE x == (percent * staff[c].efficiency * max) \div (MaxPercent * MaxBps)
           bonus == Bonus(c, percent, max)
<1>4. x \in Int
  BY <1>2, <1>3, Quotients
<1>5. bonus = IF staff[c].capacity = 0 THEN 0 ELSE Clamp(x, 0, max)
  BY DEF Bonus
<1> HIDE DEF x, bonus
<1>6. bonus \in Int
  BY <1>4, <1>5, Clamped
<1> DEFINE y == (ticks * (MaxBps - bonus) + (MaxBps - 1)) \div MaxBps
<1>7. y \in Int
  <2>1. MaxBps - bonus \in Int /\ MaxBps - 1 \in Int
    BY <1>1, <1>6 DEF Positive
  <2>2. ticks * (MaxBps - bonus) \in Int
    BY <2>1, Quotients
  <2> QED
    BY <1>1, <2>1, <2>2, Quotients
<1>8. Shortened(ticks, bonus) = IF ticks = 0 THEN 0 ELSE Clamp(y, 1, ticks)
  BY DEF Shortened
<1> HIDE DEF y
<1>9. ticks > 0 => Clamp(y, 1, ticks) \in 1 .. ticks
  BY <1>7, Clamped
<1> QED
  BY <1>8, <1>9 DEF bonus

\* The same for what a company produces, researches and ships.
LEMMA DurationsAreTimes ==
    ASSUME Typed, NEW c \in Companies, NEW ticks \in Nat
    PROVE  /\ ProductionTicks(c, ticks) \in Nat /\ (ticks > 0 => ProductionTicks(c, ticks) > 0)
           /\ ResearchTicks(c, ticks) \in Nat /\ (ticks > 0 => ResearchTicks(c, ticks) > 0)
           /\ TravelTicks(c, ticks) \in Nat
BY Settings, DurationsShortened DEF ProductionTicks, ResearchTicks, TravelTicks

\* acquireBuildingWithTx.
LEMMA AcquireBuildingDoes ==
    ASSUME Typed, clock \in Nat, NEW c \in Companies, NEW type \in BuildingTypes,
           NEW region \in {"home", "away"}, AcquireBuilding(c, type, region)
    PROVE  LET row == Building(c, type, region) IN
           /\ AcquisitionCost[type] \in Nat /\ Booked(c, -AcquisitionCost[type], 0)
           /\ row \in BuildingRow /\ row.paid = clock /\ row.status = "ACTIVE"
           /\ buildings' = Append(buildings, row) /\ buildings' \in Seq(BuildingRow)
<1> DEFINE n == AcquisitionCost[type]
           row == Building(c, type, region)
<1>1. n \in Nat
  BY BuildingsAssumption
<1>2. Pay(c, n) /\ n <= cash[c].cash - cash[c].reserved /\ buildings' = Append(buildings, row)
  BY DEF AcquireBuilding, AvailableCash
<1>3. row \in BuildingRow /\ row.paid = clock /\ row.status = "ACTIVE"
  BY DEF Building, BuildingRow
<1> HIDE DEF n, row
<1>4. n <= cash[c].cash
  BY <1>1, <1>2, TypedBalances
<1>5. Booked(c, -n, 0)
  BY <1>1, <1>2, <1>4, PayBooked DEF Typed
<1>6. buildings' \in Seq(BuildingRow)
  BY <1>2, <1>3 DEF Typed
<1> QED
  BY <1>1, <1>2, <1>3, <1>5, <1>6 DEF n, row

\* The fields of a building.
LEMMA BuildingFields ==
    ASSUME NEW row \in BuildingRow
    PROVE  /\ row.company \in Companies /\ row.type \in BuildingTypes
           /\ row.region \in {"home", "away"} /\ row.status \in {"ACTIVE", "INACTIVE"}
           /\ row.paid \in Nat
BY DEF BuildingRow

\* reactivateBuildingWithTx.
LEMMA ReactivateBuildingDoes ==
    ASSUME Typed, clock \in Nat, NEW b \in DOMAIN buildings, ReactivateBuilding(b)
    PROVE  LET row == [buildings[b] EXCEPT !.status = "ACTIVE", !.paid = clock] IN
           /\ row \in BuildingRow /\ row.paid = clock
           /\ buildings' = [buildings EXCEPT ![b] = row] /\ buildings' \in Seq(BuildingRow)
<1> DEFINE row == [buildings[b] EXCEPT !.status = "ACTIVE", !.paid = clock]
<1>1. buildings[b] \in BuildingRow
  BY RowsOfTable DEF Typed
<1>2. row \in BuildingRow /\ row.paid = clock
  BY <1>1 DEF BuildingRow
<1>3. buildings' = [buildings EXCEPT ![b] = row]
  <2>1. buildings' = [buildings EXCEPT ![b].status = "ACTIVE", ![b].paid = clock]
    BY DEF ReactivateBuilding
  <2> QED
    BY <2>1 DEF Typed
<1> HIDE DEF row
<1>4. buildings' \in Seq(BuildingRow)
  BY <1>2, <1>3, RowReplaced DEF Typed
<1> QED
  BY <1>2, <1>3, <1>4 DEF row

\* One round of applyBuildingOperatingCostsWithTx: what is paid was free.
LEMMA ChargeBuildingDoes ==
    ASSUME Typed, clock \in Nat, NEW b \in DOMAIN buildings, ChargeBuilding(b)
    PROVE  LET c == buildings[b].company IN
           /\ c \in Companies
           /\ buildings' \in Seq(BuildingRow) /\ DOMAIN buildings' = DOMAIN buildings
           /\ \A k \in DOMAIN buildings \ {b} : buildings'[k] = buildings[k]
           /\ buildings'[b].paid = ThisTick
           /\ \/ cash' = cash /\ ledger' = ledger
              \/ \E n \in Nat : Booked(c, -n, 0) /\ n <= cash[c].cash - cash[c].reserved
<1> DEFINE old == buildings[b]
           c == old.company
           n == OperatingCost[old.type]
           on == [old EXCEPT !.paid = ThisTick]
           off == [old EXCEPT !.status = "INACTIVE", !.paid = ThisTick]
<1>1. old \in BuildingRow /\ ThisTick \in Nat
  BY RowsOfTable DEF Typed, ThisTick
<1>2. c \in Companies /\ old.type \in BuildingTypes
  BY <1>1, BuildingFields
<1>3. n \in Nat
  BY <1>2, BuildingsAssumption
<1>4. /\ on \in BuildingRow /\ on.paid = ThisTick
      /\ off \in BuildingRow /\ off.paid = ThisTick
  BY <1>1 DEF BuildingRow
<1>5. \/ /\ n <= cash[c].cash - cash[c].reserved /\ Pay(c, n)
         /\ buildings' = [buildings EXCEPT ![b].paid = ThisTick]
      \/ /\ cash' = cash /\ ledger' = ledger
         /\ buildings' = [buildings EXCEPT ![b].status = "INACTIVE", ![b].paid = ThisTick]
  BY DEF ChargeBuilding, CanAfford, AvailableCash
<1>6. \/ /\ n <= cash[c].cash - cash[c].reserved /\ Pay(c, n)
         /\ buildings' = [buildings EXCEPT ![b] = on]
      \/ /\ cash' = cash /\ ledger' = ledger
         /\ buildings' = [buildings EXCEPT ![b] = off]
  BY <1>5 DEF Typed
<1> HIDE DEF old, c, n, on, off
<1>7. CASE cash' = cash /\ ledger' = ledger /\ buildings' = [buildings EXCEPT ![b] = off]
  BY <1>2, <1>4, <1>7, RowReplaced DEF Typed, c, old
<1>8. CASE /\ n <= cash[c].cash - cash[c].reserved /\ Pay(c, n)
           /\ buildings' = [buildings EXCEPT ![b] = on]
  <2>1. n <= cash[c].cash
    BY <1>2, <1>3, <1>8, TypedBalances
  <2>2. Booked(c, -n, 0)
    BY <1>2, <1>3, <1>8, <2>1, PayBooked DEF Typed
  <2> QED
    BY <1>2, <1>3, <1>4, <1>8, <2>2, RowReplaced DEF Typed, c, old
<1> QED
  BY <1>6, <1>7, <1>8

\* issueRefund.
LEMMA IssueRefundDoes ==
    ASSUME Typed, NEW c \in Companies, NEW n \in Nat, IssueRefund(c, n)
    PROVE  Booked(c, n, 0)
<1>1. cash[c].cash + n \in Nat /\ n \in Int
  BY TypedBalances
<1>2. /\ cash' = [cash EXCEPT ![c].cash = cash[c].cash + n]
      /\ ledger' = [ledger EXCEPT ![c].cash = ledger[c].cash + n]
  BY DEF IssueRefund
<1> QED
  BY <1>1, <1>2, BalanceBooked DEF Typed

\* An efficiency that is clamped is within its bounds.
LEMMA EfficiencyClamped ==
    ASSUME Typed, NEW n \in Int
    PROVE  ClampEfficiency(n) \in 0 .. MaxBps
<1>1. 0 \in Int /\ MaxBps \in Int /\ 0 <= MaxBps
  BY Settings DEF Positive
<1> QED
  BY <1>1, Clamped DEF ClampEfficiency

\* The staff of one company is replaced.
LEMMA StaffReplaced ==
    ASSUME Typed, NEW c \in Companies, NEW row \in StaffRow, staff' = [staff EXCEPT ![c] = row]
    PROVE  staff' \in [Companies -> StaffRow]
BY DEF Typed

\* setCompanyWorkforceAllocation.
LEMMA SetAllocationTyped ==
    ASSUME Typed, NEW c \in Companies, NEW a \in Allocations, SetAllocation(c, a)
    PROVE  staff' \in [Companies -> StaffRow]
<1> DEFINE row == [staff[c] EXCEPT !.allocation = a]
<1>1. row \in StaffRow
  BY Settings, WorkforceAssumption DEF StaffRow
<1>2. staff' = [staff EXCEPT ![c] = row]
  BY DEF SetAllocation
<1> HIDE DEF row
<1> QED
  BY <1>1, <1>2, StaffReplaced

\* A dismissal.
LEMMA LayOffTyped ==
    ASSUME Typed, NEW c \in Companies, NEW n \in Positive, LayOff(c, n)
    PROVE  staff' \in [Companies -> StaffRow]
<1> DEFINE e == ClampEfficiency(staff[c].efficiency - Config.layoffPenalty)
           row == [staff[c] EXCEPT !.capacity = staff[c].capacity - n, !.efficiency = e]
<1>1. e \in 0 .. MaxBps
  BY Settings, EfficiencyClamped
<1>2. staff' = [staff EXCEPT ![c] = row] /\ n <= staff[c].capacity
  BY DEF LayOff, Typed
<1> HIDE DEF e
<1>3. staff[c].capacity - n \in Nat /\ staff[c] \in StaffRow
  BY <1>2, Settings DEF Positive
<1>4. row \in StaffRow
  BY <1>1, <1>3 DEF StaffRow
<1> HIDE DEF row
<1> QED
  BY <1>2, <1>4, StaffReplaced

\* Recruitment.
LEMMA HireDoes ==
    ASSUME Typed, clock \in Nat, NEW c \in Companies, NEW n \in Positive, Hire(c, n)
    PROVE  LET row == [company |-> c, delta |-> n, applied |-> 0,
                       arrives |-> clock + Config.hiringDelay] IN
           /\ \E k \in Nat : Booked(c, -k, 0)
           /\ row \in HireRow /\ row.arrives > clock
           /\ hires' = Append(hires, row) /\ hires' \in Seq(HireRow)
<1> DEFINE k == n * Config.recruitmentCost
           row == [company |-> c, delta |-> n, applied |-> 0,
                   arrives |-> clock + Config.hiringDelay]
<1>1. Config.recruitmentCost \in Nat /\ Config.hiringDelay \in Positive /\ n \in Nat
  BY Settings DEF Positive
<1>2. k \in Nat
  BY <1>1, TradingAssumption, Trading!Products
<1>3. k <= cash[c].cash - cash[c].reserved /\ Pay(c, k) /\ hires' = Append(hires, row)
  BY DEF Hire, AvailableCash
<1>4. row \in HireRow /\ row.arrives > clock
  BY <1>1 DEF HireRow, Positive
<1> HIDE DEF k, row
<1>5. k <= cash[c].cash
  BY <1>2, <1>3, TypedBalances
<1>6. Booked(c, -k, 0)
  BY <1>2, <1>3, <1>5, PayBooked DEF Typed
<1>7. hires' \in Seq(HireRow)
  BY <1>3, <1>4 DEF Typed
<1> QED
  BY <1>2, <1>3, <1>4, <1>6, <1>7 DEF row

\* One round of applyDueWorkforceCapacityDeltas.
LEMMA ArriveDoes ==
    ASSUME Typed, clock \in Nat, NEW h \in DOMAIN hires, Arrive(h)
    PROVE  /\ staff' \in [Companies -> StaffRow]
           /\ hires' \in Seq(HireRow) /\ DOMAIN hires' = DOMAIN hires
           /\ \A k \in DOMAIN hires \ {h} : hires'[k] = hires[k]
           /\ hires'[h].applied = ThisTick
<1> DEFINE old == hires[h]
           c == old.company
           new == [old EXCEPT !.applied = ThisTick]
           row == [staff[c] EXCEPT !.capacity = staff[c].capacity + old.delta]
<1>1. old \in HireRow /\ ThisTick \in Nat
  BY RowsOfTable DEF Typed, ThisTick
<1>2. c \in Companies /\ old.delta \in Nat /\ new \in HireRow /\ new.applied = ThisTick
  BY <1>1 DEF HireRow, Positive
<1>3. hires' = [hires EXCEPT ![h] = new] /\ staff' = [staff EXCEPT ![c] = row]
  BY DEF Arrive, Claimed
<1> HIDE DEF c, new
<1>4. row \in StaffRow
  BY <1>2, Settings DEF StaffRow
<1> HIDE DEF row, old
<1>5. staff' \in [Companies -> StaffRow]
  BY <1>2, <1>3, <1>4, StaffReplaced
<1> QED
  BY <1>2, <1>3, <1>5, RowReplaced DEF Typed

\* One round of the salary loop: what is paid was free.
LEMMA PaySalaryDoes ==
    ASSUME Typed, clock \in Nat, NEW c \in Companies, PaySalary(c)
    PROVE  /\ staff' \in [Companies -> StaffRow]
           /\ \E n \in Nat : /\ Booked(c, -n, 0)
                             /\ n = 0 \/ n <= cash[c].cash - cash[c].reserved
<1> DEFINE due == SalaryDue(c)
           free == Spendable(c)
           paid == Smaller(due, free)
           corporate == staff[c].allocation.corporate
           shock == RecentHires(c) * Config.shockPerCapacity
           neglect == IF corporate < Config.lowCorporate THEN Config.lowCorporatePenalty ELSE 0
           shortfall == IF paid < due THEN Config.shortfallPenalty ELSE 0
           recovery == (corporate * Config.recovery) \div MaxPercent
           e == staff[c].efficiency - shock - neglect - shortfall + recovery
           row == [staff[c] EXCEPT !.efficiency = ClampEfficiency(e)]
<1>1. due \in Nat
  <2>1. staff[c].capacity \in Nat /\ Config.salary \in Nat
    BY Settings
  <2> QED
    BY <2>1, TradingAssumption, Trading!Products DEF SalaryDue
<1>2. cash[c].cash \in Nat /\ cash[c].reserved \in Nat
  BY TypedBalances
<1>3. free \in 0 .. cash[c].cash /\ (free = 0 \/ free <= cash[c].cash - cash[c].reserved)
  BY <1>2 DEF Spendable, Clamp, AvailableCash
<1>4. RecentHires(c) \in Int
  <2> DEFINE f == [h \in DOMAIN hires |-> hires[h].delta]
             S == {h \in DOMAIN hires : /\ hires[h].company = c /\ hires[h].applied > 0
                                        /\ hires[h].applied >= ThisTick - Config.shockTicks + 1}
  <2>1. IsFiniteSet(DOMAIN hires) /\ \A h \in DOMAIN hires : hires[h] \in HireRow
    BY RowsOfTable DEF Typed
  <2>2. S \in SUBSET DOMAIN hires /\ \A h \in DOMAIN hires : f[h] \in Int
    BY <2>1 DEF HireRow, Positive
  <2>3. IsFiniteSet(S)
    BY <2>1, <2>2, FS_Subset
  <2>4. RecentHires(c) = SumFunctionOnSet(f, S)
    BY DEF RecentHires
  <2> HIDE DEF f, S
  <2> QED
    BY <2>2, <2>3, <2>4, SumInt
<1>5. shock \in Int /\ neglect \in Int /\ shortfall \in Int /\ recovery \in Int
  <2>1. /\ Config.shockPerCapacity \in Int /\ Config.lowCorporatePenalty \in Int
        /\ Config.shortfallPenalty \in Int /\ corporate \in Int /\ Config.recovery \in Int
        /\ MaxPercent \in Positive
    BY Settings
  <2>2. shock \in Int
    BY <1>4, <2>1, Quotients
  <2>3. recovery \in Int
    BY <2>1, Quotients
  <2> QED
    BY <2>1, <2>2, <2>3
<1>6. Pay(c, paid) /\ staff' = [staff EXCEPT ![c] = row]
  BY DEF PaySalary
<1>7. paid = due \/ paid = free
  BY DEF Smaller
<1>8. paid \in Nat /\ paid <= cash[c].cash /\ (paid = 0 \/ paid <= cash[c].cash - cash[c].reserved)
  BY <1>1, <1>2, <1>3 DEF Smaller
<1> HIDE DEF due, free, paid, corporate, shock, neglect, shortfall, recovery
<1>9. row \in StaffRow
  <2>1. e \in Int
    BY <1>5, Settings
  <2>2. ClampEfficiency(e) \in 0 .. MaxBps
    BY <2>1, EfficiencyClamped
  <2> HIDE DEF e
  <2> QED
    BY <2>2, Settings DEF StaffRow
<1> HIDE DEF e, row
<1>10. staff' \in [Companies -> StaffRow]
  BY <1>6, <1>9, StaffReplaced
<1>11. Booked(c, -paid, 0)
  BY <1>6, <1>8, PayBooked DEF Typed
<1> QED
  BY <1>8, <1>10, <1>11

-----------------------------------------------------------------------------
(* What the operations on research do.                                     *)

\* The fields of a row of research.
LEMMA LabFields ==
    ASSUME NEW row \in LabRow
    PROVE  /\ row.company \in Companies /\ row.node \in Nodes /\ row.completes \in Nat
           /\ row.status \in {"RUNNING", "CANCELLED", "COMPLETED"}
BY DEF LabRow

\* The status of a row of research is written.
LEMMA LabWritten ==
    ASSUME Typed, NEW j \in DOMAIN labs, NEW status \in {"RUNNING", "CANCELLED", "COMPLETED"},
           labs' = [labs EXCEPT ![j].status = status]
    PROVE  /\ labs' \in Seq(LabRow) /\ DOMAIN labs' = DOMAIN labs
           /\ \A k \in DOMAIN labs : k # j => labs'[k] = labs[k]
           /\ labs'[j] = [labs[j] EXCEPT !.status = status]
           /\ labs'[j].company = labs[j].company /\ labs'[j].node = labs[j].node
           /\ labs'[j].completes = labs[j].completes /\ labs'[j].status = status
<1> DEFINE row == [labs[j] EXCEPT !.status = status]
<1>1. labs[j] \in LabRow
  BY RowsOfTable DEF Typed
<1>2. /\ row \in LabRow /\ row.company = labs[j].company /\ row.node = labs[j].node
      /\ row.completes = labs[j].completes /\ row.status = status
  BY <1>1 DEF LabRow
<1>3. labs' = [labs EXCEPT ![j] = row]
  OBVIOUS
<1>4. labs' \in Seq(LabRow) /\ DOMAIN labs' = DOMAIN labs
      /\ \A k \in DOMAIN labs : labs'[k] = IF k = j THEN row ELSE labs[k]
  <2>1. labs \in Seq(LabRow) /\ row \in LabRow
    BY <1>2 DEF Typed
  <2> HIDE DEF row
  <2> QED
    BY <1>3, <2>1, RowReplaced
<1> QED
  BY <1>2, <1>4

\* startResearch.
LEMMA StartResearchDoes ==
    ASSUME Typed, clock \in Nat, NEW c \in Companies, NEW n \in Nodes, StartResearch(c, n)
    PROVE  LET row == [company |-> c, node |-> n, status |-> "RUNNING",
                       completes |-> clock + ResearchTicks(c, ResearchDuration[n])] IN
           /\ \E k \in Nat : Booked(c, -k, 0)
           /\ row \in LabRow /\ row.completes > clock
           /\ labs' = Append(labs, row) /\ labs' \in Seq(LabRow)
           /\ research' \in ResearchRows
           /\ \A d \in Companies, m \in Nodes :
                 research'[d][m] = IF d = c /\ m = n THEN "RESEARCHING" ELSE research[d][m]
<1> DEFINE k == ResearchCost[n]
           t == ResearchTicks(c, ResearchDuration[n])
           row == [company |-> c, node |-> n, status |-> "RUNNING", completes |-> clock + t]
<1>1. k \in Nat
  BY ResearchAssumption
<1>2. t \in Nat /\ t > 0
  <2>1. ResearchDuration[n] \in Nat /\ ResearchDuration[n] > 0
    BY ResearchAssumption
  <2> QED
    BY <2>1, DurationsAreTimes
<1>3. /\ cash[c].cash >= k /\ Pay(c, k) /\ labs' = Append(labs, row)
      /\ research' = [research EXCEPT ![c][n] = "RESEARCHING"]
  BY DEF StartResearch
<1> HIDE DEF k, t
<1>4. row \in LabRow /\ row.completes > clock
  BY <1>2 DEF LabRow
<1> HIDE DEF row
<1>5. Booked(c, -k, 0)
  BY <1>1, <1>3, PayBooked, TypedBalances DEF Typed
<1>6. labs' \in Seq(LabRow)
  BY <1>3, <1>4 DEF Typed
<1>7. /\ research' \in ResearchRows
      /\ \A d \in Companies, m \in Nodes :
            research'[d][m] = IF d = c /\ m = n THEN "RESEARCHING" ELSE research[d][m]
  BY <1>3 DEF Typed, ResearchRows
<1> QED
  BY <1>1, <1>3, <1>4, <1>5, <1>6, <1>7 DEF row, t

\* cancelResearch.
LEMMA CancelResearchDoes ==
    ASSUME Typed, NEW c \in Companies, NEW n \in Nodes, CancelResearch(c, n)
    PROVE  \E j \in Running(c, n) :
              /\ labs' = [labs EXCEPT ![j].status = "CANCELLED"] /\ labs' \in Seq(LabRow)
              /\ research' \in ResearchRows
              /\ \A d \in Companies, m \in Nodes :
                    research'[d][m] = IF d = c /\ m = n THEN Shelved(c, n) ELSE research[d][m]
<1>1. PICK j \in Running(c, n) : /\ labs' = [labs EXCEPT ![j].status = "CANCELLED"]
                                 /\ research' = [research EXCEPT ![c][n] = Shelved(c, n)]
  BY DEF CancelResearch
<1>2. j \in DOMAIN labs
  BY DEF Running
<1>3. labs' \in Seq(LabRow)
  BY <1>1, <1>2, LabWritten
<1>4. Shelved(c, n) \in {"NONE", "AVAILABLE", "LOCKED", "RESEARCHING", "COMPLETED"}
  BY DEF Shelved
<1>5. /\ research' \in ResearchRows
      /\ \A d \in Companies, m \in Nodes :
            research'[d][m] = IF d = c /\ m = n THEN Shelved(c, n) ELSE research[d][m]
  BY <1>1, <1>4 DEF Typed, ResearchRows
<1> QED
  BY <1>1, <1>3, <1>5

\* One round of completeDueResearchJobs.
LEMMA CompleteResearchDoes ==
    ASSUME Typed, NEW j \in DOMAIN labs, CompleteResearch(j)
    PROVE  LET c == labs[j].company
               n == labs[j].node IN
           /\ c \in Companies /\ n \in Nodes
           /\ labs' = [labs EXCEPT ![j].status = "COMPLETED"] /\ labs' \in Seq(LabRow)
           /\ research' \in ResearchRows
           /\ \A d \in Companies, m \in Nodes :
                 research'[d][m] = IF d = c /\ m = n THEN "COMPLETED" ELSE research[d][m]
           /\ known' \in KnownRows
           /\ \A d \in Companies, r \in Recipes :
                 known'[d][r] = IF d = c /\ r \in Unlocks[n] THEN "unlocked" ELSE known[d][r]
<1> DEFINE c == labs[j].company
           n == labs[j].node
<1>1. c \in Companies /\ n \in Nodes
  BY RowsOfTable, LabFields DEF Typed
<1>2. /\ labs' = [labs EXCEPT ![j].status = "COMPLETED"]
      /\ research' = [research EXCEPT ![c][n] = "COMPLETED"]
      /\ known' = [known EXCEPT ![c] =
                     [r \in Recipes |-> IF r \in Unlocks[n] THEN "unlocked" ELSE known[c][r]]]
  BY DEF CompleteResearch
<1> HIDE DEF c, n
<1>3. labs' \in Seq(LabRow)
  BY <1>2, LabWritten
<1>4. /\ research' \in ResearchRows
      /\ \A d \in Companies, m \in Nodes :
            research'[d][m] = IF d = c /\ m = n THEN "COMPLETED" ELSE research[d][m]
  BY <1>1, <1>2 DEF Typed, ResearchRows
<1>5. /\ known' \in KnownRows
      /\ \A d \in Companies, r \in Recipes :
            known'[d][r] = IF d = c /\ r \in Unlocks[n] THEN "unlocked" ELSE known[d][r]
  BY <1>1, <1>2 DEF Typed, KnownRows
<1> QED
  BY <1>1, <1>2, <1>3, <1>4, <1>5 DEF c, n

-----------------------------------------------------------------------------
(* What the operations on production do.                                   *)

\* The stock of c changes by q of each item, what is reserved of it by r.
Restocked(c, q, r) ==
    /\ stock' \in StockRows
    /\ \A d \in Companies, j \in Items :
          /\ stock'[d][j].quantity = stock[d][j].quantity + (IF d = c THEN q[j] ELSE 0)
          /\ stock'[d][j].reserved = stock[d][j].reserved + (IF d = c THEN r[j] ELSE 0)

\* All rows of a company's stock are written.
LEMMA StockRewritten ==
    ASSUME stock \in StockRows, NEW c \in Companies, NEW q, NEW r, NEW rows,
           \A j \in Items : q[j] \in Int /\ r[j] \in Int,
           \A j \in Items : /\ stock[c][j].quantity + q[j] \in Nat
                            /\ stock[c][j].reserved + r[j] \in Nat,
           rows \in [Items -> [quantity : Nat, reserved : Nat]],
           \A j \in Items : /\ rows[j].quantity = stock[c][j].quantity + q[j]
                            /\ rows[j].reserved = stock[c][j].reserved + r[j],
           stock' = [stock EXCEPT ![c] = rows]
    PROVE  Restocked(c, q, r)
<1>1. stock' \in StockRows /\ \A d \in Companies : stock'[d] = IF d = c THEN rows ELSE stock[d]
  BY DEF StockRows
<1>2. \A d \in Companies, j \in Items : /\ stock[d][j] \in [quantity : Nat, reserved : Nat]
                                        /\ stock[d][j].quantity \in Nat
                                        /\ stock[d][j].reserved \in Nat
  BY DEF StockRows
<1>3. ASSUME NEW d \in Companies, NEW j \in Items
      PROVE  /\ stock'[d][j].quantity = stock[d][j].quantity + (IF d = c THEN q[j] ELSE 0)
             /\ stock'[d][j].reserved = stock[d][j].reserved + (IF d = c THEN r[j] ELSE 0)
  BY <1>1, <1>2
<1> QED
  BY <1>1, <1>3 DEF Restocked

\* The fields of a job.
LEMMA JobFields ==
    ASSUME NEW row \in JobRow
    PROVE  /\ row.company \in Companies /\ row.recipe \in Recipes /\ row.runs \in Positive
           /\ row.status \in {"IN_PROGRESS", "CANCELLED", "COMPLETED"} /\ row.due \in Nat
BY DEF JobRow

\* What a job requires and makes.
LEMMA JobAmounts ==
    ASSUME NEW r \in Recipes, NEW runs \in Positive
    PROVE  /\ \A i \in Items : Required(r, runs, i) \in Nat
           /\ Output[r].item \in Items /\ Output[r].quantity * runs \in Positive
<1>1. /\ \A i \in Items : Inputs[r][i] \in Nat
      /\ Output[r].item \in Items /\ Output[r].quantity \in Positive /\ runs \in Nat
  BY ProductionAssumption DEF Positive
<1>2. \A i \in Items : Inputs[r][i] * runs \in Nat
  BY <1>1, TradingAssumption, Trading!Products
<1>3. Output[r].quantity * runs \in Positive
  BY <1>1, Quotients
<1> QED
  BY <1>1, <1>2, <1>3 DEF Required

\* The status of a job is written.
LEMMA JobWritten ==
    ASSUME Typed, NEW j \in DOMAIN jobs, NEW status \in {"IN_PROGRESS", "CANCELLED", "COMPLETED"},
           jobs' = [jobs EXCEPT ![j].status = status]
    PROVE  /\ jobs' \in Seq(JobRow) /\ DOMAIN jobs' = DOMAIN jobs
           /\ \A k \in DOMAIN jobs : k # j => jobs'[k] = jobs[k]
           /\ jobs'[j] = [jobs[j] EXCEPT !.status = status]
           /\ jobs'[j].company = jobs[j].company /\ jobs'[j].recipe = jobs[j].recipe
           /\ jobs'[j].runs = jobs[j].runs /\ jobs'[j].due = jobs[j].due
           /\ jobs'[j].status = status
<1> DEFINE row == [jobs[j] EXCEPT !.status = status]
<1>1. jobs[j] \in JobRow
  BY RowsOfTable DEF Typed
<1>2. /\ row \in JobRow /\ row.company = jobs[j].company /\ row.recipe = jobs[j].recipe
      /\ row.runs = jobs[j].runs /\ row.due = jobs[j].due /\ row.status = status
  BY <1>1 DEF JobRow
<1>3. jobs' = [jobs EXCEPT ![j] = row]
  OBVIOUS
<1>4. jobs' \in Seq(JobRow) /\ DOMAIN jobs' = DOMAIN jobs
      /\ \A k \in DOMAIN jobs : jobs'[k] = IF k = j THEN row ELSE jobs[k]
  <2>1. jobs \in Seq(JobRow) /\ row \in JobRow
    BY <1>2 DEF Typed
  <2> HIDE DEF row
  <2> QED
    BY <1>3, <2>1, RowReplaced
<1> QED
  BY <1>2, <1>4

\* createProductionJobWithTx: what is reserved was free.
LEMMA StartJobDoes ==
    ASSUME Typed, NEW c \in Companies, NEW r \in Recipes, NEW runs \in Positive, NEW tick \in Nat,
           StartJob(c, r, runs, tick)
    PROVE  LET row == [company |-> c, recipe |-> r, runs |-> runs, status |-> "IN_PROGRESS",
                       due |-> tick + ProductionTicks(c, RecipeTicks[r])]
           IN
           /\ row \in JobRow /\ row.due > tick
           /\ jobs' = Append(jobs, row) /\ jobs' \in Seq(JobRow)
           /\ Restocked(c, [i \in Items |-> 0], [i \in Items |-> Required(r, runs, i)])
           /\ \A i \in Items : Required(r, runs, i) > 0 =>
                 Required(r, runs, i) <= stock[c][i].quantity - stock[c][i].reserved
<1> DEFINE t == ProductionTicks(c, RecipeTicks[r])
           row == [company |-> c, recipe |-> r, runs |-> runs, status |-> "IN_PROGRESS",
                   due |-> tick + t]
           need == [i \in Items |-> Required(r, runs, i)]
           rows == [i \in Items |-> [stock[c][i] EXCEPT !.reserved = stock[c][i].reserved + need[i]]]
<1>1. t \in Nat /\ t > 0
  <2>1. RecipeTicks[r] \in Nat /\ RecipeTicks[r] > 0
    BY ProductionAssumption
  <2> QED
    BY <2>1, DurationsAreTimes
<1>2. /\ jobs' = Append(jobs, row) /\ stock' = [stock EXCEPT ![c] = rows]
      /\ \A i \in Items : Required(r, runs, i) > 0 =>
            Required(r, runs, i) <= stock[c][i].quantity - stock[c][i].reserved
  <2>1. stock' = [stock EXCEPT ![c] = [i \in Items |->
            [stock[c][i] EXCEPT !.reserved = stock[c][i].reserved + Required(r, runs, i)]]]
    BY DEF StartJob, Held
  <2> QED
    BY <2>1 DEF StartJob, CanProduce, AvailableStock
<1> HIDE DEF t
<1>3. row \in JobRow /\ row.due > tick
  BY <1>1 DEF JobRow
<1> HIDE DEF row
<1>4. jobs' \in Seq(JobRow)
  BY <1>2, <1>3 DEF Typed
<1>5. \A i \in Items : need[i] \in Nat
  BY JobAmounts
<1> HIDE DEF need
<1>6. Restocked(c, [i \in Items |-> 0], need)
  <2>1. \A i \in Items : /\ stock[c][i] \in [quantity : Nat, reserved : Nat]
                         /\ stock[c][i].quantity \in Nat /\ stock[c][i].reserved \in Nat
    BY DEF Typed, StockRows
  <2>2. \A i \in Items : /\ rows[i] \in [quantity : Nat, reserved : Nat]
                         /\ rows[i].quantity = stock[c][i].quantity + 0
                         /\ rows[i].reserved = stock[c][i].reserved + need[i]
    BY <1>5, <2>1
  <2> DEFINE none == [i \in Items |-> 0]
  <2>3. \A i \in Items : none[i] = 0
    OBVIOUS
  <2>4. rows \in [Items -> [quantity : Nat, reserved : Nat]]
    BY <2>2
  <2> HIDE DEF rows, none
  <2>5. \A i \in Items : /\ none[i] \in Int /\ need[i] \in Int
                         /\ stock[c][i].quantity + none[i] \in Nat
                         /\ stock[c][i].reserved + need[i] \in Nat
                         /\ rows[i].quantity = stock[c][i].quantity + none[i]
    BY <1>5, <2>1, <2>2, <2>3
  <2>6. Restocked(c, none, need)
    BY <1>2, <2>2, <2>4, <2>5, StockRewritten DEF Typed
  <2> QED
    BY <2>6 DEF none
<1> QED
  BY <1>2, <1>3, <1>4, <1>6 DEF row, t, need

\* cancelProductionJobWithTx.
LEMMA CancelJobDoes ==
    ASSUME Typed, NEW j \in DOMAIN jobs, CancelJob(j)
    PROVE  LET job == jobs[j] IN
           /\ job \in JobRow /\ job.status = "IN_PROGRESS"
           /\ jobs' = [jobs EXCEPT ![j].status = "CANCELLED"]
           /\ Restocked(job.company, [i \in Items |-> 0],
                        [i \in Items |-> -Required(job.recipe, job.runs, i)])
<1> DEFINE job == jobs[j]
           c == job.company
           need == [i \in Items |-> Required(job.recipe, job.runs, i)]
           less == [i \in Items |-> -Required(job.recipe, job.runs, i)]
           none == [i \in Items |-> 0]
           rows == [i \in Items |-> [stock[c][i] EXCEPT !.reserved = stock[c][i].reserved - need[i]]]
<1>1. job \in JobRow
  BY RowsOfTable DEF Typed
<1>2. c \in Companies /\ job.recipe \in Recipes /\ job.runs \in Positive
  BY <1>1, JobFields
<1>3. /\ job.status = "IN_PROGRESS" /\ jobs' = [jobs EXCEPT ![j].status = "CANCELLED"]
      /\ stock' = [stock EXCEPT ![c] = rows]
      /\ \A i \in Items : stock[c][i].reserved >= need[i]
  <2>1. stock' = [stock EXCEPT ![c] = [i \in Items |->
                      [stock[c][i] EXCEPT !.reserved =
                          stock[c][i].reserved - Required(job.recipe, job.runs, i)]]]
    BY DEF CancelJob, Released
  <2> QED
    BY <2>1 DEF CancelJob
<1>4. \A i \in Items : need[i] \in Nat /\ less[i] = -need[i] /\ none[i] = 0
  BY <1>2, JobAmounts
<1>5. \A i \in Items : /\ stock[c][i] \in [quantity : Nat, reserved : Nat]
                       /\ stock[c][i].quantity \in Nat /\ stock[c][i].reserved \in Nat
  BY <1>2 DEF Typed, StockRows
<1> HIDE DEF need, less, none, job, c
<1>6. \A i \in Items : /\ rows[i] \in [quantity : Nat, reserved : Nat]
                       /\ rows[i].quantity = stock[c][i].quantity
                       /\ rows[i].reserved = stock[c][i].reserved - need[i]
  BY <1>3, <1>4, <1>5
<1>7. rows \in [Items -> [quantity : Nat, reserved : Nat]]
  BY <1>6
<1> HIDE DEF rows
<1>8. \A i \in Items : /\ none[i] \in Int /\ less[i] \in Int
                       /\ stock[c][i].quantity + none[i] \in Nat
                       /\ stock[c][i].reserved + less[i] \in Nat
                       /\ rows[i].quantity = stock[c][i].quantity + none[i]
                       /\ rows[i].reserved = stock[c][i].reserved + less[i]
  BY <1>3, <1>4, <1>5, <1>6
<1>9. Restocked(c, none, less)
  BY <1>2, <1>3, <1>7, <1>8, StockRewritten DEF Typed
<1> QED
  BY <1>1, <1>3, <1>9 DEF none, less, c, job

\* One round of completeDueProductionJobs.
LEMMA CompleteJobDoes ==
    ASSUME Typed, NEW j \in DOMAIN jobs, CompleteJob(j)
    PROVE  LET job == jobs[j] IN
           /\ job \in JobRow
           /\ jobs' = [jobs EXCEPT ![j].status = "COMPLETED"]
           /\ Restocked(job.company, [i \in Items |-> MadeBy(job, i)],
                        [i \in Items |-> -Required(job.recipe, job.runs, i)])
           /\ \A i \in Items :
                 /\ Required(job.recipe, job.runs, i) <= stock[job.company][i].reserved
                 /\ Required(job.recipe, job.runs, i) <= stock[job.company][i].quantity
<1> DEFINE job == jobs[j]
           c == job.company
           out == Output[job.recipe].item
           n == Output[job.recipe].quantity * job.runs
           need == [i \in Items |-> Required(job.recipe, job.runs, i)]
           less == [i \in Items |-> -Required(job.recipe, job.runs, i)]
           made == [i \in Items |-> MadeBy(job, i)]
           used == [i \in Items |-> [stock[c][i] EXCEPT !.quantity = stock[c][i].quantity - need[i],
                                                        !.reserved = stock[c][i].reserved - need[i]]]
           rows == [used EXCEPT ![out].quantity = used[out].quantity + n]
<1>1. job \in JobRow
  BY RowsOfTable DEF Typed
<1>2. c \in Companies /\ job.recipe \in Recipes /\ job.runs \in Positive
  BY <1>1, JobFields
<1>3. n \in Nat /\ out \in Items /\ \A i \in Items : need[i] \in Nat
  BY <1>2, JobAmounts DEF Positive
<1>4. \A i \in Items : /\ less[i] = -need[i]
                       /\ made[i] = (IF out = i THEN n ELSE 0) - need[i]
  BY DEF MadeBy
<1>5. /\ jobs' = [jobs EXCEPT ![j].status = "COMPLETED"]
      /\ stock' = [stock EXCEPT ![c] = rows]
  <2> DEFINE spent == [i \in Items |-> UsedUp(stock[c][i], Required(job.recipe, job.runs, i))]
  <2>1. spent = used
    BY DEF UsedUp
  <2>2. /\ jobs' = [jobs EXCEPT ![j].status = "COMPLETED"]
        /\ stock' = [stock EXCEPT ![c] = [spent EXCEPT ![out].quantity = spent[out].quantity + n]]
    BY DEF CompleteJob
  <2> HIDE DEF used, spent
  <2> QED
    BY <2>1, <2>2
<1>6. \A i \in Items : need[i] > 0 => stock[c][i].reserved >= need[i] /\ stock[c][i].quantity >= need[i]
  BY DEF CompleteJob, InputsHeld
<1>7. \A i \in Items : /\ stock[c][i] \in [quantity : Nat, reserved : Nat]
                       /\ stock[c][i].quantity \in Nat /\ stock[c][i].reserved \in Nat
  BY <1>2 DEF Typed, StockRows
<1> HIDE DEF need, less, made, job, c, n, out
<1>8. \A i \in Items : need[i] <= stock[c][i].reserved /\ need[i] <= stock[c][i].quantity
  BY <1>3, <1>6, <1>7
<1>9. ASSUME NEW i \in Items
      PROVE  /\ used[i] \in [quantity : Nat, reserved : Nat]
             /\ used[i].quantity = stock[c][i].quantity - need[i]
             /\ used[i].reserved = stock[c][i].reserved - need[i]
  <2>1. /\ stock[c][i].quantity - need[i] \in Nat /\ stock[c][i].reserved - need[i] \in Nat
        /\ stock[c][i] \in [quantity : Nat, reserved : Nat]
    BY <1>3, <1>7, <1>8
  <2> QED
    BY <2>1
<1>10. used \in [Items -> [quantity : Nat, reserved : Nat]]
  BY <1>9
<1> HIDE DEF used
<1>11. /\ rows \in [Items -> [quantity : Nat, reserved : Nat]]
       /\ \A i \in Items : /\ rows[i].quantity = used[i].quantity + (IF out = i THEN n ELSE 0)
                           /\ rows[i].reserved = used[i].reserved
  BY <1>3, <1>10
<1> HIDE DEF rows
<1>12. \A i \in Items : /\ made[i] \in Int /\ less[i] \in Int
                        /\ stock[c][i].quantity + made[i] \in Nat
                        /\ stock[c][i].reserved + less[i] \in Nat
                        /\ rows[i].quantity = stock[c][i].quantity + made[i]
                        /\ rows[i].reserved = stock[c][i].reserved + less[i]
  BY <1>3, <1>4, <1>7, <1>8, <1>9, <1>11
<1>13. Restocked(c, made, less)
  BY <1>2, <1>5, <1>11, <1>12, StockRewritten DEF Typed
<1> QED
  BY <1>1, <1>5, <1>8, <1>13 DEF made, less, need, c, job

-----------------------------------------------------------------------------
(* What the operations on shipments do.                                    *)

\* The fields of a shipment.
LEMMA ShipmentFields ==
    ASSUME NEW row \in ShipmentRow
    PROVE  /\ row.company \in Companies /\ row.item \in Items /\ row.quantity \in Positive
           /\ row.status \in {"IN_TRANSIT", "CANCELLED", "DELIVERED"}
           /\ row.created \in Nat /\ row.arrives \in Nat
BY DEF ShipmentRow

\* The status of a shipment is written.
LEMMA ShipmentWritten ==
    ASSUME Typed, NEW s \in DOMAIN shipments,
           NEW status \in {"IN_TRANSIT", "CANCELLED", "DELIVERED"},
           shipments' = [shipments EXCEPT ![s].status = status]
    PROVE  /\ shipments' \in Seq(ShipmentRow) /\ DOMAIN shipments' = DOMAIN shipments
           /\ \A k \in DOMAIN shipments : k # s => shipments'[k] = shipments[k]
           /\ shipments'[s].company = shipments[s].company
           /\ shipments'[s].item = shipments[s].item
           /\ shipments'[s].quantity = shipments[s].quantity
           /\ shipments'[s].status = status
<1> DEFINE row == [shipments[s] EXCEPT !.status = status]
<1>1. shipments[s] \in ShipmentRow
  BY RowsOfTable DEF Typed
<1>2. /\ row \in ShipmentRow /\ row.company = shipments[s].company /\ row.item = shipments[s].item
      /\ row.quantity = shipments[s].quantity /\ row.status = status
  BY <1>1 DEF ShipmentRow
<1>3. shipments' = [shipments EXCEPT ![s] = row]
  OBVIOUS
<1>4. shipments' \in Seq(ShipmentRow) /\ DOMAIN shipments' = DOMAIN shipments
      /\ \A k \in DOMAIN shipments : shipments'[k] = IF k = s THEN row ELSE shipments[k]
  <2>1. shipments \in Seq(ShipmentRow) /\ row \in ShipmentRow
    BY <1>2 DEF Typed
  <2> HIDE DEF row
  <2> QED
    BY <1>3, <2>1, RowReplaced
<1> QED
  BY <1>2, <1>4

\* createShipmentWithTx: the goods and the fee were free.
LEMMA CreateShipmentDoes ==
    ASSUME Typed, clock \in Nat, NEW c \in Companies, NEW i \in Items, NEW n \in Positive,
           CreateShipment(c, i, n)
    PROVE  \E row \in ShipmentRow, fee \in Nat :
              /\ row.company = c /\ row.item = i /\ row.quantity = n /\ row.status = "IN_TRANSIT"
              /\ shipments' = Append(shipments, row) /\ shipments' \in Seq(ShipmentRow)
              /\ fee <= cash[c].cash - cash[c].reserved /\ Booked(c, -fee, 0)
              /\ n <= stock[c][i].quantity - stock[c][i].reserved /\ Stocked(c, i, -n, 0)
<1> DEFINE fee == BaseFee + n * FeePerUnit
           t == TravelTicks(c, TravelDuration)
           row == [company |-> c, item |-> i, quantity |-> n, status |-> "IN_TRANSIT",
                   created |-> clock, arrives |-> clock + t]
<1>1. fee \in Nat /\ n \in Nat
  <2>1. n \in Nat /\ FeePerUnit \in Nat /\ BaseFee \in Nat
    BY ShipmentsAssumption DEF Positive
  <2>2. n * FeePerUnit \in Nat
    BY <2>1, TradingAssumption, Trading!Products
  <2> QED
    BY <2>1, <2>2
<1>2. t \in Nat
  BY ShipmentsAssumption, DurationsAreTimes
<1>3. /\ shipments' = Append(shipments, row) /\ Pay(c, fee)
      /\ cash[c].cash - fee >= 0 /\ cash[c].cash - fee >= cash[c].reserved
      /\ n <= stock[c][i].quantity - stock[c][i].reserved
      /\ stock' = [stock EXCEPT ![c][i].quantity = stock[c][i].quantity - n]
  BY DEF CreateShipment, FeeLeavesReserve, AvailableStock
<1> HIDE DEF fee, t
<1>4. row \in ShipmentRow
  BY <1>2 DEF ShipmentRow
<1>5. row.company = c /\ row.item = i /\ row.quantity = n /\ row.status = "IN_TRANSIT"
  OBVIOUS
<1> HIDE DEF row
<1>6. shipments' \in Seq(ShipmentRow)
  BY <1>3, <1>4 DEF Typed
<1>7. /\ cash[c].cash \in Nat /\ cash[c].reserved \in Nat
      /\ stock[c][i].quantity \in Nat /\ stock[c][i].reserved \in Nat
  BY TypedBalances
<1>8. fee <= cash[c].cash - cash[c].reserved /\ fee <= cash[c].cash
  BY <1>1, <1>3, <1>7
<1>9. Booked(c, -fee, 0)
  BY <1>1, <1>3, <1>8, PayBooked DEF Typed
<1>10. Stocked(c, i, -n, 0)
  <2>1. /\ stock[c][i].quantity + (-n) \in Nat /\ -n \in Int
        /\ stock[c][i].quantity + (-n) = stock[c][i].quantity - n
    BY <1>1, <1>3, <1>7, SMTT(30)
  <2> QED
    BY <1>3, <2>1, QuantityStocked DEF Typed
<1> QED
  BY <1>1, <1>3, <1>4, <1>5, <1>6, <1>8, <1>9, <1>10

\* Goods come back to the home region.
LEMMA GoodsReturned ==
    ASSUME Typed, NEW c \in Companies, NEW i \in Items, NEW n \in Positive,
           stock' = [stock EXCEPT ![c][i].quantity = @ + n]
    PROVE  Stocked(c, i, n, 0)
<1>1. stock[c][i].quantity + n \in Nat /\ n \in Int
  BY TypedBalances DEF Positive
<1> QED
  BY <1>1, QuantityStocked DEF Typed

\* cancelShipmentWithTx.
LEMMA CancelShipmentDoes ==
    ASSUME Typed, NEW s \in DOMAIN shipments, CancelShipment(s)
    PROVE  LET it == shipments[s] IN
           /\ it \in ShipmentRow /\ it.status = "IN_TRANSIT"
           /\ shipments' = [shipments EXCEPT ![s].status = "CANCELLED"]
           /\ Stocked(it.company, it.item, it.quantity, 0)
<1>1. shipments[s] \in ShipmentRow
  BY RowsOfTable DEF Typed
<1>2. /\ shipments[s].company \in Companies /\ shipments[s].item \in Items
      /\ shipments[s].quantity \in Positive
  BY <1>1, ShipmentFields
<1>3. /\ shipments[s].status = "IN_TRANSIT"
      /\ shipments' = [shipments EXCEPT ![s].status = "CANCELLED"]
      /\ stock' = [stock EXCEPT ![shipments[s].company][shipments[s].item].quantity =
                                    @ + shipments[s].quantity]
  BY DEF CancelShipment, InTransit
<1>4. Stocked(shipments[s].company, shipments[s].item, shipments[s].quantity, 0)
  BY <1>2, <1>3, GoodsReturned
<1> QED
  BY <1>1, <1>3, <1>4

\* The store of c in the other region receives n of item i.
Stowed(c, i, n) ==
    /\ depot' \in DepotRows
    /\ \A d \in Companies, j \in Items :
          depot'[d][j] = depot[d][j] + (IF d = c /\ j = i THEN n ELSE 0)

\* One round of deliverDueShipmentsForTick.
LEMMA DeliverDoes ==
    ASSUME Typed, NEW s \in DOMAIN shipments, Deliver(s)
    PROVE  LET it == shipments[s]
               Closed == shipments' = [shipments EXCEPT ![s].status = "DELIVERED"]
           IN
           /\ it \in ShipmentRow
           /\ \/ /\ Closed /\ Stowed(it.company, it.item, it.quantity) /\ stock' = stock
                 /\ HasRoom(it.company, "away", it.quantity)
              \/ /\ Closed /\ Stocked(it.company, it.item, it.quantity, 0) /\ depot' = depot
                 /\ HasRoom(it.company, "home", it.quantity)
              \/ shipments' = shipments /\ stock' = stock /\ depot' = depot
<1> DEFINE it == shipments[s]
           c == it.company
           i == it.item
           n == it.quantity
<1>1. it \in ShipmentRow
  BY RowsOfTable DEF Typed
<1>2. c \in Companies /\ i \in Items /\ n \in Positive
  BY <1>1, ShipmentFields
<1>3. \/ /\ HasRoom(c, "away", n) /\ stock' = stock
         /\ depot' = [depot EXCEPT ![c][i] = depot[c][i] + n]
         /\ shipments' = [shipments EXCEPT ![s].status = "DELIVERED"]
      \/ /\ HasRoom(c, "home", n) /\ depot' = depot
         /\ stock' = [stock EXCEPT ![c][i].quantity = @ + n]
         /\ shipments' = [shipments EXCEPT ![s].status = "DELIVERED"]
      \/ shipments' = shipments /\ stock' = stock /\ depot' = depot
  BY DEF Deliver, OriginHasRoom
<1> HIDE DEF it, c, i, n
<1>4. ASSUME depot' = [depot EXCEPT ![c][i] = depot[c][i] + n] PROVE Stowed(c, i, n)
  <2>1. \A d \in Companies, j \in Items : depot[d][j] \in Nat
    BY DEF Typed, DepotRows
  <2>2. depot[c][i] + n \in Nat
    BY <1>2, <2>1 DEF Positive
  <2>3. /\ depot' \in DepotRows
        /\ \A d \in Companies, j \in Items :
              depot'[d][j] = IF d = c /\ j = i THEN depot[c][i] + n ELSE depot[d][j]
    BY <1>2, <1>4, <2>2 DEF Typed, DepotRows
  <2> QED
    BY <1>2, <2>1, <2>3 DEF Stowed, Positive
<1>5. ASSUME stock' = [stock EXCEPT ![c][i].quantity = @ + n] PROVE Stocked(c, i, n, 0)
  BY <1>2, <1>5, GoodsReturned
<1> QED
  BY <1>1, <1>3, <1>4, <1>5 DEF c, i, n, it

-----------------------------------------------------------------------------
(* What the operations on contracts do, and the demand sink.               *)

\* The fields of a contract.
LEMMA ContractFields ==
    ASSUME NEW row \in ContractRow
    PROVE  /\ row.buyer \in Companies /\ row.buyer \notin Players
           /\ row.seller \in Players \cup {NoCompany}
           /\ row.item \in Items /\ row.remaining \in Nat /\ row.price \in Positive
           /\ row.status \in Live \cup {"FULFILLED", "EXPIRED"} /\ row.expires \in Nat
BY NpcsAssumption DEF ContractRow, Players

\* The row of a contract is written.
LEMMA ContractWritten ==
    ASSUME Typed, NEW k \in DOMAIN contracts, NEW row \in ContractRow,
           contracts' = [contracts EXCEPT ![k] = row]
    PROVE  /\ contracts' \in Seq(ContractRow) /\ DOMAIN contracts' = DOMAIN contracts
           /\ \A j \in DOMAIN contracts : contracts'[j] = IF j = k THEN row ELSE contracts[j]
BY RowReplaced DEF Typed

\* acceptContract.
LEMMA AcceptContractDoes ==
    ASSUME Typed, NEW c \in Players, NEW k \in DOMAIN contracts, AcceptContract(c, k)
    PROVE  /\ contracts[k].status = "OPEN"
           /\ \E row \in ContractRow :
                 /\ row.status = "ACCEPTED" /\ row.seller = c
                 /\ row.remaining = contracts[k].remaining /\ row.expires = contracts[k].expires
                 /\ contracts' = [contracts EXCEPT ![k] = row]
<1> DEFINE new == [contracts[k] EXCEPT !.status = "ACCEPTED", !.seller = c]
<1>1. contracts[k] \in ContractRow
  BY RowsOfTable DEF Typed
<1>2. contracts[k].status = "OPEN"
  BY DEF AcceptContract
<1>3. contracts' = [contracts EXCEPT ![k] = new]
  BY DEF AcceptContract, Typed
<1>4. /\ new \in ContractRow /\ new.status = "ACCEPTED" /\ new.seller = c
      /\ new.remaining = contracts[k].remaining /\ new.expires = contracts[k].expires
  BY <1>1 DEF ContractRow, Live
<1> HIDE DEF new
<1> QED
  BY <1>2, <1>3, <1>4

\* Money goes from the buyer to the seller, and goods the other way.
Exchanged(b, s, i, n, price) ==
    /\ cash' \in CashRows /\ Trading!PaymentMoved(cash', cash, b, s, price, 0)
    /\ ledger' \in LedgerRows /\ Trading!PaymentMoved(ledger', ledger, b, s, price, 0)
    /\ stock' \in StockRows
    /\ \A d \in Companies, j \in Items :
          /\ stock'[d][j].reserved = stock[d][j].reserved
          /\ stock'[d][j].quantity = stock[d][j].quantity - (IF d = s /\ j = i THEN n ELSE 0)
                                         + (IF d = b /\ j = i THEN n ELSE 0)

\* fulfillContract: the goods were free, the cash was there.
LEMMA FulfillContractDoes ==
    ASSUME Typed, NEW k \in DOMAIN contracts, NEW n \in Positive, clock \in Nat, FulfillContract(k, n),
           contracts[k].seller \in Players
    PROVE  LET it == contracts[k]
               row == [it EXCEPT !.remaining = it.remaining - n, !.status = StatusAfter(it, n)]
           IN
           /\ it.buyer \in Companies /\ it.seller \in Companies /\ it.item \in Items
           /\ it.buyer # it.seller /\ n * it.price \in Nat
           /\ it.status \in {"ACCEPTED", "PARTIALLY_FULFILLED"} /\ n <= it.remaining
           /\ clock < it.expires
           /\ row \in ContractRow /\ row.remaining = it.remaining - n
           /\ row.status = StatusAfter(it, n) /\ row.seller = it.seller
           /\ row.expires = it.expires
           /\ contracts' = [contracts EXCEPT ![k] = row]
           /\ n <= stock[it.seller][it.item].quantity - stock[it.seller][it.item].reserved
           /\ Exchanged(it.buyer, it.seller, it.item, n, n * it.price)
<1> DEFINE it == contracts[k]
           row == [it EXCEPT !.remaining = it.remaining - n, !.status = StatusAfter(it, n)]
           b == it.buyer
           s == it.seller
           i == it.item
           price == n * it.price
<1>1. it \in ContractRow
  BY RowsOfTable DEF Typed
<1>2. /\ b \in Companies /\ s \in Companies /\ b # s /\ i \in Items /\ it.remaining \in Nat
      /\ it.price \in Positive /\ n \in Nat /\ it.expires \in Nat
  BY <1>1, ContractFields DEF Players, Positive
<1>3. price \in Nat
  BY <1>2, TradingAssumption, Trading!Products DEF Positive
<1>4. /\ it.status \in {"ACCEPTED", "PARTIALLY_FULFILLED"} /\ ~(clock >= it.expires)
      /\ n <= it.remaining
      /\ stock[s][i].quantity - stock[s][i].reserved >= n /\ cash[b].cash >= price
      /\ stock' = [stock EXCEPT ![s][i].quantity = @ - n, ![b][i].quantity = @ + n]
      /\ cash' = [cash EXCEPT ![b].cash = @ - price, ![s].cash = @ + price]
      /\ ledger' = [ledger EXCEPT ![b].cash = @ - price, ![s].cash = @ + price]
  BY DEF FulfillContract, Expired, AvailableStock
<1>5. contracts' = [contracts EXCEPT ![k] = row]
  <2>1. contracts' = [contracts EXCEPT ![k].remaining = it.remaining - n,
                                       ![k].status = StatusAfter(it, n)]
    BY DEF FulfillContract
  <2> QED
    BY <2>1 DEF Typed
<1>6. /\ row \in ContractRow /\ row.remaining = it.remaining - n
      /\ row.status = StatusAfter(it, n) /\ row.seller = it.seller /\ row.expires = it.expires
  <2>1. it.remaining - n \in Nat
    BY <1>2, <1>4
  <2>2. StatusAfter(it, n) \in {"FULFILLED", "PARTIALLY_FULFILLED"}
    BY DEF StatusAfter
  <2> QED
    BY <1>1, <2>1, <2>2 DEF ContractRow, Live
<1> HIDE DEF row, b, s, i, price, it
<1>7. /\ \A c \in Companies : /\ cash[c] \in [cash : Nat, reserved : Nat]
                              /\ ledger[c] \in [cash : Int, reserved : Int]
      /\ \A c \in Companies, j \in Items : stock[c][j] \in [quantity : Nat, reserved : Nat]
  BY DEF Typed, CashRows, LedgerRows, StockRows
<1>8. /\ \A c \in Companies : cash[c].cash \in Nat /\ cash[c].reserved \in Nat
      /\ \A c \in Companies : ledger[c].cash \in Int /\ ledger[c].reserved \in Int
      /\ \A c \in Companies, j \in Items :
            stock[c][j].quantity \in Nat /\ stock[c][j].reserved \in Nat
  BY <1>7
<1>9. cash' \in CashRows /\ Trading!PaymentMoved(cash', cash, b, s, price, 0)
  <2> DEFINE paid == [cash[b] EXCEPT !.cash = cash[b].cash - price]
             got == [cash[s] EXCEPT !.cash = cash[s].cash + price]
  <2>1. cash' = [cash EXCEPT ![b] = paid, ![s] = got]
    BY <1>2, <1>4 DEF Typed, CashRows
  <2>2. /\ paid \in [cash : Nat, reserved : Nat] /\ paid.cash = cash[b].cash - price
        /\ paid.reserved = cash[b].reserved
    BY <1>2, <1>3, <1>4, <1>7, <1>8
  <2>3. /\ got \in [cash : Nat, reserved : Nat] /\ got.cash = cash[s].cash + price
        /\ got.reserved = cash[s].reserved
    BY <1>2, <1>3, <1>7, <1>8
  <2> HIDE DEF paid, got
  <2>4. /\ cash' \in CashRows
        /\ \A d \in Companies : cash'[d] = IF d = s THEN got ELSE IF d = b THEN paid ELSE cash[d]
    BY <1>2, <2>1, <2>2, <2>3 DEF Typed, CashRows
  <2> QED
    BY <1>2, <1>3, <1>8, <2>2, <2>3, <2>4 DEF Trading!PaymentMoved
<1>10. ledger' \in LedgerRows /\ Trading!PaymentMoved(ledger', ledger, b, s, price, 0)
  <2> DEFINE paid == [ledger[b] EXCEPT !.cash = ledger[b].cash - price]
             got == [ledger[s] EXCEPT !.cash = ledger[s].cash + price]
  <2>1. ledger' = [ledger EXCEPT ![b] = paid, ![s] = got]
    BY <1>2, <1>4 DEF Typed, LedgerRows
  <2>2. /\ paid \in [cash : Int, reserved : Int] /\ paid.cash = ledger[b].cash - price
        /\ paid.reserved = ledger[b].reserved
    BY <1>2, <1>3, <1>7, <1>8
  <2>3. /\ got \in [cash : Int, reserved : Int] /\ got.cash = ledger[s].cash + price
        /\ got.reserved = ledger[s].reserved
    BY <1>2, <1>3, <1>7, <1>8
  <2> HIDE DEF paid, got
  <2>4. /\ ledger' \in LedgerRows
        /\ \A d \in Companies : ledger'[d] = IF d = s THEN got ELSE IF d = b THEN paid ELSE ledger[d]
    BY <1>2, <2>1, <2>2, <2>3 DEF Typed, LedgerRows
  <2> QED
    BY <1>2, <1>3, <1>8, <2>2, <2>3, <2>4 DEF Trading!PaymentMoved
<1>11. /\ stock' \in StockRows
       /\ \A d \in Companies, j \in Items :
             /\ stock'[d][j].reserved = stock[d][j].reserved
             /\ stock'[d][j].quantity = stock[d][j].quantity - (IF d = s /\ j = i THEN n ELSE 0)
                                            + (IF d = b /\ j = i THEN n ELSE 0)
  <2> DEFINE given == [stock[s][i] EXCEPT !.quantity = stock[s][i].quantity - n]
             taken == [stock[b][i] EXCEPT !.quantity = stock[b][i].quantity + n]
  <2>1. stock' = [stock EXCEPT ![s][i] = given, ![b][i] = taken]
    BY <1>2, <1>4 DEF Typed, StockRows
  <2>2. /\ given \in [quantity : Nat, reserved : Nat]
        /\ given.quantity = stock[s][i].quantity - n /\ given.reserved = stock[s][i].reserved
    BY <1>2, <1>4, <1>7, <1>8
  <2>3. /\ taken \in [quantity : Nat, reserved : Nat]
        /\ taken.quantity = stock[b][i].quantity + n /\ taken.reserved = stock[b][i].reserved
    BY <1>2, <1>7, <1>8
  <2> HIDE DEF given, taken
  <2>4. /\ stock' \in StockRows
        /\ \A d \in Companies, j \in Items :
              stock'[d][j] = IF d = b /\ j = i THEN taken ELSE IF d = s /\ j = i THEN given
                             ELSE stock[d][j]
    BY <1>2, <2>1, <2>2, <2>3 DEF Typed, StockRows
  <2> QED
    BY <1>2, <1>8, <2>2, <2>3, <2>4
<1>12. Exchanged(b, s, i, n, price)
  BY <1>9, <1>10, <1>11 DEF Exchanged
<1>13. clock < it.expires \/ ~(clock \in Nat)
  BY <1>2, <1>4
<1> QED
  BY <1>2, <1>3, <1>4, <1>5, <1>6, <1>12, <1>13 DEF row, b, s, i, price, it


-----------------------------------------------------------------------------
(* What the reads of tables find.                                          *)

\* Numbers ranked by themselves are listed.
LEMMA RankedListed ==
    ASSUME NEW S \in SUBSET Nat, IsFiniteSet(S)
    PROVE  Lists(Ranked(S, <), S)
<1> DEFINE t == [k \in S |-> 0]
           Before(x) == {y \in S : y < x}
<1>1. \A x \in S : {y \in S : t[y] < t[x] \/ (t[y] = t[x] /\ y < x)} = Before(x)
  OBVIOUS
<1>2. \A k \in S : t[k] \in Int
  OBVIOUS
<1>3. Ranked(S, <) = [k \in 1 .. Cardinality(S) |-> CHOOSE x \in S : Cardinality(Before(x)) = k - 1]
  BY DEF Ranked
<1>4. ByTime(S, t) = [k \in 1 .. Cardinality(S) |-> CHOOSE x \in S : Cardinality(Before(x)) = k - 1]
  <2> DEFINE Sooner(x) == {y \in S : t[y] < t[x] \/ (t[y] = t[x] /\ y < x)}
  <2>1. ByTime(S, t) = [k \in 1 .. Cardinality(S) |-> CHOOSE x \in S : Cardinality(Sooner(x)) = k - 1]
    BY DEF ByTime
  <2>2. \A x \in S : Sooner(x) = Before(x)
    BY <1>1
  <2> HIDE DEF Sooner, Before, t
  <2> QED
    BY <2>1, <2>2
<1> HIDE DEF Before, t
<1>5. Lists(ByTime(S, t), S)
  BY <1>2, NumbersListed
<1> QED
  BY <1>3, <1>4, <1>5

\* What is picked from a sequence at the places that are listed.
LEMMA PickedFrom ==
    ASSUME NEW S, NEW s \in Seq(S), NEW P \in SUBSET DOMAIN s, NEW places, Lists(places, P)
    PROVE  LET picked == [k \in DOMAIN places |-> s[places[k]]] IN
           /\ picked \in Seq(S) /\ DOMAIN picked = DOMAIN places
           /\ \A k \in DOMAIN picked : places[k] \in P /\ picked[k] = s[places[k]]
<1>1. /\ places \in Seq(P) /\ Len(places) \in Nat /\ DOMAIN places = 1 .. Len(places)
      /\ \A k \in DOMAIN places : places[k] \in P
  BY DEF Lists
<1>2. \A k \in DOMAIN s : s[k] \in S
  OBVIOUS
<1>3. \A k \in DOMAIN places : s[places[k]] \in S
  BY <1>1, <1>2
<1> QED
  BY <1>1, <1>3

\* The places of an item's trades.
TradesOf(i) == {k \in DOMAIN trades : trades[k].item = i}

\* The prices of an item's trades are prices, one of each trade.
LEMMA PricesTyped ==
    ASSUME Typed, NEW i
    PROVE  /\ PricesOf(i) \in Seq(Positive) /\ Len(PricesOf(i)) \in Nat
           /\ DOMAIN PricesOf(i) = 1 .. Len(PricesOf(i)) /\ IsFiniteSet(DOMAIN PricesOf(i))
           /\ \A k \in DOMAIN PricesOf(i) : PricesOf(i)[k] \in Positive
<1> DEFINE P == TradesOf(i)
           places == Ranked(P, <)
           his == [k \in DOMAIN places |-> trades[places[k]]]
<1>1. /\ trades \in Seq(TradeRow) /\ IsFiniteSet(DOMAIN trades) /\ DOMAIN trades \in SUBSET Nat
      /\ \A k \in DOMAIN trades : trades[k] \in TradeRow
  BY RowsOfTable DEF Typed
<1>2. P \in SUBSET DOMAIN trades /\ P \in SUBSET Nat /\ IsFiniteSet(P)
  BY <1>1, FS_Subset DEF TradesOf
<1> HIDE DEF P
<1>3. Lists(places, P)
  BY <1>2, RankedListed
<1> HIDE DEF places
<1>4. his \in Seq(TradeRow) /\ DOMAIN his = DOMAIN places
  BY <1>1, <1>2, <1>3, PickedFrom
<1>5. PricesOf(i) = [k \in DOMAIN his |-> his[k].price]
  <2>1. Selected(trades, LAMBDA t : t.item = i) = his
    BY DEF Selected, his, places, P, TradesOf
  <2> QED
    BY <2>1 DEF PricesOf
<1> HIDE DEF his
<1>6. \A k \in DOMAIN his : his[k].price \in Positive
  <2>1. \A k \in DOMAIN his : his[k] \in TradeRow
    BY <1>4, RowsOfTable
  <2> QED
    BY <2>1 DEF TradeRow
<1>7. PricesOf(i) \in Seq(Positive)
  <2>1. Len(his) \in Nat /\ DOMAIN his = 1 .. Len(his)
    BY <1>4, RowsOfTable
  <2> QED
    BY <1>5, <1>6, <2>1
<1> QED
  BY <1>7, RowsOfTable


\* expireContractsForTick.
LEMMA ExpireContractsDoes ==
    ASSUME Typed, ExpireContracts
    PROVE  /\ contracts' \in Seq(ContractRow) /\ DOMAIN contracts' = DOMAIN contracts
           /\ \A k \in DOMAIN contracts :
                 LET it == contracts[k]
                     row == [it EXCEPT !.status = "EXPIRED"]
                 IN
                 /\ contracts'[k] = IF it.status \in Live /\ it.expires <= ThisTick THEN row ELSE it
                 /\ row.status = "EXPIRED" /\ row.seller = it.seller
                 /\ row.remaining = it.remaining
<1> DEFINE Row(k) == [contracts[k] EXCEPT !.status = "EXPIRED"]
           New(k) == IF contracts[k].status \in Live /\ contracts[k].expires <= ThisTick
                     THEN Row(k) ELSE contracts[k]
<1>1. /\ Len(contracts) \in Nat /\ DOMAIN contracts = 1 .. Len(contracts)
      /\ \A k \in DOMAIN contracts : contracts[k] \in ContractRow
  BY RowsOfTable DEF Typed
<1>2. \A k \in DOMAIN contracts :
         /\ Row(k) \in ContractRow /\ Row(k).status = "EXPIRED"
         /\ Row(k).seller = contracts[k].seller /\ Row(k).remaining = contracts[k].remaining
  BY <1>1 DEF ContractRow
<1>3. contracts' = [k \in DOMAIN contracts |-> New(k)]
  BY DEF ExpireContracts, Expirable
<1>4. \A k \in DOMAIN contracts : New(k) \in ContractRow
  BY <1>1, <1>2
<1>5. contracts' \in Seq(ContractRow)
  <2> HIDE DEF New, Row
  <2> QED
    BY <1>1, <1>3, <1>4
<1> QED
  BY <1>2, <1>3, <1>5

\* The base price of an item, and the price of an offer.
LEMMA OfferPrices ==
    ASSUME Typed, clock \in Nat, NEW i \in Items, NEW k \in Nat
    PROVE  ContractPrice(i, k) \in Positive
<1>1. BasePrice(i) \in Int
  <2> DEFINE prices == PricesOf(i)
  <2>1. /\ prices \in Seq(Positive) /\ IsFiniteSet(DOMAIN prices)
        /\ \A x \in DOMAIN prices : prices[x] \in Positive
    BY PricesTyped
  <2>2. BasePrice(i) = IF prices = <<>> THEN UsualPrice[i]
                       ELSE SumFunctionOnSet(prices, DOMAIN prices) \div Len(prices)
    BY DEF BasePrice, SumFunction
  <2> HIDE DEF prices
  <2>3. \A x \in DOMAIN prices : prices[x] \in Int
    BY <2>1 DEF Positive
  <2>4. SumFunctionOnSet(prices, DOMAIN prices) \in Int
    BY <2>1, <2>3, SumInt
  <2>5. prices # <<>> => Len(prices) \in Positive
    BY <2>1 DEF Positive
  <2>6. UsualPrice[i] \in Int
    BY ContractsAssumption
  <2> QED
    BY <2>2, <2>4, <2>5, <2>6, Quotients
<1> DEFINE band == (BasePrice(i) * PriceBand) \div PriceScale
           price == IF (ThisTick + k) % 2 = 0 THEN BasePrice(i) + band ELSE BasePrice(i) - band
<1>2. band \in Int
  BY <1>1, ContractsAssumption, Quotients DEF Positive
<1>3. ContractPrice(i, k) = IF price > 0 THEN price ELSE 1
  BY DEF ContractPrice
<1> HIDE DEF band
<1>4. price \in Int
  BY <1>1, <1>2
<1> HIDE DEF price
<1> QED
  BY <1>3, <1>4 DEF Positive

\* One round of generateContractsForTick.
LEMMA OfferContractDoes ==
    ASSUME Typed, clock \in Nat, NEW k \in Nat, Items # {}, Npcs # {}, OfferContract(k)
    PROVE  \/ contracts' = contracts
           \/ \E row \in ContractRow :
                 /\ row.status = "OPEN" /\ row.seller = NoCompany /\ row.remaining > 0
                 /\ row.expires > ThisTick
                 /\ contracts' = Append(contracts, row) /\ contracts' \in Seq(ContractRow)
<1> DEFINE items == SetToSeq(Items)
           npcs == SetToSeq(Npcs)
           i == items[((ThisTick + k) % Len(items)) + 1]
           c == npcs[((ThisTick + k * 3) % Len(npcs)) + 1]
           n == UsualQuantity[i] + ((ThisTick + k) % 3)
           price == ContractPrice(i, k)
           row == [buyer |-> c, seller |-> NoCompany, item |-> i, remaining |-> n,
                   price |-> price, status |-> "OPEN", expires |-> ThisTick + ContractTtl]
<1>1. ThisTick \in Nat
  BY DEF ThisTick
<1>2. i \in Items
  <2>1. Lists(items, Items)
    BY AmountsAssumption, SetIsListed
  <2> HIDE DEF items
  <2>2. items \in Seq(Items) /\ items # <<>>
    BY <2>1, EmptyListed DEF Lists
  <2>3. Len(items) \in Positive /\ \A x \in 1 .. Len(items) : items[x] \in Items
    BY <2>2 DEF Positive
  <2>4. ThisTick + k \in Nat
    BY <1>1
  <2>5. (ThisTick + k) % Len(items) \in 0 .. Len(items) - 1
    BY <2>3, <2>4, Quotients
  <2>6. ((ThisTick + k) % Len(items)) + 1 \in 1 .. Len(items)
    BY <2>3, <2>5 DEF Positive
  <2> QED
    BY <2>3, <2>6
<1>3. c \in Npcs
  <2>1. Lists(npcs, Npcs)
    BY AmountsAssumption, NpcsAssumption, FS_Subset, SetIsListed
  <2> HIDE DEF npcs
  <2>2. npcs \in Seq(Npcs) /\ npcs # <<>>
    BY <2>1, EmptyListed DEF Lists
  <2>3. Len(npcs) \in Positive /\ \A x \in 1 .. Len(npcs) : npcs[x] \in Npcs
    BY <2>2 DEF Positive
  <2>4. ThisTick + k * 3 \in Nat
    BY <1>1
  <2>5. (ThisTick + k * 3) % Len(npcs) \in 0 .. Len(npcs) - 1
    BY <2>3, <2>4, Quotients
  <2>6. ((ThisTick + k * 3) % Len(npcs)) + 1 \in 1 .. Len(npcs)
    BY <2>3, <2>5 DEF Positive
  <2> QED
    BY <2>3, <2>6
<1>4. contracts' = IF cash[c].cash >= n * price THEN Append(contracts, row) ELSE contracts
  BY DEF OfferContract
<1> HIDE DEF items, npcs, c, i
<1>5. price \in Positive
  BY <1>2, OfferPrices
<1>6. n \in Nat /\ n > 0
  <2>1. UsualQuantity[i] \in Nat /\ UsualQuantity[i] > 0
    BY <1>2, ContractsAssumption
  <2>2. (ThisTick + k) % 3 \in Nat
    BY <1>1
  <2> QED
    BY <2>1, <2>2
<1> HIDE DEF n, price
<1>7. row \in ContractRow /\ row.expires > ThisTick
  <2>1. ThisTick + ContractTtl \in Nat /\ ThisTick + ContractTtl > ThisTick
    BY <1>1, ContractsAssumption
  <2> QED
    BY <1>2, <1>3, <1>5, <1>6, <2>1 DEF ContractRow, Live
<1>8. row.status = "OPEN" /\ row.seller = NoCompany /\ row.remaining > 0
  BY <1>6
<1> HIDE DEF row
<1>9. Append(contracts, row) \in Seq(ContractRow)
  BY <1>7 DEF Typed
<1> QED
  BY <1>4, <1>7, <1>8, <1>9

\* One round of runDemandSinkForTick: what is taken was free.
LEMMA ConsumeDoes ==
    ASSUME Typed, clock \in Nat, NEW c \in Npcs, NEW i \in DemandItems, Consume(c, i)
    PROVE  \E n \in Nat :
              /\ i \in Items /\ c \in Companies
              /\ Stocked(c, i, -n, 0)
              /\ n = 0 \/ n <= stock[c][i].quantity - stock[c][i].reserved
              /\ consumed' \in [Items -> Nat]
              /\ \A j \in Items : consumed'[j] = consumed[j] + (IF j = i THEN n ELSE 0)
<1> DEFINE free == Free(c, i)
           want == Demand(c, i)
           n == Smaller(free, want)
<1>1. c \in Companies /\ i \in Items
  BY NpcsAssumption, EconomyAssumption
<1>2. stock[c][i].quantity \in Nat /\ stock[c][i].reserved \in Nat
  BY <1>1, TypedBalances
<1>3. /\ free \in 0 .. stock[c][i].quantity
      /\ free = 0 \/ free <= stock[c][i].quantity - stock[c][i].reserved
  BY <1>2 DEF Free, Clamp, AvailableStock
<1>4. want \in Nat
  <2>1. /\ DemandSeed[c][i] \in Nat /\ DemandBase \in Nat /\ DemandVariability + 1 \in Positive
        /\ ThisTick \in Nat
    BY <1>1, EconomyAssumption DEF ThisTick, Positive
  <2>2. (ThisTick + DemandSeed[c][i]) % (DemandVariability + 1) \in 0 .. (DemandVariability + 1) - 1
    BY <2>1, Quotients
  <2> QED
    BY <2>1, <2>2 DEF Demand
<1> HIDE DEF free, want
<1>5. /\ n \in Nat /\ n <= stock[c][i].quantity
      /\ n = 0 \/ n <= stock[c][i].quantity - stock[c][i].reserved
  BY <1>2, <1>3, <1>4 DEF Smaller
<1>6. /\ stock' = [stock EXCEPT ![c][i].quantity = stock[c][i].quantity - n]
      /\ consumed' = [consumed EXCEPT ![i] = consumed[i] + n]
  BY DEF Consume, free, want
<1> HIDE DEF n
<1>7. Stocked(c, i, -n, 0)
  <2>1. /\ stock[c][i].quantity + (-n) \in Nat /\ -n \in Int
        /\ stock[c][i].quantity + (-n) = stock[c][i].quantity - n
    BY <1>2, <1>5
  <2> QED
    BY <1>1, <1>6, <2>1, QuantityStocked DEF Typed
<1>8. /\ consumed' \in [Items -> Nat]
      /\ \A j \in Items : consumed'[j] = consumed[j] + (IF j = i THEN n ELSE 0)
  <2>1. consumed \in [Items -> Nat] /\ \A j \in Items : consumed[j] \in Nat
    BY DEF Typed
  <2>2. consumed[i] + n \in Nat
    BY <1>1, <1>5, <2>1
  <2>3. /\ consumed' \in [Items -> Nat]
        /\ \A j \in Items : consumed'[j] = IF j = i THEN consumed[i] + n ELSE consumed[j]
    BY <1>1, <1>6, <2>1, <2>2
  <2> QED
    BY <1>5, <2>1, <2>3
<1> QED
  BY <1>1, <1>5, <1>7, <1>8

-----------------------------------------------------------------------------
(* Candles.                                                                *)

\* A finite set of numbers that is not empty has a least and a greatest one.
LEMMA Extremes ==
    ASSUME NEW S \in SUBSET Int, IsFiniteSet(S), S # {}
    PROVE  /\ Max(S) \in S /\ Min(S) \in S
           /\ \A x \in S : Min(S) <= x /\ x <= Max(S)
<1> DEFINE Up == {p \in S \X S : p[1] <= p[2]}
           Down == {p \in S \X S : p[1] >= p[2]}
<1>1. \A a, b \in S : /\ <<a, b>> \in Up <=> a <= b
                      /\ <<a, b>> \in Down <=> a >= b
  OBVIOUS
<1>2. /\ \A a, b \in S : a = b \/ <<a, b>> \in Up \/ <<b, a>> \in Up
      /\ \A a, b, c \in S : <<a, b>> \in Up /\ <<b, c>> \in Up => <<a, c>> \in Up
      /\ \A a, b \in S : a = b \/ <<a, b>> \in Down \/ <<b, a>> \in Down
      /\ \A a, b, c \in S : <<a, b>> \in Down /\ <<b, c>> \in Down => <<a, c>> \in Down
  <2> HIDE DEF Up, Down
  <2> QED
    BY <1>1
<1> HIDE DEF Up, Down
<1>3. \E a \in S : \A b \in S \ {a} : <<a, b>> \in Up
  <2>1. \A T \in SUBSET S : T # {} => \E a \in T : \A b \in T \ {a} : <<a, b>> \in Up
    BY <1>2, FirstExists, Zenon
  <2> QED
    BY <2>1
<1>4. \E a \in S : \A b \in S \ {a} : <<a, b>> \in Down
  <2>1. \A T \in SUBSET S : T # {} => \E a \in T : \A b \in T \ {a} : <<a, b>> \in Down
    BY <1>2, FirstExists, Zenon
  <2> QED
    BY <2>1
<1>5. \E a \in S : \A b \in S : b >= a
  <2>1. PICK a \in S : \A b \in S \ {a} : <<a, b>> \in Up
    BY <1>3
  <2>2. ASSUME NEW b \in S PROVE b >= a
    <3>1. a \in Int /\ b \in Int
      OBVIOUS
    <3>2. CASE b = a
      BY <3>1, <3>2
    <3>3. CASE b # a
      <4>1. <<a, b>> \in Up
        BY <2>1, <3>3
      <4>2. a <= b
        BY <1>1, <4>1
      <4> QED
        BY <3>1, <4>2
    <3> QED
      BY <3>2, <3>3
  <2> QED
    BY <2>2
<1>6. \E a \in S : \A b \in S : a >= b
  <2>1. PICK a \in S : \A b \in S \ {a} : <<a, b>> \in Down
    BY <1>4
  <2>2. ASSUME NEW b \in S PROVE a >= b
    <3>1. a \in Int /\ b \in Int
      OBVIOUS
    <3>2. CASE b = a
      BY <3>1, <3>2
    <3>3. CASE b # a
      <4>1. <<a, b>> \in Down
        BY <2>1, <3>3
      <4>2. a >= b
        BY <1>1, <4>1
      <4> QED
        BY <3>1, <4>2
    <3> QED
      BY <3>2, <3>3
  <2> QED
    BY <2>2
<1> QED
  BY <1>5, <1>6 DEF Max, Min

\* The places of an item's trades of a tick.
TradedIn(i, t) == {k \in DOMAIN trades : trades[k].item = i /\ trades[k].tick = t}

\* The volume of an item's trades of a tick.
TradedVolume(i, t) ==
    SumFunctionOnSet([k \in DOMAIN trades |-> trades[k].quantity], TradedIn(i, t))

\* The candle of an item that was traded: its volume is that of the trades, and
\* its prices lie between the lowest and the highest.
LEMMA CandleDoes ==
    ASSUME Typed, clock \in Nat, NEW i \in Items
    PROVE  /\ TradesInTick(i) # <<>> <=> TradedIn(i, ThisTick) # {}
           /\ TradesInTick(i) # <<>> =>
                 /\ Candle(i) \in CandleRow
                 /\ Candle(i).item = i /\ Candle(i).tick = ThisTick
                 /\ Candle(i).volume = TradedVolume(i, ThisTick)
                 /\ {Candle(i).open, Candle(i).close, Candle(i).vwap}
                       \subseteq Candle(i).low .. Candle(i).high
<1> DEFINE P == TradedIn(i, ThisTick)
           places == Ranked(P, <)
           ts == [k \in DOMAIN places |-> trades[places[k]]]
<1>1. /\ trades \in Seq(TradeRow) /\ IsFiniteSet(DOMAIN trades) /\ DOMAIN trades \in SUBSET Nat
      /\ \A k \in DOMAIN trades : trades[k] \in TradeRow
  BY RowsOfTable DEF Typed
<1>2. P \in SUBSET DOMAIN trades /\ P \in SUBSET Nat /\ IsFiniteSet(P)
  BY <1>1, FS_Subset DEF TradedIn
<1>3. TradesInTick(i) = ts
  BY DEF TradesInTick, Selected, TradedIn
<1> HIDE DEF P
<1>4. Lists(places, P)
  BY <1>2, RankedListed
<1> HIDE DEF places
<1>5. /\ ts \in Seq(TradeRow) /\ DOMAIN ts = DOMAIN places /\ DOMAIN places = 1 .. Len(places)
      /\ \A k \in DOMAIN places : places[k] \in P
      /\ \A x \in P : \E k \in DOMAIN places : places[k] = x
  <2>1. ts \in Seq(TradeRow) /\ DOMAIN ts = DOMAIN places
    BY <1>1, <1>2, <1>4, PickedFrom
  <2> HIDE DEF ts
  <2>2. places \in Seq(P) /\ \A x \in P : \E k \in DOMAIN places : places[k] = x
    BY <1>4 DEF Lists
  <2> QED
    BY <2>1, <2>2, RowsOfTable
<1>6. ts # <<>> <=> P # {}
  <2>1. ts = <<>> <=> DOMAIN ts = {}
    BY <1>5
  <2> QED
    BY <1>5, <2>1
<1>7. \A k \in DOMAIN trades : /\ trades[k].price \in Positive /\ trades[k].quantity \in Positive
  BY <1>1 DEF TradeRow
<1>8. /\ Len(ts) \in Nat /\ DOMAIN ts = 1 .. Len(ts) /\ IsFiniteSet(DOMAIN ts)
      /\ \A k \in DOMAIN ts : ts[k].price \in Positive /\ ts[k].quantity \in Positive
  <2>1. \A k \in DOMAIN ts : ts[k] = trades[places[k]] /\ places[k] \in DOMAIN trades
    BY <1>2, <1>5
  <2> HIDE DEF ts
  <2> QED
    BY <1>5, <1>7, <2>1, RowsOfTable
<1>9. Volume(ts) = TradedVolume(i, ThisTick)
  <2> DEFINE f == [k \in DOMAIN trades |-> trades[k].quantity]
  <2>1. \A k \in P : f[k] \in Int
    BY <1>2, <1>7 DEF Positive
  <2>2. [k \in DOMAIN ts |-> ts[k].quantity] = [k \in DOMAIN places |-> f[places[k]]]
    BY <1>2, <1>5
  <2>3. TradedVolume(i, ThisTick) = SumFunctionOnSet(f, P)
    BY DEF TradedVolume, P
  <2> HIDE DEF f, ts
  <2>4. SumFunction([k \in DOMAIN places |-> f[places[k]]]) = SumFunctionOnSet(f, P)
    BY <1>2, <1>4, <2>1, SumListed
  <2> QED
    BY <2>2, <2>3, <2>4 DEF Volume
<1> HIDE DEF ts
<1>10. SUFFICES ASSUME ts # <<>>
       PROVE  /\ Candle(i) \in CandleRow
              /\ Candle(i).item = i /\ Candle(i).tick = ThisTick
              /\ Candle(i).volume = TradedVolume(i, ThisTick)
              /\ {Candle(i).open, Candle(i).close, Candle(i).vwap}
                    \subseteq Candle(i).low .. Candle(i).high
  BY <1>3, <1>6 DEF P
<1> DEFINE prices == {ts[k].price : k \in DOMAIN ts}
           V == Volume(ts)
           T == Turnover(ts)
           low == Min(prices)
           high == Max(prices)
           vwap == (T + V \div 2) \div V
<1>11. 1 \in DOMAIN ts /\ Len(ts) \in DOMAIN ts
       /\ Head(ts) = ts[1] /\ Last(ts) = ts[Len(ts)] /\ Len(ts) \in Positive
  <2>1. ts \in Seq(TradeRow) /\ Len(ts) # 0
    BY <1>5, <1>10
  <2> QED
    BY <1>8, <2>1 DEF Last, Positive
<1>12. /\ low \in Positive /\ high \in Positive
       /\ \A k \in DOMAIN ts : low <= ts[k].price /\ ts[k].price <= high
  <2>1. prices \in SUBSET Int /\ prices # {} /\ prices \subseteq Positive
    BY <1>8, <1>11 DEF Positive
  <2>2. IsFiniteSet(prices)
    <3> DEFINE f == [k \in DOMAIN ts |-> ts[k].price]
    <3>1. prices = {f[k] : k \in DOMAIN f} /\ IsFiniteSet(DOMAIN f)
      BY <1>8
    <3> HIDE DEF prices, f
    <3> QED
      BY <3>1, ImageFinite
  <2>3. \A k \in DOMAIN ts : ts[k].price \in prices
    OBVIOUS
  <2> HIDE DEF prices
  <2> QED
    BY <2>1, <2>2, <2>3, Extremes
<1>13. V \in Positive /\ T \in Int /\ low * V <= T /\ T <= high * V
  <2> DEFINE f == [k \in DOMAIN ts |-> ts[k].price * ts[k].quantity]
             g == [k \in DOMAIN ts |-> ts[k].quantity]
  <2>1. V = SumFunctionOnSet(g, DOMAIN ts) /\ T = SumFunctionOnSet(f, DOMAIN ts)
    BY DEF Volume, Turnover, SumFunction
  <2>2. \A k \in DOMAIN ts : g[k] \in Positive /\ g[k] \in Nat /\ g[k] \in Int
    BY <1>8 DEF Positive
  <2>3. \A k \in DOMAIN ts : /\ f[k] \in Int /\ low * g[k] <= f[k] /\ f[k] <= high * g[k]
    <3>1. \A a, b, p \in Nat : a * p \in Int /\ (a <= b => a * p <= b * p)
      BY TradingAssumption, Trading!Products
    <3>2. SUFFICES ASSUME NEW k \in DOMAIN ts
          PROVE /\ f[k] \in Int /\ low * g[k] <= f[k] /\ f[k] <= high * g[k]
      OBVIOUS
    <3> DEFINE p == ts[k].price
               q == ts[k].quantity
    <3>3. f[k] = p * q /\ g[k] = q
      OBVIOUS
    <3>4. p \in Nat /\ q \in Nat /\ low \in Nat /\ high \in Nat /\ low <= p /\ p <= high
      BY <1>8, <1>12 DEF Positive
    <3> HIDE DEF p, q, f, g, low, high
    <3> QED
      BY <3>1, <3>3, <3>4
  <2> HIDE DEF f, g
  <2>4. V \in Nat /\ g[1] <= V
    BY <1>8, <1>11, <2>1, <2>2, SumNat
  <2>5. V \in Positive
    BY <1>11, <2>2, <2>4 DEF Positive
  <2>6. T \in Int
    BY <1>8, <2>1, <2>3, SumInt
  <2>7. low \in Int /\ high \in Int
    BY <1>12 DEF Positive
  <2>8. low * V <= T /\ T <= high * V
    <3> HIDE DEF low, high, V, T
    <3> QED
      BY <1>8, <2>1, <2>2, <2>3, <2>7, SumBetween
  <2> QED
    BY <2>5, <2>6, <2>8
<1> HIDE DEF V, T, low, high
<1>14. vwap \in low .. high /\ vwap \in Nat
  <2>1. low \in Int /\ high \in Int /\ V \in Int /\ V > 0 /\ T \in Int /\ low >= 0
    BY <1>12, <1>13 DEF Positive
  <2> DEFINE h == V \div 2
  <2>2. h \in Int /\ 0 <= h /\ h < V
    BY <2>1
  <2> HIDE DEF h
  <2>3. \A x, v, b \in Int : v > 0 /\ b * v <= x => b <= x \div v
    OBVIOUS
  <2>4. \A x, v, b \in Int : v > 0 /\ x < (b + 1) * v => x \div v <= b
    OBVIOUS
  <2>5. (high + 1) * V = high * V + V /\ high * V \in Int
    BY <2>1
  <2>6. low * V <= T + h
    BY <1>13, <2>1, <2>2
  <2>7. T + h < (high + 1) * V
    BY <1>13, <2>1, <2>2, <2>5
  <2>8. T + h \in Int /\ (T + h) \div V \in Int
    BY <2>1, <2>2
  <2>9. low <= (T + h) \div V
    BY <2>1, <2>3, <2>6, <2>8
  <2>10. (T + h) \div V <= high
    BY <2>1, <2>4, <2>7, <2>8
  <2> QED
    BY <2>1, <2>8, <2>9, <2>10 DEF h
<1>15. Candle(i) = [item |-> i, tick |-> ThisTick, open |-> Head(ts).price,
                    close |-> Last(ts).price, high |-> high, low |-> low,
                    volume |-> V, count |-> Len(ts), vwap |-> vwap]
  BY <1>3 DEF Candle, high, low, V, T
<1> HIDE DEF vwap, prices
<1>16. /\ Head(ts).price \in Positive /\ Head(ts).price \in low .. high
       /\ Last(ts).price \in Positive /\ Last(ts).price \in low .. high
  BY <1>8, <1>11, <1>12 DEF Positive
<1>17. ThisTick \in Nat /\ V = TradedVolume(i, ThisTick)
  BY <1>9 DEF ThisTick, V
<1>18. Candle(i) \in CandleRow
  BY <1>11, <1>12, <1>13, <1>14, <1>15, <1>16, <1>17 DEF CandleRow
<1> QED
  BY <1>14, <1>15, <1>16, <1>17, <1>18

\* upsertMarketCandlesForTick.
LEMMA UpsertCandlesDoes ==
    ASSUME Typed, clock \in Nat, UpsertCandles
    PROVE  /\ candles' \in CandleSets
           /\ candles' = {row \in candles : row.tick # ThisTick}
                            \cup {Candle(i) : i \in {j \in Items : TradesInTick(j) # <<>>}}
<1> DEFINE old == {row \in candles : row.tick # ThisTick}
           traded == {j \in Items : TradesInTick(j) # <<>>}
           new == {Candle(i) : i \in traded}
<1>1. candles' = old \cup new
  BY DEF UpsertCandles
<1>2. old \subseteq CandleRow /\ IsFiniteSet(old)
  BY FS_Subset DEF Typed, CandleSets
<1>3. new \subseteq CandleRow
  BY CandleDoes
<1>4. IsFiniteSet(new)
  <2>1. IsFiniteSet(traded)
    BY AmountsAssumption, FS_Subset
  <2> DEFINE f == [i \in traded |-> Candle(i)]
  <2>2. new = {f[i] : i \in DOMAIN f} /\ IsFiniteSet(DOMAIN f)
    BY <2>1
  <2> HIDE DEF traded, new, f
  <2> QED
    BY <2>2, ImageFinite
<1> HIDE DEF old, new
<1>5. IsFiniteSet(old \cup new)
  BY <1>2, <1>4, FS_Union
<1> QED
  BY <1>1, <1>2, <1>3, <1>5 DEF CandleSets, old, new

-----------------------------------------------------------------------------
(* What the loops of a tick work off.                                      *)

\* Matches whose orders there are.
PlacedMatches == {m \in Trading!Match : m.buy \in DOMAIN orders /\ m.sell \in DOMAIN orders}

\* The plan of the market names orders there are.
LEMMA MatchesPlaced ==
    ASSUME Typed
    PROVE  PlanMatches \in Seq(PlacedMatches)
<1>1. orders \in Trading!Books
  BY DEF Typed, Trading!Books, BookRow
<1>2. PlanMatches = Trading!PlanMatches
  <2>1. \A S : Cardinality(S) = Trading!Cardinality(S)
    BY DEF Cardinality, Trading!Cardinality
  <2>2. \A S : SetToSeq(S) = Trading!SetToSeq(S)
    BY <2>1 DEF SetToSeq, Trading!SetToSeq, IsInjective, Trading!IsInjective
  <2>3. \A seqs : FlattenSeq(seqs) = Trading!FlattenSeq(seqs)
    BY DEF FlattenSeq, Trading!FlattenSeq
  <2>4. ASSUME NEW i PROVE PlanOrderMatches(orders, i) = Trading!PlanOrderMatches(orders, i)
    BY <2>1, ZenonT(60) DEF PlanOrderMatches, Trading!PlanOrderMatches, NextMatch, Trading!NextMatch,
                BidFirst, Trading!BidFirst, AskFirst, Trading!AskFirst, Older, Trading!Older,
                Crosses, Trading!Crosses, OpenOrders, Trading!OpenOrders,
                ExecutionPrice, Trading!ExecutionPrice, Smaller, Trading!Smaller
  <2> QED
    BY <2>2, <2>3, <2>4 DEF PlanMatches, Trading!PlanMatches
<1>3. PICK L : Trading!Schedule(orders, PlanMatches, L)
  BY <1>1, <1>2, TradingAssumption, Trading!PlanIsScheduled
<1> DEFINE ms == PlanMatches
<1>4. ms \in Seq(Trading!Match) /\ \A k \in 1 .. Len(ms) :
         Trading!Fits(orders, orders[ms[k].buy].item, L[k], ms[k])
  BY <1>3 DEF Trading!Schedule
<1> HIDE DEF ms
<1>5. \A k \in 1 .. Len(ms) : ms[k] \in PlacedMatches
  BY <1>4 DEF Trading!Fits, Trading!Bids, Trading!Asks, PlacedMatches, Trading!OpenOrders
<1>6. Len(ms) \in Nat /\ ms \in [1 .. Len(ms) -> PlacedMatches]
  BY <1>4, <1>5
<1>7. ms \in Seq(PlacedMatches)
  BY <1>6
<1> QED
  BY <1>7 DEF ms

\* settleMatch, with the trade it enters.
LEMMA SettleDoes ==
    ASSUME Typed, clock \in Nat, NEW m \in PlacedMatches, Settle(m), StillOpen(m)
    PROVE  \E row \in TradeRow :
              /\ row.item = orders[m.buy].item /\ row.quantity = m.quantity /\ row.tick = ThisTick
              /\ trades' = Append(trades, row) /\ trades' \in Seq(TradeRow)
              /\ Settlement(m, orders[m.buy].company, orders[m.sell].company, orders[m.buy].item,
                            m.quantity, Notional(m), Reduction(m))
<1> DEFINE row == [item |-> orders[m.buy].item, price |-> m.price, quantity |-> m.quantity,
                   tick |-> ThisTick]
<1>1. CanSettle(m) /\ SettleRows(m) /\ trades' = Append(trades, row)
  BY DEF Settle
<1>2. MatchHolds(m) /\ m \in Trading!Match /\ m.buy \in DOMAIN orders /\ m.sell \in DOMAIN orders
  BY <1>1 DEF CanSettle, PlacedMatches
<1>3. Settlement(m, orders[m.buy].company, orders[m.sell].company, orders[m.buy].item,
                 m.quantity, Notional(m), Reduction(m))
  BY <1>1, <1>2, SettleRowsDoes
<1>4. row \in TradeRow
  <2>1. orders[m.buy] \in BookRow
    BY <1>2, RowsOfTable DEF Typed
  <2>2. orders[m.buy].item \in Items
    BY <2>1, BookFields
  <2>3. m.price \in Positive /\ m.quantity \in Positive
    BY <1>2 DEF Trading!Match, Positive
  <2>4. ThisTick \in Nat
    BY DEF ThisTick
  <2> QED
    BY <2>2, <2>3, <2>4 DEF TradeRow
<1>5. row.item = orders[m.buy].item /\ row.quantity = m.quantity /\ row.tick = ThisTick
  OBVIOUS
<1> HIDE DEF row
<1>6. trades' \in Seq(TradeRow)
  BY <1>1, <1>4 DEF Typed
<1> QED
  BY <1>1, <1>3, <1>4, <1>5, <1>6

\* What is due in this tick: payments for buildings, jobs, research, people and
\* shipments.
ToCharge == {b \in DOMAIN buildings : buildings[b].status = "ACTIVE"
                                      /\ buildings[b].paid <= ThisTick - CostInterval}
ToFinish == {j \in DOMAIN jobs : jobs[j].status = "IN_PROGRESS" /\ jobs[j].due <= ThisTick}
ToPublish == {j \in DOMAIN labs : labs[j].status = "RUNNING" /\ labs[j].completes <= ThisTick}
ToWelcome == {h \in DOMAIN hires : hires[h].applied = 0 /\ hires[h].arrives <= ThisTick}
ToUnload == {s \in DOMAIN shipments : shipments[s].status = "IN_TRANSIT"
                                      /\ shipments[s].arrives <= ThisTick}
ToWithdraw == {o \in DOMAIN orders : orders[o].status = "OPEN" /\ orders[o].company \in Traders}

\* Rows of a table are numbered, and finitely many.
LEMMA PlacesOf ==
    ASSUME NEW R, NEW rows \in Seq(R), NEW S \in SUBSET DOMAIN rows
    PROVE  S \in SUBSET Nat /\ IsFiniteSet(S)
BY RowsOfTable, FS_Subset

\* The loops of the tick list exactly what is due.
LEMMA CostsDueListed ==
    ASSUME Typed
    PROVE  Lists(CostsDue, ToCharge)
<1> DEFINE t == [b \in ToCharge |-> 0]
           S == ToCharge
           Sooner(x) == {y \in S : 0 < 0 \/ (0 = 0 /\ y < x)}
           Earlier(x) == {y \in S : t[y] < t[x] \/ (t[y] = t[x] /\ y < x)}
<1>1. CostsDue = [k \in 1 .. Cardinality(S) |-> CHOOSE x \in S : Cardinality(Sooner(x)) = k - 1]
  BY DEF CostsDue, InOrderOf, Ranked, ToCharge
<1>2. \A x \in S : Sooner(x) = Earlier(x)
  OBVIOUS
<1>3. S \in SUBSET Nat /\ IsFiniteSet(S)
  BY PlacesOf DEF ToCharge, Typed
<1>4. \A x \in S : t[x] \in Int
  OBVIOUS
<1>5. ByTime(S, t) = [k \in 1 .. Cardinality(S) |-> CHOOSE x \in S : Cardinality(Earlier(x)) = k - 1]
  BY DEF ByTime
<1> HIDE DEF S, t, Sooner, Earlier
<1>6. CostsDue = ByTime(S, t)
  BY <1>1, <1>2, <1>5
<1> QED
  BY <1>3, <1>4, <1>6, NumbersListed DEF S

\* The jobs that are due, each once.
LEMMA JobsDueListed ==
    ASSUME Typed
    PROVE  Lists(JobsDue, ToFinish)
<1> DEFINE t == [y \in DOMAIN jobs |-> jobs[y].due]
           S == ToFinish
           Sooner(x) == {y \in S : \/ jobs[y].due < jobs[x].due
                                   \/ jobs[y].due = jobs[x].due /\ y < x}
           Earlier(x) == {y \in S : t[y] < t[x] \/ (t[y] = t[x] /\ y < x)}
<1>1. JobsDue = [k \in 1 .. Cardinality(S) |-> CHOOSE x \in S : Cardinality(Sooner(x)) = k - 1]
  BY DEF JobsDue, InOrderOf, Ranked, ToFinish
<1>2. S \in SUBSET DOMAIN jobs
  BY DEF ToFinish
<1>3. S \in SUBSET Nat /\ IsFiniteSet(S)
  BY <1>2, PlacesOf DEF Typed
<1>4. \A x \in S : t[x] \in Int
  <2>1. \A x \in DOMAIN jobs : jobs[x] \in JobRow
    BY RowsOfTable DEF Typed
  <2> QED
    BY <1>2, <2>1 DEF JobRow
<1>5. ByTime(S, t) = [k \in 1 .. Cardinality(S) |-> CHOOSE x \in S : Cardinality(Earlier(x)) = k - 1]
  BY DEF ByTime
<1> HIDE DEF S
<1>6. \A x \in S : Sooner(x) = Earlier(x)
  BY <1>2
<1> HIDE DEF t, Sooner, Earlier
<1>7. JobsDue = ByTime(S, t)
  BY <1>1, <1>5, <1>6
<1> QED
  BY <1>3, <1>4, <1>7, NumbersListed DEF S

\* The research that is due, each once.
LEMMA LabsDueListed ==
    ASSUME Typed
    PROVE  Lists(LabsDue, ToPublish)
<1> DEFINE t == [y \in DOMAIN labs |-> labs[y].completes]
           S == ToPublish
           Sooner(x) == {y \in S : \/ labs[y].completes < labs[x].completes
                                   \/ labs[y].completes = labs[x].completes /\ y < x}
           Earlier(x) == {y \in S : t[y] < t[x] \/ (t[y] = t[x] /\ y < x)}
<1>1. LabsDue = [k \in 1 .. Cardinality(S) |-> CHOOSE x \in S : Cardinality(Sooner(x)) = k - 1]
  BY DEF LabsDue, InOrderOf, Ranked, ToPublish
<1>2. S \in SUBSET DOMAIN labs
  BY DEF ToPublish
<1>3. S \in SUBSET Nat /\ IsFiniteSet(S)
  BY <1>2, PlacesOf DEF Typed
<1>4. \A x \in S : t[x] \in Int
  <2>1. \A x \in DOMAIN labs : labs[x] \in LabRow
    BY RowsOfTable DEF Typed
  <2> QED
    BY <1>2, <2>1 DEF LabRow
<1>5. ByTime(S, t) = [k \in 1 .. Cardinality(S) |-> CHOOSE x \in S : Cardinality(Earlier(x)) = k - 1]
  BY DEF ByTime
<1> HIDE DEF S
<1>6. \A x \in S : Sooner(x) = Earlier(x)
  BY <1>2
<1> HIDE DEF t, Sooner, Earlier
<1>7. LabsDue = ByTime(S, t)
  BY <1>1, <1>5, <1>6
<1> QED
  BY <1>3, <1>4, <1>7, NumbersListed DEF S

\* The people who arrive, each hiring once.
LEMMA ArrivalsDueListed ==
    ASSUME Typed
    PROVE  Lists(ArrivalsDue, ToWelcome)
<1> DEFINE t == [y \in DOMAIN hires |-> hires[y].arrives]
           S == ToWelcome
           Sooner(x) == {y \in S : \/ hires[y].arrives < hires[x].arrives
                                   \/ hires[y].arrives = hires[x].arrives /\ y < x}
           Earlier(x) == {y \in S : t[y] < t[x] \/ (t[y] = t[x] /\ y < x)}
<1>1. ArrivalsDue = [k \in 1 .. Cardinality(S) |-> CHOOSE x \in S : Cardinality(Sooner(x)) = k - 1]
  BY DEF ArrivalsDue, InOrderOf, Ranked, ToWelcome
<1>2. S \in SUBSET DOMAIN hires
  BY DEF ToWelcome
<1>3. S \in SUBSET Nat /\ IsFiniteSet(S)
  BY <1>2, PlacesOf DEF Typed
<1>4. \A x \in S : t[x] \in Int
  <2>1. \A x \in DOMAIN hires : hires[x] \in HireRow
    BY RowsOfTable DEF Typed
  <2> QED
    BY <1>2, <2>1 DEF HireRow
<1>5. ByTime(S, t) = [k \in 1 .. Cardinality(S) |-> CHOOSE x \in S : Cardinality(Earlier(x)) = k - 1]
  BY DEF ByTime
<1> HIDE DEF S
<1>6. \A x \in S : Sooner(x) = Earlier(x)
  BY <1>2
<1> HIDE DEF t, Sooner, Earlier
<1>7. ArrivalsDue = ByTime(S, t)
  BY <1>1, <1>5, <1>6
<1> QED
  BY <1>3, <1>4, <1>7, NumbersListed DEF S

\* The shipments that arrive, each once.
LEMMA ShipmentsDueListed ==
    ASSUME Typed
    PROVE  Lists(ShipmentsDue, ToUnload)
<1> DEFINE t == [y \in DOMAIN shipments |-> shipments[y].arrives]
           S == ToUnload
           Sooner(x) == {y \in S : \/ shipments[y].arrives < shipments[x].arrives
                                   \/ shipments[y].arrives = shipments[x].arrives /\ y < x}
           Earlier(x) == {y \in S : t[y] < t[x] \/ (t[y] = t[x] /\ y < x)}
<1>1. ShipmentsDue = [k \in 1 .. Cardinality(S) |-> CHOOSE x \in S : Cardinality(Sooner(x)) = k - 1]
  BY DEF ShipmentsDue, InOrderOf, Ranked, ToUnload
<1>2. S \in SUBSET DOMAIN shipments
  BY DEF ToUnload
<1>3. S \in SUBSET Nat /\ IsFiniteSet(S)
  BY <1>2, PlacesOf DEF Typed
<1>4. \A x \in S : t[x] \in Int
  <2>1. \A x \in DOMAIN shipments : shipments[x] \in ShipmentRow
    BY RowsOfTable DEF Typed
  <2> QED
    BY <1>2, <2>1 DEF ShipmentRow
<1>5. ByTime(S, t) = [k \in 1 .. Cardinality(S) |-> CHOOSE x \in S : Cardinality(Earlier(x)) = k - 1]
  BY DEF ByTime
<1> HIDE DEF S
<1>6. \A x \in S : Sooner(x) = Earlier(x)
  BY <1>2
<1> HIDE DEF t, Sooner, Earlier
<1>7. ShipmentsDue = ByTime(S, t)
  BY <1>1, <1>5, <1>6
<1> QED
  BY <1>3, <1>4, <1>7, NumbersListed DEF S

\* The orders of trading bots that are open, each once.
LEMMA TraderOrdersListed ==
    ASSUME Typed
    PROVE  Lists(TraderOrders, ToWithdraw)
<1>1. ToWithdraw \in SUBSET Nat /\ IsFiniteSet(ToWithdraw)
  BY PlacesOf DEF ToWithdraw, Typed
<1>2. TraderOrders = Ranked(ToWithdraw, <)
  BY DEF TraderOrders, ToWithdraw
<1> QED
  BY <1>1, <1>2, RankedListed

-----------------------------------------------------------------------------
(* What the bots plan.                                                     *)

WishSet == [item : Items, side : {"BUY", "SELL"}, quantity : Positive, price : Positive]
QuoteActions == [company : Traders, wish : WishSet]
ProducerActions == [company : Npcs \ Traders, recipes : Seq(Recipes)]
BotActions == QuoteActions \cup ProducerActions

\* What the plan of a trader is told of an item, and what it keeps track of.
SnapshotSet == [item : Items, reference : Positive, available : Int, openBuy : BOOLEAN,
                openSell : BOOLEAN, ownBuy : Nat, ownSell : Nat, othersBuy : Nat, othersSell : Nat]
WantSet == [orders : Seq(WishSet), cash : Int, room : Int, buyBudget : Int, sellBudget : Int]

\* The kinds of actions differ.
LEMMA BotActionKinds ==
    ASSUME NEW a \in BotActions
    PROVE  /\ IsOrder(a) => a \in QuoteActions
           /\ ~IsOrder(a) => a \in ProducerActions
BY DEF BotActions, QuoteActions, ProducerActions, IsOrder

\* The best price of a side is a price, or there is none.
LEMMA BestPriceTyped ==
    ASSUME Typed, NEW i, NEW side, NEW whose
    PROVE  BestPrice(i, side, whose) \in Nat
<1> DEFINE S == {b \in OpenOrders(orders, i, side) : orders[b].company \in whose}
           prices == {orders[o].price : o \in S}
           f == [o \in S |-> orders[o].price]
<1>1. S \in SUBSET DOMAIN orders
  BY DEF OpenOrders
<1>2. IsFiniteSet(S) /\ \A o \in S : orders[o].price \in Positive
  <2>1. \A o \in DOMAIN orders : orders[o] \in BookRow
    BY RowsOfTable DEF Typed
  <2>2. \A o \in DOMAIN orders : orders[o].price \in Positive
    BY <2>1, BookFields
  <2> HIDE DEF S
  <2> QED
    BY <1>1, <2>2, PlacesOf DEF Typed
<1>3. BestPrice(i, side, whose) = IF prices = {} THEN None
                                  ELSE IF side = "BUY" THEN Max(prices) ELSE Min(prices)
  BY DEF BestPrice
<1> HIDE DEF S
<1>4. prices \subseteq Positive
  BY <1>2
<1>5. prices = {f[o] : o \in DOMAIN f} /\ IsFiniteSet(DOMAIN f)
  BY <1>2
<1> HIDE DEF prices, f
<1>6. IsFiniteSet(prices)
  BY <1>5, ImageFinite
<1>7. prices \in SUBSET Int
  BY <1>4 DEF Positive
<1>8. prices # {} => Max(prices) \in prices /\ Min(prices) \in prices
  <2>1. SUFFICES ASSUME prices # {} PROVE Max(prices) \in prices /\ Min(prices) \in prices
    OBVIOUS
  <2> QED
    BY <1>6, <1>7, <2>1, Extremes
<1>9. None \in Nat /\ (prices # {} => Max(prices) \in Nat /\ Min(prices) \in Nat)
  BY <1>4, <1>8 DEF None, Positive
<1> QED
  BY <1>3, <1>9, Zenon

\* resolveReferencePrice finds a price.
LEMMA ReferenceTyped ==
    ASSUME Typed, NEW i \in Items
    PROVE  Reference(i) \in Positive
<1> DEFINE prices == PricesOf(i)
           bid == BestPrice(i, "BUY", Companies)
           ask == BestPrice(i, "SELL", Companies)
<1>1. bid \in Nat /\ ask \in Nat
  BY BestPriceTyped
<1>2. prices # <<>> => Last(prices) \in Positive
  <2>1. prices \in Seq(Positive) /\ Len(prices) \in Nat
        /\ \A k \in DOMAIN prices : prices[k] \in Positive
    BY PricesTyped
  <2> HIDE DEF prices
  <2>2. prices # <<>> => Len(prices) \in DOMAIN prices
    BY <2>1
  <2> QED
    BY <2>1, <2>2 DEF Last
<1>3. DefaultReference[i] \in Positive
  BY BotsAssumption DEF Positive
<1>4. Reference(i) = IF prices # <<>> THEN Last(prices)
                     ELSE IF bid # None /\ ask # None THEN (bid + ask) \div 2
                     ELSE IF bid # None THEN bid
                     ELSE IF ask # None THEN ask ELSE DefaultReference[i]
  BY DEF Reference
<1> HIDE DEF prices, bid, ask
<1>5. bid # None /\ ask # None => (bid + ask) \div 2 \in Positive
  BY <1>1 DEF None, Positive
<1> QED
  BY <1>1, <1>2, <1>3, <1>4, <1>5 DEF None, Positive

\* runBotsForTick tells the plan of an item: prices, and what is free of it.
LEMMA SnapshotTyped ==
    ASSUME Typed, NEW c \in Npcs, NEW i \in Items
    PROVE  Snapshot(c, i) \in SnapshotSet
<1> DEFINE free == Clamp(AvailableStock(c, i), 0, stock[c][i].quantity)
<1>1. free \in Int
  <2>1. c \in Companies
    BY NpcsAssumption
  <2>2. stock[c][i].quantity \in Int /\ AvailableStock(c, i) \in Int
    BY <2>1, TypedBalances DEF AvailableStock
  <2>3. 0 \in Int
    OBVIOUS
  <2> QED
    BY <2>2, <2>3, Clamped, Zenon
<1>2. Reference(i) \in Positive
  BY ReferenceTyped
<1>3. \A side, whose : BestPrice(i, side, whose) \in Nat
  BY BestPriceTyped
<1> HIDE DEF free
<1>4. Snapshot(c, i) =
        [item |-> i, reference |-> Reference(i), available |-> free,
         openBuy |-> BestPrice(i, "BUY", {c}) # None, openSell |-> BestPrice(i, "SELL", {c}) # None,
         ownBuy |-> BestPrice(i, "BUY", {c}), ownSell |-> BestPrice(i, "SELL", {c}),
         othersBuy |-> BestPrice(i, "BUY", Companies \ {c}),
         othersSell |-> BestPrice(i, "SELL", Companies \ {c})]
  BY DEF Snapshot, free
<1> QED
  BY <1>1, <1>2, <1>3, <1>4 DEF SnapshotSet

\* An order is wished for at a price, and for some items.
LEMMA BuyTyped ==
    ASSUME NEW w \in WantSet, NEW x \in SnapshotSet, NEW price \in Positive, NEW desired \in Int
    PROVE  Buy(w, x, price, desired) \in WantSet
<1> DEFINE n == CapByNotional(w.buyBudget, price, Least(desired, w.cash \div price))
           wish == [item |-> x.item, side |-> "BUY", quantity |-> n, price |-> price]
<1>1. w.orders \in Seq(WishSet) /\ w.cash \in Int /\ w.buyBudget \in Int /\ w.sellBudget \in Int
      /\ w.room \in Int /\ x.item \in Items
  BY DEF WantSet, SnapshotSet
<1>2. n \in Int
  <2>1. w.cash \div price \in Int /\ w.buyBudget \div price \in Int
    BY <1>1, Quotients
  <2> QED
    BY <2>1 DEF CapByNotional, Least
<1>3. Buy(w, x, price, desired) =
        IF n <= 0 THEN w
        ELSE [w EXCEPT !.orders = Append(w.orders, wish), !.buyBudget = w.buyBudget - n * price,
                       !.cash = w.cash - n * price]
  BY DEF Buy, Wish
<1> HIDE DEF n
<1>4. CASE n <= 0
  BY <1>3, <1>4
<1>5. CASE ~(n <= 0)
  <2>1. wish \in WishSet
    BY <1>1, <1>2, <1>5 DEF WishSet, Positive
  <2> HIDE DEF wish
  <2> DEFINE cost == n * price
  <2>2. cost \in Int
    BY <1>2, Quotients DEF Positive
  <2> HIDE DEF cost
  <2>3. Append(w.orders, wish) \in Seq(WishSet)
    BY <1>1, <2>1
  <2>4. w.buyBudget - cost \in Int /\ w.cash - cost \in Int
    BY <1>1, <2>2
  <2>5. Buy(w, x, price, desired) =
          [w EXCEPT !.orders = Append(w.orders, wish), !.buyBudget = w.buyBudget - cost,
                    !.cash = w.cash - cost]
    BY <1>3, <1>5 DEF cost
  <2> QED
    BY <2>3, <2>4, <2>5 DEF WantSet
<1> QED
  BY <1>4, <1>5, <1>2

\* Selling keeps the wishes, the cash and the budgets typed.
LEMMA SellTyped ==
    ASSUME NEW w \in WantSet, NEW x \in SnapshotSet, NEW price \in Positive, NEW desired \in Int
    PROVE  Sell(w, x, price, desired) \in WantSet
<1> DEFINE n == CapByNotional(w.sellBudget, price, Least(desired, x.available))
           wish == [item |-> x.item, side |-> "SELL", quantity |-> n, price |-> price]
<1>1. w.orders \in Seq(WishSet) /\ w.cash \in Int /\ w.buyBudget \in Int /\ w.sellBudget \in Int
      /\ w.room \in Int /\ x.item \in Items /\ x.available \in Int
  BY DEF WantSet, SnapshotSet
<1>2. n \in Int
  <2>1. w.sellBudget \div price \in Int
    BY <1>1, Quotients
  <2> QED
    BY <1>1, <2>1 DEF CapByNotional, Least
<1>3. Sell(w, x, price, desired) =
        IF n <= 0 THEN w
        ELSE [w EXCEPT !.orders = Append(w.orders, wish), !.sellBudget = w.sellBudget - n * price]
  BY DEF Sell, Wish
<1> HIDE DEF n
<1>4. CASE n <= 0
  BY <1>3, <1>4
<1>5. CASE ~(n <= 0)
  <2>1. wish \in WishSet
    BY <1>1, <1>2, <1>5 DEF WishSet, Positive
  <2> HIDE DEF wish
  <2> DEFINE cost == n * price
  <2>2. cost \in Int
    BY <1>2, Quotients DEF Positive
  <2> HIDE DEF cost
  <2>3. Append(w.orders, wish) \in Seq(WishSet)
    BY <1>1, <2>1
  <2>4. w.sellBudget - cost \in Int
    BY <1>1, <2>2
  <2>5. Sell(w, x, price, desired) =
          [w EXCEPT !.orders = Append(w.orders, wish), !.sellBudget = w.sellBudget - cost]
    BY <1>3, <1>5 DEF cost
  <2> QED
    BY <2>3, <2>4, <2>5 DEF WantSet
<1> QED
  BY <1>4, <1>5, <1>2

\* What is quoted is a price.
LEMMA QuotesAreAt ==
    ASSUME NEW reference \in Positive
    PROVE  SellPrice(reference) \in Positive /\ BuyPrice(reference) \in Positive
<1> DEFINE up == Quoting.scale + Quoting.spread
           down == Quoting.scale - Quoting.spread
           a == (reference * up) \div Quoting.scale
           b == (reference * down) \div Quoting.scale
<1>1. Quoting.scale \in Positive /\ up \in Int /\ down \in Int /\ reference \in Int
  BY QuotingAssumption DEF Positive
<1>2. reference * up \in Int /\ reference * down \in Int
  BY <1>1, Quotients
<1>3. a \in Int /\ b \in Int
  BY <1>1, <1>2, Quotients
<1>4. SellPrice(reference) = (IF a > 0 THEN a ELSE 1) /\ BuyPrice(reference) = IF b > 0 THEN b ELSE 1
  BY DEF SellPrice, BuyPrice
<1> HIDE DEF a, b
<1> QED
  BY <1>3, <1>4 DEF Positive

\* One round of the loop of planLiquidityOrders.
LEMMA QuoteItemTyped ==
    ASSUME NEW w \in WantSet, NEW x \in SnapshotSet
    PROVE  QuoteItem(w, x) \in WantSet
<1> DEFINE sellAt == SellPrice(x.reference)
           buyAt == BuyPrice(x.reference)
           sell == IF x.openSell THEN w ELSE Sell(w, x, sellAt, Quoting.target)
           both == IF x.openBuy THEN sell ELSE Buy(sell, x, buyAt, Quoting.target)
           taken == IF both = sell /\ Takes(x)
                    THEN Buy(both, x, x.othersSell, Least(1, both.room)) ELSE both
           room == IF taken = both THEN both.room ELSE both.room - 1
           hit == IF sell = w /\ Hits(x) THEN Sell(taken, x, x.othersBuy, 1) ELSE taken
           ownSell == IF x.ownSell # None THEN x.ownSell ELSE IF sell # w THEN sellAt ELSE None
           crossed == IF taken = both /\ ownSell # None THEN Buy(hit, x, ownSell, 1) ELSE hit
<1>1. /\ x.reference \in Positive /\ x.othersSell \in Nat /\ x.othersBuy \in Nat
      /\ x.ownSell \in Nat /\ x.ownBuy \in Nat
  BY DEF SnapshotSet
<1>2. Quoting.target \in Int /\ Quoting.scale \in Positive /\ Quoting.spread \in Int
  BY QuotingAssumption DEF Positive
<1>3. sellAt \in Positive /\ buyAt \in Positive
  BY <1>1, QuotesAreAt
<1> HIDE DEF sellAt, buyAt
<1>4. sell \in WantSet
  BY <1>2, <1>3, SellTyped
<1> HIDE DEF sell
<1>5. both \in WantSet
  BY <1>2, <1>3, <1>4, BuyTyped
<1> HIDE DEF both
<1>6. both.room \in Int
  BY <1>5 DEF WantSet
<1>7. taken \in WantSet
  <2>1. Takes(x) => x.othersSell \in Positive
    BY <1>1 DEF Takes, None, Positive
  <2>2. Least(1, both.room) \in Int
    BY <1>6 DEF Least
  <2> QED
    BY <1>5, <2>1, <2>2, BuyTyped
<1> HIDE DEF taken
<1>8. hit \in WantSet
  <2>1. Hits(x) => x.othersBuy \in Positive
    BY <1>1 DEF Hits, None, Positive
  <2> QED
    BY <1>7, <2>1, SellTyped
<1> HIDE DEF hit
<1>9. ownSell # None => ownSell \in Positive
  BY <1>1, <1>3 DEF None, Positive
<1> HIDE DEF ownSell
<1>10. crossed \in WantSet
  BY <1>8, <1>9, BuyTyped
<1> HIDE DEF crossed
<1>11. room \in Int
  BY <1>6
<1>12. QuoteItem(w, x) = [crossed EXCEPT !.room = room]
  BY DEF QuoteItem, crossed, ownSell, hit, room, taken, both, sell, sellAt, buyAt
<1> HIDE DEF room
<1> QED
  BY <1>10, <1>11, <1>12 DEF WantSet

\* What the loop of planLiquidityOrders starts with, and its rounds.
QuoteStart(money, room) ==
    [orders |-> <<>>, cash |-> money, room |-> room,
     buyBudget |-> Quoting.maxNotional, sellBudget |-> Quoting.maxNotional]

AreQuotes(g, money, room, items, n) ==
    g = [k \in 0 .. n |-> IF k = 0 THEN QuoteStart(money, room) ELSE QuoteItem(g[k - 1], items[k])]

Quotes(money, room, items) == CHOOSE g : AreQuotes(g, money, room, items, Len(items))

\* The loop can run for any number of rounds.
LEMMA QuotesExist ==
    ASSUME NEW money, NEW room, NEW items
    PROVE  \A n \in Nat : \E g : AreQuotes(g, money, room, items, n)
<1> DEFINE T == {n \in Nat : \E g : AreQuotes(g, money, room, items, n)}
           a == QuoteStart(money, room)
<1>1. 0 \in T
  <2> DEFINE g == [k \in 0 .. 0 |-> a]
  <2>1. g = [k \in 0 .. 0 |-> IF k = 0 THEN a ELSE QuoteItem(g[k - 1], items[k])]
    OBVIOUS
  <2>2. AreQuotes(g, money, room, items, 0)
    BY <2>1 DEF AreQuotes
  <2> QED
    BY <2>2
<1>2. ASSUME NEW n \in Nat, n \in T PROVE n + 1 \in T
  <2>1. PICK g : AreQuotes(g, money, room, items, n)
    BY <1>2
  <2> DEFINE h == [k \in 0 .. n + 1 |-> IF k = 0 THEN a ELSE QuoteItem(g[k - 1], items[k])]
             body == [k \in 0 .. n |-> IF k = 0 THEN a ELSE QuoteItem(g[k - 1], items[k])]
  <2>2. g = body
    BY <2>1 DEF AreQuotes
  <2>3. \A k \in 0 .. n : h[k] = body[k]
    OBVIOUS
  <2>4. \A k \in 0 .. n : h[k] = g[k]
    <3> HIDE DEF h, body
    <3> QED
      BY <2>2, <2>3
  <2>5. \A k \in 0 .. n + 1 : k # 0 => k - 1 \in 0 .. n
    OBVIOUS
  <2>6. h = [k \in 0 .. n + 1 |-> IF k = 0 THEN a ELSE QuoteItem(h[k - 1], items[k])]
    BY <2>4, <2>5
  <2>7. AreQuotes(h, money, room, items, n + 1)
    BY <2>6 DEF AreQuotes
  <2> QED
    BY <2>7
<1> HIDE DEF T
<1>3. Nat \subseteq T
  BY <1>1, <1>2, NatSetInduction
<1> QED
  BY <1>3 DEF T

\* planLiquidityOrders returns orders that can be placed, whatever it is told.
LEMMA LiquidityOrdersTyped ==
    ASSUME NEW money \in Int, NEW room \in Int, NEW items \in Seq(SnapshotSet)
    PROVE  PlanLiquidityOrders(money, room, items) \in Seq(WishSet)
<1> DEFINE n == Len(items)
           g == Quotes(money, room, items)
           a == QuoteStart(money, room)
           body == [k \in 0 .. n |-> IF k = 0 THEN a ELSE QuoteItem(g[k - 1], items[k])]
           T == {k \in Nat : k <= n => g[k] \in WantSet}
<1>1. n \in Nat /\ \A k \in 1 .. n : items[k] \in SnapshotSet
  OBVIOUS
<1>2. PlanLiquidityOrders(money, room, items) = g[n].orders
  BY DEF PlanLiquidityOrders, Quotes, AreQuotes, QuoteStart
<1>3. a \in WantSet
  BY QuotingAssumption DEF QuoteStart, WantSet
<1> HIDE DEF n, a
<1>4. \E h : AreQuotes(h, money, room, items, n)
  BY <1>1, QuotesExist
<1>5. AreQuotes(g, money, room, items, n)
  BY <1>4 DEF Quotes, n
<1> HIDE DEF g
<1>6. g = body
  BY <1>5 DEF AreQuotes, a
<1>7. body[0] = a /\ \A k \in 1 .. n : body[k] = QuoteItem(g[k - 1], items[k])
  BY <1>1
<1> HIDE DEF body
<1>8. 0 \in T
  BY <1>3, <1>6, <1>7
<1>9. ASSUME NEW k \in Nat, k \in T PROVE k + 1 \in T
  <2>1. SUFFICES ASSUME k + 1 <= n PROVE g[k + 1] \in WantSet
    OBVIOUS
  <2>2. k + 1 \in 1 .. n /\ (k + 1) - 1 = k /\ k <= n
    BY <1>1, <2>1
  <2>3. g[k + 1] = QuoteItem(g[k], items[k + 1])
    BY <1>6, <1>7, <2>2
  <2> QED
    BY <1>1, <1>9, <2>2, <2>3, QuoteItemTyped
<1> HIDE DEF T
<1>10. Nat \subseteq T
  BY <1>8, <1>9, NatSetInduction
<1>11. g[n] \in WantSet
  BY <1>1, <1>10 DEF T
<1> QED
  BY <1>2, <1>11 DEF WantSet

\* calculateRegionalStorageCapacity counts.
LEMMA CapacityTyped ==
    ASSUME Typed, NEW c \in Companies, NEW region
    PROVE  CapacityIn(c, region) \in Nat
<1> DEFINE S == {b \in DOMAIN buildings :
                    /\ buildings[b].company = c /\ buildings[b].status = "ACTIVE"
                    /\ buildings[b].type = Warehouse /\ buildings[b].region = region}
<1>1. CapacityIn(c, region) = Capacity + WarehouseCapacity * Cardinality(S)
  BY DEF CapacityIn, ActiveBuildings
<1>2. IsFiniteSet(S)
  BY PlacesOf DEF Typed
<1> HIDE DEF S
<1>3. Cardinality(S) \in Nat
  BY <1>2, FS_CardinalityType
<1>4. WarehouseCapacity * Cardinality(S) \in Nat
  BY <1>3, BuildingsAssumption, TradingAssumption, Trading!Products
<1> QED
  BY <1>1, <1>4, AmountsAssumption

\* What a company stores is a number.
LEMMA StoredTyped ==
    ASSUME Typed, NEW c \in Companies
    PROVE  Stored(c) \in Nat /\ StoredIn(c, "home") = Stored(c) /\ StoredIn(c, "away") \in Nat
<1> DEFINE f == [i \in Items |-> stock[c][i].quantity]
           g == [i \in Items |-> depot[c][i]]
<1>1. /\ Stored(c) = SumFunctionOnSet(f, Items) /\ StoredIn(c, "home") = Stored(c)
      /\ StoredIn(c, "away") = SumFunctionOnSet(g, Items)
  BY DEF Stored, StoredIn, SumFunction
<1>2. \A i \in Items : f[i] \in Nat /\ g[i] \in Nat
  BY TypedBalances DEF Typed, DepotRows
<1> HIDE DEF f, g
<1>3. IsFiniteSet(Items)
  BY AmountsAssumption
<1>4. SumFunctionOnSet(f, Items) \in Nat
  BY <1>2, <1>3, SumNat
<1>5. SumFunctionOnSet(g, Items) \in Nat
  BY <1>2, <1>3, SumNat
<1> QED
  BY <1>1, <1>4, <1>5

\* The orders planned for a trader are actions of it.
LEMMA PlannedTyped ==
    ASSUME Typed, NEW c \in Traders
    PROVE  /\ PlannedFor(c) \in Seq(QuoteActions)
           /\ \A k \in DOMAIN PlannedFor(c) : PlannedFor(c)[k].company = c
<1> DEFINE items == SetToSeq(Items)
           room == Clamp(CapacityIn(c, "home") - Stored(c), 0, CapacityIn(c, "home"))
           told == [k \in DOMAIN items |-> Snapshot(c, items[k])]
           wishes == PlanLiquidityOrders(AvailableCash(c), room, told)
<1>1. c \in Companies /\ c \in Npcs
  BY NpcsAssumption, BotsAssumption
<1>2. AvailableCash(c) \in Int
  BY <1>1, TypedBalances DEF AvailableCash
<1>3. room \in Int
  <2>1. CapacityIn(c, "home") \in Int /\ CapacityIn(c, "home") - Stored(c) \in Int /\ 0 \in Int
    BY <1>1, CapacityTyped, StoredTyped
  <2> QED
    BY <2>1, Clamped, Zenon
<1>4. told \in Seq(SnapshotSet)
  <2> DEFINE n == Cardinality(Items)
  <2>1. n \in Nat /\ items \in [1 .. n -> Items]
    BY AmountsAssumption, SetListed
  <2> HIDE DEF n, items
  <2>2. DOMAIN items = 1 .. n /\ \A k \in 1 .. n : Snapshot(c, items[k]) \in SnapshotSet
    BY <1>1, <2>1, SnapshotTyped
  <2>3. told \in [1 .. n -> SnapshotSet]
    BY <2>2
  <2> HIDE DEF told
  <2> QED
    BY <2>1, <2>3
<1>5. PlannedFor(c) = [k \in DOMAIN wishes |-> [company |-> c, wish |-> wishes[k]]]
  BY DEF PlannedFor
<1> HIDE DEF room, told
<1>6. wishes \in Seq(WishSet)
  BY <1>2, <1>3, <1>4, LiquidityOrdersTyped
<1> HIDE DEF wishes
<1>7. \A k \in DOMAIN wishes : [company |-> c, wish |-> wishes[k]] \in QuoteActions
  <2>1. \A k \in DOMAIN wishes : wishes[k] \in WishSet
    BY <1>6
  <2> QED
    BY <2>1 DEF QuoteActions
<1>8. DOMAIN wishes = 1 .. Len(wishes) /\ Len(wishes) \in Nat
  BY <1>6
<1>9. PlannedFor(c) \in [1 .. Len(wishes) -> QuoteActions]
  BY <1>5, <1>7, <1>8
<1>10. PlannedFor(c) \in Seq(QuoteActions)
  BY <1>8, <1>9
<1>11. \A k \in DOMAIN PlannedFor(c) : PlannedFor(c)[k].company = c
  BY <1>5
<1> QED
  BY <1>10, <1>11

\* The recipes that pay, among all recipes.
LEMMA ProfitableTyped ==
    Selected(SetToSeq(Recipes), IsRecipeProfitable) \in Seq(Recipes)
<1> DEFINE recipes == SetToSeq(Recipes)
           P == {k \in DOMAIN recipes : IsRecipeProfitable(recipes[k])}
           places == Ranked(P, <)
           profitable == [k \in DOMAIN places |-> recipes[places[k]]]
<1>1. recipes \in Seq(Recipes)
  <2>1. Cardinality(Recipes) \in Nat /\ recipes \in [1 .. Cardinality(Recipes) -> Recipes]
    BY ResearchAssumption, SetListed
  <2> QED
    BY <2>1
<1>2. Selected(SetToSeq(Recipes), IsRecipeProfitable) = profitable
  BY DEF Selected
<1> HIDE DEF recipes
<1>3. P \in SUBSET DOMAIN recipes
  OBVIOUS
<1> HIDE DEF P
<1>4. P \in SUBSET Nat /\ IsFiniteSet(P)
  BY <1>1, <1>3, PlacesOf
<1>5. Lists(places, P)
  BY <1>4, RankedListed
<1> HIDE DEF places
<1>6. profitable \in Seq(Recipes)
  BY <1>1, <1>3, <1>5, PickedFrom
<1> QED
  BY <1>2, <1>6

\* planBotActions plans actions of bots.
LEMMA BotActionsTyped ==
    ASSUME Typed
    PROVE  PlanBotActions \in Seq(BotActions)
<1> DEFINE bots == SetToSeq(Traders)
           producers == SetToSeq(Npcs \ Traders)
           profitable == Selected(SetToSeq(Recipes), IsRecipeProfitable)
           quotes == [k \in DOMAIN bots |-> PlannedFor(bots[k])]
           starts == [k \in DOMAIN producers |-> [company |-> producers[k], recipes |-> profitable]]
           n == Cardinality(Traders)
           m == Cardinality(Npcs \ Traders)
<1>1. IsFiniteSet(Traders) /\ IsFiniteSet(Npcs \ Traders) /\ Traders \subseteq Npcs
  <2>1. Traders \subseteq Companies /\ Npcs \ Traders \subseteq Companies
    BY NpcsAssumption, BotsAssumption
  <2> QED
    BY <2>1, AmountsAssumption, BotsAssumption, FS_Subset
<1>2. n \in Nat /\ bots \in [1 .. n -> Traders] /\ m \in Nat /\ producers \in [1 .. m -> Npcs \ Traders]
  BY <1>1, SetListed
<1>3. profitable \in Seq(Recipes)
  BY ProfitableTyped
<1>4. PlanBotActions = FlattenSeq(quotes) \o starts
  BY DEF PlanBotActions
<1> HIDE DEF bots, producers, profitable, n, m
<1>5. quotes \in [1 .. n -> Seq(BotActions)]
  <2>1. \A k \in 1 .. n : PlannedFor(bots[k]) \in Seq(QuoteActions)
    BY <1>1, <1>2, PlannedTyped
  <2>2. Seq(QuoteActions) \subseteq Seq(BotActions)
    <3>1. QuoteActions \subseteq BotActions
      BY DEF BotActions
    <3> HIDE DEF quotes
    <3> QED
      BY <3>1
  <2> QED
    BY <1>2, <2>1, <2>2
<1>6. FlattenSeq(quotes) \in Seq(BotActions)
  <2> HIDE DEF quotes
  <2> QED
    BY <1>2, <1>5, FlattenTyped
<1>7. starts \in Seq(BotActions)
  <2>1. \A k \in 1 .. m : [company |-> producers[k], recipes |-> profitable] \in BotActions
    BY <1>2, <1>3 DEF BotActions, ProducerActions
  <2>2. starts \in [1 .. m -> BotActions]
    BY <1>2, <2>1
  <2> HIDE DEF starts
  <2> QED
    BY <1>2, <2>2
<1> HIDE DEF quotes, starts
<1> QED
  BY <1>4, <1>6, <1>7

\* runProducerBot: a job is started, or nothing happens.
LEMMA ProduceDoes ==
    ASSUME Typed, clock \in Nat, NEW a \in ProducerActions, Produce(a)
    PROVE  \/ UNCHANGED <<Tables, jobs>>
           \/ \E r \in Recipes : StartJob(a.company, r, 1, ThisTick)
<1> DEFINE s == a.recipes
           P == {k \in DOMAIN s : CanProduce(a.company, s[k], 1)}
           places == Ranked(P, <)
           startable == [k \in DOMAIN places |-> s[places[k]]]
<1>1. s \in Seq(Recipes)
  BY DEF ProducerActions
<1>2. Startable(a) = startable
  BY DEF Startable, Selected
<1>3. \/ UNCHANGED <<Tables, jobs>>
      \/ Startable(a) # <<>> /\ StartJob(a.company, Head(Startable(a)), 1, ThisTick)
  BY DEF Produce
<1>4. P \in SUBSET DOMAIN s
  OBVIOUS
<1> HIDE DEF s, P
<1>5. P \in SUBSET Nat /\ IsFiniteSet(P)
  BY <1>1, <1>4, PlacesOf
<1>6. Lists(places, P)
  BY <1>5, RankedListed
<1> HIDE DEF places
<1>7. startable \in Seq(Recipes)
  BY <1>1, <1>4, <1>6, PickedFrom
<1> HIDE DEF startable
<1>8. startable # <<>> => Head(startable) \in Recipes
  BY <1>7
<1> QED
  BY <1>2, <1>3, <1>8

-----------------------------------------------------------------------------
(* What the bots can afford.                                               *)

\* What an order that a bot wishes for takes: cash when it buys, and units of
\* its item when it sells.
WishNeed(wish, i, side) ==
    IF wish.side # side THEN 0
    ELSE IF side = "BUY" THEN wish.quantity * wish.price
    ELSE IF wish.item = i THEN wish.quantity ELSE 0

WishNeeds(wishes, i, side) == [k \in DOMAIN wishes |-> WishNeed(wishes[k], i, side)]

\* The needs of wishes are numbers, in the order of the wishes.
LEMMA WishNeedsTyped ==
    ASSUME NEW wishes \in Seq(WishSet), NEW i, NEW side
    PROVE  /\ WishNeeds(wishes, i, side) \in Seq(Nat)
           /\ \A wish \in WishSet :
                 /\ WishNeed(wish, i, side) \in Nat
                 /\ WishNeeds(Append(wishes, wish), i, side)
                       = Append(WishNeeds(wishes, i, side), WishNeed(wish, i, side))
<1>1. ASSUME NEW wish \in WishSet PROVE WishNeed(wish, i, side) \in Nat
  <2>1. wish.quantity \in Positive /\ wish.price \in Positive
    BY DEF WishSet
  <2>2. wish.quantity * wish.price \in Positive
    BY <2>1, Quotients
  <2> QED
    BY <2>1, <2>2 DEF WishNeed, Positive
<1>2. Len(wishes) \in Nat /\ DOMAIN wishes = 1 .. Len(wishes) /\ \A k \in DOMAIN wishes : wishes[k] \in WishSet
  BY RowsOfTable
<1>3. WishNeeds(wishes, i, side) \in Seq(Nat) /\ Len(WishNeeds(wishes, i, side)) = Len(wishes)
  <2>1. WishNeeds(wishes, i, side) \in [1 .. Len(wishes) -> Nat]
    BY <1>1, <1>2 DEF WishNeeds
  <2> QED
    BY <1>2, <2>1
<1>4. ASSUME NEW wish \in WishSet
      PROVE  WishNeeds(Append(wishes, wish), i, side)
                = Append(WishNeeds(wishes, i, side), WishNeed(wish, i, side))
  <2> DEFINE n == Len(wishes)
             longer == Append(wishes, wish)
             s == WishNeeds(wishes, i, side)
             t == Append(s, WishNeed(wish, i, side))
  <2>1. /\ DOMAIN longer = 1 .. n + 1 /\ longer[n + 1] = wish
        /\ \A k \in 1 .. n : longer[k] = wishes[k]
    BY <1>2
  <2>2. \A k \in 1 .. n : s[k] = WishNeed(wishes[k], i, side)
    BY <1>2 DEF WishNeeds
  <2>3. WishNeeds(longer, i, side) = [k \in 1 .. n + 1 |-> WishNeed(longer[k], i, side)]
    BY <2>1 DEF WishNeeds
  <2> HIDE DEF longer, s
  <2>4. s \in Seq(Nat) /\ Len(s) = n
    BY <1>3 DEF s
  <2> HIDE DEF n
  <2> DEFINE need == WishNeed(wish, i, side)
  <2>9. need \in Nat
    BY <1>1
  <2> HIDE DEF need
  <2>10. /\ Append(s, need) = [k \in 1 .. n + 1 |-> Append(s, need)[k]]
         /\ Append(s, need)[n + 1] = need
         /\ \A k \in 1 .. n + 1 : k # n + 1 => Append(s, need)[k] = s[k]
    <3> DEFINE u == Append(s, need)
    <3>1. /\ u \in Seq(Nat) /\ Len(u) = Len(s) + 1 /\ DOMAIN s = 1 .. Len(s)
          /\ \A k \in DOMAIN s : u[k] = s[k]
          /\ u[Len(s) + 1] = need
      BY <2>4, <2>9, RowAdded
    <3> HIDE DEF u
    <3>2. u = [k \in 1 .. Len(u) |-> u[k]]
      BY <3>1
    <3>3. \A k \in 1 .. n + 1 : k # n + 1 => k \in 1 .. n
      BY <1>2, <2>4
    <3> QED
      BY <2>4, <3>1, <3>2, <3>3 DEF u
  <2>5. t = [k \in 1 .. n + 1 |-> IF k = n + 1 THEN WishNeed(wish, i, side) ELSE s[k]]
    BY <2>10 DEF need
  <2>6. \A k \in 1 .. n + 1 : k # n + 1 => k \in 1 .. n
    BY <2>4
  <2>7. \A k \in 1 .. n + 1 : WishNeed(longer[k], i, side)
                                 = IF k = n + 1 THEN WishNeed(wish, i, side) ELSE s[k]
    BY <2>1, <2>2, <2>6
  <2>8. WishNeeds(longer, i, side) = t
    BY <2>3, <2>5, <2>7
  <2> QED
    BY <2>8 DEF longer, s
<1> QED
  BY <1>1, <1>3, <1>4

\* A part of a budget buys no more than the budget.
LEMMA WithinBudget ==
    ASSUME NEW budget \in Int, NEW price \in Positive, NEW n \in Positive, n <= budget \div price
    PROVE  n * price <= budget
<1> DEFINE q == budget \div price
<1>1. q \in Int /\ q * price <= budget
  BY DEF Positive
<1>2. q \in Nat /\ n \in Nat /\ price \in Nat
  BY <1>1 DEF Positive
<1> HIDE DEF q
<1>3. n * price <= q * price
  BY <1>2, Trading!Products DEF q
<1>4. n * price \in Int /\ q * price \in Int
  BY <1>2
<1> QED
  BY <1>1, <1>3, <1>4

\* What has been wished for leaves b of the amount a, of cash or of an item.
Leaves(w, i, side, a, b) == Lasts(a, WishNeeds(w.orders, i, side), b)

\* A purchase that is wished for can be paid, and takes nothing from the stock.
LEMMA BuyLeaves ==
    ASSUME NEW w \in WantSet, NEW x \in SnapshotSet, NEW price \in Positive, NEW desired \in Int,
           NEW i, NEW a \in Int
    PROVE  /\ Leaves(w, i, "BUY", a, w.cash) =>
                 LET now == Buy(w, x, price, desired) IN Leaves(now, i, "BUY", a, now.cash)
           /\ \A b \in Int : Leaves(w, i, "SELL", a, b)
                                => Leaves(Buy(w, x, price, desired), i, "SELL", a, b)
<1> DEFINE n == CapByNotional(w.buyBudget, price, Least(desired, w.cash \div price))
           wish == [item |-> x.item, side |-> "BUY", quantity |-> n, price |-> price]
           now == Buy(w, x, price, desired)
<1>1. w.orders \in Seq(WishSet) /\ w.cash \in Int /\ w.buyBudget \in Int /\ x.item \in Items
  BY DEF WantSet, SnapshotSet
<1>2. w.cash \div price \in Int /\ w.buyBudget \div price \in Int
  BY <1>1, Quotients
<1>3. n \in Int /\ n <= w.cash \div price
  BY <1>2 DEF CapByNotional, Least
<1>4. now = IF n <= 0 THEN w
            ELSE [w EXCEPT !.orders = Append(w.orders, wish), !.buyBudget = w.buyBudget - n * price,
                           !.cash = w.cash - n * price]
  BY DEF Buy, Wish
<1> HIDE DEF n, now
<1>5. CASE n <= 0
  BY <1>4, <1>5 DEF now
<1>6. CASE ~(n <= 0)
  <2>1. n \in Positive
    BY <1>3, <1>6 DEF Positive
  <2>2. wish \in WishSet /\ wish.side = "BUY" /\ wish.quantity = n /\ wish.price = price
    BY <1>1, <2>1 DEF WishSet
  <2> HIDE DEF wish
  <2>3. now.orders = Append(w.orders, wish) /\ now.cash = w.cash - n * price
    BY <1>4, <1>6 DEF WantSet
  <2>4. WishNeed(wish, i, "BUY") = n * price /\ WishNeed(wish, i, "SELL") = 0
    BY <2>2 DEF WishNeed
  <2>5. n * price <= w.cash
    BY <1>1, <1>3, <2>1, WithinBudget
  <2>6. n * price \in Nat
    BY <2>1, Quotients DEF Positive
  <2>7. \A side : /\ WishNeeds(w.orders, i, side) \in Seq(Nat)
                  /\ WishNeeds(now.orders, i, side)
                        = Append(WishNeeds(w.orders, i, side), WishNeed(wish, i, side))
    BY <1>1, <2>2, <2>3, WishNeedsTyped
  <2>8. ASSUME Leaves(w, i, "BUY", a, w.cash) PROVE Leaves(now, i, "BUY", a, now.cash)
    <3> DEFINE s == WishNeeds(w.orders, i, "BUY")
               cost == n * price
    <3>1. Lasts(a, s, w.cash) /\ s \in Seq(Nat)
      BY <2>7, <2>8 DEF Leaves
    <3> HIDE DEF s
    <3>2. cost \in Nat /\ cost <= w.cash
      BY <2>5, <2>6
    <3> HIDE DEF cost
    <3>3. Lasts(a, Append(s, cost), w.cash - cost)
      BY <1>1, <3>1, <3>2, LastsLonger
    <3> QED
      BY <2>3, <2>4, <2>7, <3>3 DEF Leaves, s, cost
  <2>9. ASSUME NEW b \in Int, Leaves(w, i, "SELL", a, b) PROVE Leaves(now, i, "SELL", a, b)
    <3> DEFINE s == WishNeeds(w.orders, i, "SELL")
    <3>1. Lasts(a, s, b) /\ s \in Seq(Nat)
      BY <2>7, <2>9 DEF Leaves
    <3> HIDE DEF s
    <3>2. Lasts(a, Append(s, 0), b - 0) /\ b - 0 = b
      BY <3>1, LastsLonger
    <3> QED
      BY <2>4, <2>7, <3>2 DEF Leaves, s
  <2> QED
    BY <2>8, <2>9 DEF now
<1> QED
  BY <1>3, <1>5, <1>6

\* A sale that is wished for takes no more of its item than was free, and
\* nothing from the cash or from other items.
LEMMA SellLeaves ==
    ASSUME NEW w \in WantSet, NEW x \in SnapshotSet, NEW price \in Positive, NEW desired \in Int,
           NEW i, NEW a \in Int
    PROVE  /\ Leaves(w, i, "BUY", a, w.cash) =>
                 LET now == Sell(w, x, price, desired) IN Leaves(now, i, "BUY", a, now.cash)
           /\ x.item # i => \A b \in Int : Leaves(w, i, "SELL", a, b)
                                             => Leaves(Sell(w, x, price, desired), i, "SELL", a, b)
           /\ x.item = i /\ Leaves(w, i, "SELL", a, x.available) =>
                 \E b \in Int : Leaves(Sell(w, x, price, desired), i, "SELL", a, b)
<1> DEFINE n == CapByNotional(w.sellBudget, price, Least(desired, x.available))
           wish == [item |-> x.item, side |-> "SELL", quantity |-> n, price |-> price]
           now == Sell(w, x, price, desired)
<1>1. w.orders \in Seq(WishSet) /\ w.cash \in Int /\ w.sellBudget \in Int /\ x.item \in Items
      /\ x.available \in Int
  BY DEF WantSet, SnapshotSet
<1>2. w.sellBudget \div price \in Int
  BY <1>1, Quotients
<1>3. n \in Int /\ n <= x.available
  BY <1>1, <1>2 DEF CapByNotional, Least
<1>4. now = IF n <= 0 THEN w
            ELSE [w EXCEPT !.orders = Append(w.orders, wish), !.sellBudget = w.sellBudget - n * price]
  BY DEF Sell, Wish
<1> HIDE DEF n, now
<1>5. CASE n <= 0
  BY <1>1, <1>4, <1>5 DEF now
<1>6. CASE ~(n <= 0)
  <2>1. n \in Positive
    BY <1>3, <1>6 DEF Positive
  <2>2. wish \in WishSet /\ wish.side = "SELL" /\ wish.quantity = n /\ wish.item = x.item
    BY <1>1, <2>1 DEF WishSet
  <2> HIDE DEF wish
  <2>3. now.orders = Append(w.orders, wish) /\ now.cash = w.cash
    BY <1>4, <1>6 DEF WantSet
  <2>4. WishNeed(wish, i, "BUY") = 0 /\ WishNeed(wish, i, "SELL") = IF x.item = i THEN n ELSE 0
    BY <2>2 DEF WishNeed
  <2>5. \A side : /\ WishNeeds(w.orders, i, side) \in Seq(Nat)
                  /\ WishNeeds(now.orders, i, side)
                        = Append(WishNeeds(w.orders, i, side), WishNeed(wish, i, side))
    BY <1>1, <2>2, <2>3, WishNeedsTyped
  <2>6. ASSUME NEW side, NEW b \in Int, Leaves(w, i, side, a, b), WishNeed(wish, i, side) = 0
        PROVE  Leaves(now, i, side, a, b)
    <3> DEFINE s == WishNeeds(w.orders, i, side)
    <3>1. Lasts(a, s, b) /\ s \in Seq(Nat)
      BY <2>5, <2>6 DEF Leaves
    <3> HIDE DEF s
    <3>2. Lasts(a, Append(s, 0), b - 0) /\ b - 0 = b
      BY <3>1, LastsLonger
    <3> QED
      BY <2>5, <2>6, <3>2 DEF Leaves, s
  <2>7. ASSUME x.item = i, Leaves(w, i, "SELL", a, x.available)
        PROVE  \E b \in Int : Leaves(now, i, "SELL", a, b)
    <3> DEFINE s == WishNeeds(w.orders, i, "SELL")
    <3>1. Lasts(a, s, x.available) /\ s \in Seq(Nat)
      BY <2>5, <2>7 DEF Leaves
    <3> HIDE DEF s
    <3>2. n \in Nat /\ n <= x.available /\ x.available - n \in Int
      BY <1>1, <1>3, <2>1 DEF Positive
    <3>3. Lasts(a, Append(s, n), x.available - n)
      BY <1>1, <3>1, <3>2, LastsLonger
    <3>4. Leaves(now, i, "SELL", a, x.available - n)
      BY <2>4, <2>5, <2>7, <3>3 DEF Leaves, s
    <3> QED
      BY <3>2, <3>4
  <2> QED
    BY <1>1, <2>3, <2>4, <2>6, <2>7 DEF now
<1> QED
  BY <1>3, <1>5, <1>6

\* One round of the loop of planLiquidityOrders keeps within the cash, and
\* sells an item once at most.
LEMMA QuoteItemLeaves ==
    ASSUME NEW w \in WantSet, NEW x \in SnapshotSet, NEW i, NEW a \in Int
    PROVE  /\ Leaves(w, i, "BUY", a, w.cash) =>
                 Leaves(QuoteItem(w, x), i, "BUY", a, QuoteItem(w, x).cash)
           /\ x.item # i => \A b \in Int : Leaves(w, i, "SELL", a, b)
                                             => Leaves(QuoteItem(w, x), i, "SELL", a, b)
           /\ x.item = i /\ Leaves(w, i, "SELL", a, x.available) =>
                 \E b \in Int : Leaves(QuoteItem(w, x), i, "SELL", a, b)
<1> DEFINE sellAt == SellPrice(x.reference)
           buyAt == BuyPrice(x.reference)
           sell == IF x.openSell THEN w ELSE Sell(w, x, sellAt, Quoting.target)
           both == IF x.openBuy THEN sell ELSE Buy(sell, x, buyAt, Quoting.target)
           taken == IF both = sell /\ Takes(x)
                    THEN Buy(both, x, x.othersSell, Least(1, both.room)) ELSE both
           room == IF taken = both THEN both.room ELSE both.room - 1
           hit == IF sell = w /\ Hits(x) THEN Sell(taken, x, x.othersBuy, 1) ELSE taken
           ownSell == IF x.ownSell # None THEN x.ownSell ELSE IF sell # w THEN sellAt ELSE None
           crossed == IF taken = both /\ ownSell # None THEN Buy(hit, x, ownSell, 1) ELSE hit
           Bought(u, v) == /\ Leaves(u, i, "BUY", a, u.cash) => Leaves(v, i, "BUY", a, v.cash)
                         /\ \A b \in Int : Leaves(u, i, "SELL", a, b) => Leaves(v, i, "SELL", a, b)
           Sold(u, v) == /\ Leaves(u, i, "BUY", a, u.cash) => Leaves(v, i, "BUY", a, v.cash)
                         /\ x.item # i => \A b \in Int : Leaves(u, i, "SELL", a, b)
                                                           => Leaves(v, i, "SELL", a, b)
                         /\ x.item = i /\ Leaves(u, i, "SELL", a, x.available) =>
                               \E b \in Int : Leaves(v, i, "SELL", a, b)
<1>1. /\ x.reference \in Positive /\ x.othersSell \in Nat /\ x.othersBuy \in Nat
      /\ x.ownSell \in Nat /\ x.ownBuy \in Nat /\ x.available \in Int
  BY DEF SnapshotSet
<1>2. Quoting.target \in Int
  BY QuotingAssumption
<1>3. sellAt \in Positive /\ buyAt \in Positive
  BY <1>1, QuotesAreAt
<1> HIDE DEF sellAt, buyAt
<1>4. sell \in WantSet /\ Sold(w, sell)
  BY <1>1, <1>2, <1>3, SellTyped, SellLeaves
<1> HIDE DEF sell
<1>5. both \in WantSet /\ Bought(sell, both)
  BY <1>2, <1>3, <1>4, BuyTyped, BuyLeaves
<1> HIDE DEF both
<1>6. both.room \in Int
  BY <1>5 DEF WantSet
<1>7. taken \in WantSet /\ Bought(both, taken)
  <2>1. Takes(x) => x.othersSell \in Positive
    BY <1>1 DEF Takes, None, Positive
  <2>2. Least(1, both.room) \in Int
    BY <1>6 DEF Least
  <2> QED
    BY <1>5, <2>1, <2>2, BuyTyped, BuyLeaves
<1> HIDE DEF taken
<1>8. /\ hit \in WantSet /\ (sell = w => Sold(taken, hit)) /\ (sell # w => hit = taken)
      /\ Leaves(taken, i, "BUY", a, taken.cash) => Leaves(hit, i, "BUY", a, hit.cash)
  <2>1. CASE sell = w /\ Hits(x)
    <3>1. x.othersBuy \in Positive /\ 1 \in Int
      BY <1>1, <2>1 DEF Hits, None, Positive
    <3>2. hit = Sell(taken, x, x.othersBuy, 1)
      BY <2>1
    <3> HIDE DEF hit
    <3>3. hit \in WantSet
      BY <1>7, <3>1, <3>2, SellTyped
    <3>4. Sold(taken, hit)
      BY <1>7, <3>1, <3>2, SellLeaves
    <3> QED
      BY <2>1, <3>3, <3>4
  <2>2. CASE ~(sell = w /\ Hits(x))
    BY <1>1, <1>7, <2>2
  <2> QED
    BY <2>1, <2>2
<1> HIDE DEF hit
<1>9. ownSell # None => ownSell \in Positive
  BY <1>1, <1>3 DEF None, Positive
<1> HIDE DEF ownSell
<1>10. crossed \in WantSet /\ Bought(hit, crossed)
  <2>1. CASE taken = both /\ ownSell # None
    <3>1. ownSell \in Positive /\ 1 \in Int
      BY <1>9, <2>1
    <3>2. crossed = Buy(hit, x, ownSell, 1)
      BY <2>1
    <3> HIDE DEF crossed
    <3> QED
      BY <1>8, <3>1, <3>2, BuyTyped, BuyLeaves
  <2>2. CASE ~(taken = both /\ ownSell # None)
    BY <1>8, <2>2
  <2> QED
    BY <2>1, <2>2
<1> HIDE DEF crossed
<1>11. QuoteItem(w, x) = [crossed EXCEPT !.room = room]
  BY DEF QuoteItem, crossed, ownSell, hit, room, taken, both, sell, sellAt, buyAt
<1> HIDE DEF room
<1>12. QuoteItem(w, x).orders = crossed.orders /\ QuoteItem(w, x).cash = crossed.cash
  BY <1>10, <1>11 DEF WantSet
<1>13. Sold(w, crossed)
  <2>1. Leaves(w, i, "BUY", a, w.cash) => Leaves(crossed, i, "BUY", a, crossed.cash)
    BY <1>4, <1>5, <1>7, <1>8, <1>10
  <2>2. Bought(sell, taken)
    BY <1>5, <1>7
  <2>3. CASE sell = w
    BY <1>8, <1>10, <2>1, <2>2, <2>3, <1>1
  <2>4. CASE sell # w
    BY <1>4, <1>8, <1>10, <2>1, <2>2, <2>4
  <2> QED
    BY <2>3, <2>4
<1> QED
  BY <1>12, <1>13 DEF Leaves

\* The orders that planLiquidityOrders returns keep within the cash, and for
\* each item within what is free of it.
LEMMA LiquidityOrdersLast ==
    ASSUME NEW money \in Int, NEW room \in Int, NEW items \in Seq(SnapshotSet), NEW i, NEW a \in Int,
           \A j, k \in DOMAIN items : items[j].item = items[k].item => j = k,
           \A k \in DOMAIN items : items[k].item = i => items[k].available = a
    PROVE  LET wishes == PlanLiquidityOrders(money, room, items) IN
           /\ \E b \in Int : Lasts(money, WishNeeds(wishes, i, "BUY"), b)
           /\ \E b \in Int : Lasts(a, WishNeeds(wishes, i, "SELL"), b)
<1> DEFINE n == Len(items)
           g == Quotes(money, room, items)
           s == QuoteStart(money, room)
           body == [k \in 0 .. n |-> IF k = 0 THEN s ELSE QuoteItem(g[k - 1], items[k])]
           Unsold(k) == \A j \in 1 .. k : items[j].item # i
           Fine(k) == /\ g[k] \in WantSet /\ Leaves(g[k], i, "BUY", money, g[k].cash)
                      /\ \E b \in Int : Leaves(g[k], i, "SELL", a, b)
                      /\ Unsold(k) => Leaves(g[k], i, "SELL", a, a)
           T == {k \in Nat : k <= n => Fine(k)}
<1>1. n \in Nat /\ DOMAIN items = 1 .. n /\ \A k \in 1 .. n : items[k] \in SnapshotSet
  OBVIOUS
<1>2. PlanLiquidityOrders(money, room, items) = g[n].orders
  BY DEF PlanLiquidityOrders, Quotes, AreQuotes, QuoteStart
<1>3. s \in WantSet /\ s.orders = <<>> /\ s.cash = money
  BY QuotingAssumption DEF QuoteStart, WantSet
<1>4. \A side : \A e \in Int : Leaves(s, i, side, e, e)
  <2> SUFFICES ASSUME NEW side, NEW e \in Int PROVE Leaves(s, i, side, e, e)
    OBVIOUS
  <2>1. WishNeeds(s.orders, i, side) = <<>>
    BY <1>3 DEF WishNeeds
  <2>2. <<>> \in Seq(Nat) /\ DOMAIN <<>> = {}
    OBVIOUS
  <2>3. Lasts(e, <<>>, e)
    BY ONLY <2>2, e \in Int, LastsUnused
  <2> QED
    BY <2>1, <2>3 DEF Leaves
<1> HIDE DEF n, s
<1>5. \E h : AreQuotes(h, money, room, items, n)
  BY <1>1, QuotesExist
<1>6. AreQuotes(g, money, room, items, n)
  BY <1>5 DEF Quotes, n
<1> HIDE DEF g
<1>7. g = body
  BY <1>6 DEF AreQuotes, s
<1>8. body[0] = s /\ \A k \in 1 .. n : body[k] = QuoteItem(g[k - 1], items[k])
  BY <1>1
<1> HIDE DEF body
<1>9. 0 \in T
  <2>1. g[0] = s
    BY <1>7, <1>8
  <2>2. /\ g[0] \in WantSet /\ g[0].cash = money /\ Leaves(g[0], i, "BUY", money, money)
        /\ Leaves(g[0], i, "SELL", a, a)
    <3>1. Leaves(s, i, "BUY", money, money)
      BY <1>4
    <3>2. Leaves(s, i, "SELL", a, a)
      BY <1>4
    <3>3. s \in WantSet /\ s.cash = money
      BY <1>3
    <3> HIDE DEF g
    <3> QED
      BY ONLY <2>1, <3>1, <3>2, <3>3
  <2>3. \E b \in Int : Leaves(g[0], i, "SELL", a, b)
    BY <2>2
  <2> HIDE DEF Unsold
  <2>4. Fine(0)
    BY <2>2, <2>3
  <2> HIDE DEF Fine
  <2> QED
    BY <2>4
<1>10. ASSUME NEW k \in Nat, k \in T PROVE k + 1 \in T
  <2>1. SUFFICES ASSUME k + 1 <= n PROVE Fine(k + 1)
    OBVIOUS
  <2> DEFINE x == items[k + 1]
             w == g[k]
             v == g[k + 1]
  <2> HIDE DEF Fine
  <2>2. k + 1 \in 1 .. n /\ (k + 1) - 1 = k /\ k <= n
    BY <1>1, <2>1
  <2>3. v = QuoteItem(w, x) /\ x \in SnapshotSet
    BY <1>1, <1>7, <1>8, <2>2
  <2>4. Fine(k)
    BY <1>10, <2>2
  <2>5. /\ w \in WantSet /\ Leaves(w, i, "BUY", money, w.cash)
        /\ \E b \in Int : Leaves(w, i, "SELL", a, b)
        /\ Unsold(k) => Leaves(w, i, "SELL", a, a)
    BY <2>4 DEF Fine
  <2>6. x.item = i => Unsold(k) /\ x.available = a
    <3>1. SUFFICES ASSUME x.item = i, NEW j \in 1 .. k, items[j].item = i PROVE FALSE
      BY <1>1, <2>2
    <3>2. j \in 1 .. n /\ j # k + 1
      BY <1>1, <2>1
    <3> QED
      BY <1>1, <2>2, <3>1, <3>2
  <2>7. /\ Unsold(k + 1) => Unsold(k)
        /\ Unsold(k + 1) => x.item # i
    <3>1. k + 1 \in 1 .. k + 1 /\ \A j \in 1 .. k : j \in 1 .. k + 1
      OBVIOUS
    <3> QED
      BY <3>1
  <2> HIDE DEF Unsold, w, x, v
  <2>8. v \in WantSet
    BY <2>3, <2>5, QuoteItemTyped
  <2>9. Leaves(v, i, "BUY", money, v.cash)
    BY <2>3, <2>5, QuoteItemLeaves
  <2>10. /\ \E b \in Int : Leaves(v, i, "SELL", a, b)
         /\ Unsold(k + 1) => Leaves(v, i, "SELL", a, a)
    <3>1. CASE x.item = i
      <4>1. Leaves(w, i, "SELL", a, x.available)
        BY <2>5, <2>6, <3>1
      <4> QED
        BY <2>3, <2>5, <2>7, <3>1, <4>1, QuoteItemLeaves
    <3>2. CASE x.item # i
      BY <2>3, <2>5, <2>7, <3>2, QuoteItemLeaves
    <3> QED
      BY <3>1, <3>2
  <2> QED
    BY <2>8, <2>9, <2>10 DEF v, Fine
<1> HIDE DEF T
<1>11. Nat \subseteq T
  BY <1>9, <1>10, NatSetInduction
<1>12. Fine(n)
  BY <1>1, <1>11 DEF T
<1>13. g[n].cash \in Int
  BY <1>12 DEF WantSet
<1> QED
  BY <1>2, <1>12, <1>13 DEF Leaves

\* What an action of a bot takes of a company's cash, or of an item it has.
Need(x, c, i, side) ==
    IF IsOrder(x) /\ x.company = c THEN WishNeed(x.wish, i, side) ELSE 0

Needs(p, c, i, side) == [k \in DOMAIN p |-> Need(p[k], c, i, side)]

Available(c, i, side) == IF side = "BUY" THEN AvailableCash(c) ELSE AvailableStock(c, i)

\* The needs of actions are numbers, in the order of the actions.
LEMMA NeedsTyped ==
    ASSUME NEW p \in Seq(BotActions), NEW c, NEW i, NEW side
    PROVE  /\ Needs(p, c, i, side) \in Seq(Nat) /\ Len(Needs(p, c, i, side)) = Len(p)
           /\ \A k \in DOMAIN p : Needs(p, c, i, side)[k] = Need(p[k], c, i, side)
<1>1. ASSUME NEW x \in BotActions PROVE Need(x, c, i, side) \in Nat
  <2>1. CASE IsOrder(x)
    <3>1. x.wish \in WishSet
      BY <2>1, BotActionKinds DEF QuoteActions
    <3>2. <<>> \in Seq(WishSet)
      OBVIOUS
    <3>3. WishNeed(x.wish, i, side) \in Nat
      BY <3>1, <3>2, WishNeedsTyped
    <3> QED
      BY <3>3 DEF Need
  <2>2. CASE ~IsOrder(x)
    BY <2>2 DEF Need
  <2> QED
    BY <2>1, <2>2
<1>2. Len(p) \in Nat /\ DOMAIN p = 1 .. Len(p) /\ \A k \in DOMAIN p : p[k] \in BotActions
  BY RowsOfTable
<1>3. Needs(p, c, i, side) \in [1 .. Len(p) -> Nat]
  BY <1>1, <1>2 DEF Needs
<1>4. Needs(p, c, i, side) \in Seq(Nat) /\ Len(Needs(p, c, i, side)) = Len(p)
  BY <1>2, <1>3
<1>5. \A k \in DOMAIN p : Needs(p, c, i, side)[k] = Need(p[k], c, i, side)
  BY DEF Needs
<1> QED
  BY <1>4, <1>5

\* Actions one after the other need what each of them needs.
LEMMA NeedsJoined ==
    ASSUME NEW p \in Seq(BotActions), NEW q \in Seq(BotActions), NEW c, NEW i, NEW side
    PROVE  Needs(p \o q, c, i, side) = Needs(p, c, i, side) \o Needs(q, c, i, side)
<1> DEFINE n == Len(p)
           m == Len(q)
           r == p \o q
           s == Needs(p, c, i, side)
           t == Needs(q, c, i, side)
           u == Needs(r, c, i, side)
<1>1. /\ n \in Nat /\ m \in Nat /\ r \in Seq(BotActions) /\ Len(r) = n + m
      /\ DOMAIN p = 1 .. n /\ DOMAIN q = 1 .. m /\ DOMAIN r = 1 .. n + m
      /\ \A k \in 1 .. n + m : r[k] = IF k <= n THEN p[k] ELSE q[k - n]
  OBVIOUS
<1>2. /\ s \in Seq(Nat) /\ Len(s) = n /\ t \in Seq(Nat) /\ Len(t) = m
      /\ \A k \in 1 .. n : s[k] = Need(p[k], c, i, side)
      /\ \A k \in 1 .. m : t[k] = Need(q[k], c, i, side)
  BY <1>1, NeedsTyped
<1>3. /\ u \in Seq(Nat) /\ Len(u) = n + m
      /\ \A k \in 1 .. n + m : u[k] = Need(r[k], c, i, side)
  <2> HIDE DEF r
  <2> QED
    BY <1>1, NeedsTyped
<1> HIDE DEF n, m, r, s, t, u
<1>4. \A k \in 1 .. n + m : /\ k <= n => k \in 1 .. n
                            /\ ~(k <= n) => k - n \in 1 .. m
  BY <1>1
<1>5. \A k \in 1 .. n + m : u[k] = IF k <= n THEN s[k] ELSE t[k - n]
  BY <1>1, <1>2, <1>3, <1>4
<1>6. u = s \o t
  <2> DEFINE v == s \o t
  <2>1. /\ v \in Seq(Nat) /\ Len(v) = n + m
        /\ \A k \in 1 .. n + m : v[k] = IF k <= n THEN s[k] ELSE t[k - n]
    <3>1. /\ v \in Seq(Nat) /\ Len(v) = Len(s) + Len(t)
          /\ \A k \in 1 .. Len(s) + Len(t) : v[k] = IF k <= Len(s) THEN s[k] ELSE t[k - Len(s)]
      BY ONLY <1>2, RowsJoined
    <3> QED
      BY <1>2, <3>1
  <2> HIDE DEF v
  <2>2. Len(u) = Len(v) /\ \A k \in 1 .. Len(u) : u[k] = v[k]
    BY <1>3, <1>5, <2>1
  <2>3. u = v
    BY ONLY <1>3, <2>1, <2>2, SameSequence
  <2> QED
    BY <2>3 DEF v
<1> QED
  BY <1>6 DEF r, s, t, u


\* The orders planned for a bot keep within what it has, and take nothing of
\* what others have.
LEMMA PlannedLasts ==
    ASSUME Typed, NEW c \in Traders, NEW i \in Items, NEW side \in {"BUY", "SELL"},
           stock[c][i].reserved <= stock[c][i].quantity
    PROVE  /\ \E b \in Int : Lasts(Available(c, i, side), Needs(PlannedFor(c), c, i, side), b)
           /\ \A d : d # c => \A k \in DOMAIN PlannedFor(c) : Need(PlannedFor(c)[k], d, i, side) = 0
<1> DEFINE items == SetToSeq(Items)
           n == Cardinality(Items)
           room == Clamp(CapacityIn(c, "home") - Stored(c), 0, CapacityIn(c, "home"))
           told == [k \in DOMAIN items |-> Snapshot(c, items[k])]
           money == AvailableCash(c)
           a == AvailableStock(c, i)
           wishes == PlanLiquidityOrders(money, room, told)
           p == PlannedFor(c)
<1>1. c \in Companies /\ c \in Npcs
  BY NpcsAssumption, BotsAssumption
<1>2. money \in Int /\ a \in Int
  <2>1. money \in Int
    BY <1>1, TypedBalances DEF AvailableCash
  <2>2. a \in Int
    BY <1>1, TypedBalances DEF AvailableStock
  <2> HIDE DEF money, a
  <2> QED
    BY <2>1, <2>2
<1>3. room \in Int
  <2>1. CapacityIn(c, "home") \in Int /\ CapacityIn(c, "home") - Stored(c) \in Int /\ 0 \in Int
    BY <1>1, CapacityTyped, StoredTyped
  <2> QED
    BY <2>1, Clamped, Zenon
<1>4. /\ n \in Nat /\ items \in [1 .. n -> Items]
      /\ \A j, k \in 1 .. n : items[j] = items[k] => j = k
  BY AmountsAssumption, SetListed
<1>5. p = [k \in DOMAIN wishes |-> [company |-> c, wish |-> wishes[k]]]
  BY DEF PlannedFor
<1> HIDE DEF items, n, room, money, a, p
<1>6. DOMAIN items = 1 .. n /\ \A k \in 1 .. n : items[k] \in Items
  BY <1>4
<1>7. told \in Seq(SnapshotSet) /\ DOMAIN told = 1 .. n
  <2>1. \A k \in 1 .. n : Snapshot(c, items[k]) \in SnapshotSet
    BY <1>1, <1>6, SnapshotTyped
  <2>2. told \in [1 .. n -> SnapshotSet]
    BY <1>6, <2>1
  <2> HIDE DEF told
  <2> QED
    BY <1>4, <2>2
<1>8. \A k \in 1 .. n : /\ told[k].item = items[k]
                        /\ told[k].available
                              = Clamp(AvailableStock(c, items[k]), 0, stock[c][items[k]].quantity)
  BY <1>6 DEF Snapshot
<1>9. Clamp(AvailableStock(c, i), 0, stock[c][i].quantity) = a
  <2>1. stock[c][i].quantity \in Nat /\ stock[c][i].reserved \in Nat
    BY <1>1, TypedBalances
  <2> QED
    BY <2>1 DEF Clamp, AvailableStock, a
<1> HIDE DEF told
<1>10. /\ \A j, k \in DOMAIN told : told[j].item = told[k].item => j = k
       /\ \A k \in DOMAIN told : told[k].item = i => told[k].available = a
  BY <1>4, <1>7, <1>8, <1>9
<1>11. wishes \in Seq(WishSet)
  BY <1>2, <1>3, <1>7, LiquidityOrdersTyped
<1>12. /\ \E b \in Int : Lasts(money, WishNeeds(wishes, i, "BUY"), b)
       /\ \E b \in Int : Lasts(a, WishNeeds(wishes, i, "SELL"), b)
  BY ONLY <1>2, <1>3, <1>7, <1>10, LiquidityOrdersLast
<1> HIDE DEF wishes
<1>13. \A k \in DOMAIN wishes : IsOrder([company |-> c, wish |-> wishes[k]])
  BY DEF IsOrder
<1>14. /\ DOMAIN p = DOMAIN wishes
       /\ \A k \in DOMAIN wishes : /\ IsOrder(p[k]) /\ p[k].company = c /\ p[k].wish = wishes[k]
  BY <1>5, <1>13
<1>15. Needs(p, c, i, side) = WishNeeds(wishes, i, side)
  <2>1. \A k \in DOMAIN wishes : Need(p[k], c, i, side) = WishNeed(wishes[k], i, side)
    BY <1>14 DEF Need
  <2> QED
    BY <1>14, <2>1 DEF Needs, WishNeeds
<1>16. \E b \in Int : Lasts(Available(c, i, side), Needs(p, c, i, side), b)
  <2>1. CASE side = "BUY"
    <3>1. Available(c, i, side) = money
      BY <2>1 DEF Available, money
    <3> QED
      BY <1>12, <1>15, <2>1, <3>1
  <2>2. CASE side = "SELL"
    <3>1. Available(c, i, side) = a
      BY <2>2 DEF Available, a
    <3> QED
      BY <1>12, <1>15, <2>2, <3>1
  <2> QED
    BY <2>1, <2>2
<1>17. \A d : d # c => \A k \in DOMAIN p : Need(p[k], d, i, side) = 0
  BY <1>14 DEF Need
<1> QED
  BY <1>16, <1>17 DEF p


\* An amount lasts for actions that need nothing of it.
LEMMA NothingNeeded ==
    ASSUME NEW p \in Seq(BotActions), NEW c, NEW i, NEW side, NEW a \in Int,
           \A k \in DOMAIN p : Need(p[k], c, i, side) = 0
    PROVE  Lasts(a, Needs(p, c, i, side), a)
<1> DEFINE s == Needs(p, c, i, side)
<1>1. s \in Seq(Nat) /\ \A k \in DOMAIN p : s[k] = Need(p[k], c, i, side)
  BY NeedsTyped
<1>2. DOMAIN s = DOMAIN p
  BY DEF Needs
<1> HIDE DEF s
<1>3. Lasts(a, s, a)
  BY <1>1, <1>2, LastsUnused
<1> QED
  BY <1>3 DEF s

\* What some actions leave of an amount lasts for those after them.
LEMMA NeededTogether ==
    ASSUME NEW p \in Seq(BotActions), NEW q \in Seq(BotActions), NEW c, NEW i, NEW side,
           NEW a \in Int, NEW b \in Int, NEW e \in Int,
           Lasts(a, Needs(p, c, i, side), b), Lasts(b, Needs(q, c, i, side), e)
    PROVE  Lasts(a, Needs(p \o q, c, i, side), e)
<1>1. Needs(p \o q, c, i, side) = Needs(p, c, i, side) \o Needs(q, c, i, side)
  BY ONLY p \in Seq(BotActions), q \in Seq(BotActions), NeedsJoined
<1>2. Needs(p, c, i, side) \in Seq(Nat) /\ Needs(q, c, i, side) \in Seq(Nat)
  BY NeedsTyped
<1>3. Lasts(a, Needs(p, c, i, side) \o Needs(q, c, i, side), e)
  BY <1>2, LastsJoined
<1> QED
  BY <1>1, <1>3

\* An amount lasts for the plans of all bots, when it lasts for the one plan
\* that takes of it.
LEMMA FlattenedLasts ==
    ASSUME NEW n \in Nat, NEW plans \in [1 .. n -> Seq(BotActions)], NEW c, NEW i, NEW side,
           NEW a \in Int, NEW h,
           \A j \in 1 .. n : j # h => \A k \in DOMAIN plans[j] : Need(plans[j][k], c, i, side) = 0,
           h \in 1 .. n => \E b \in Int : Lasts(a, Needs(plans[h], c, i, side), b)
    PROVE  \E b \in Int : Lasts(a, Needs(FlattenSeq(plans), c, i, side), b)
<1> DEFINE Holds(p, b) == Lasts(a, Needs(p, c, i, side), b)
           Fine(k) == /\ Joined(plans)[k] \in Seq(BotActions)
                      /\ \E b \in Int : Holds(Joined(plans)[k], b)
                      /\ ~(h \in 1 .. k) => Holds(Joined(plans)[k], a)
           T == {k \in Nat : k + 1 <= n => Fine(k + 1)}
<1>1. Len(plans) = n
  OBVIOUS
<1>2. CASE n = 0
  <2>1. FlattenSeq(plans) = plans
    BY <1>1, <1>2 DEF FlattenSeq
  <2>2. plans \in Seq(BotActions) /\ DOMAIN plans = {}
    BY <1>2
  <2>3. Lasts(a, Needs(plans, c, i, side), a)
    BY <2>2, NothingNeeded
  <2> QED
    BY <2>1, <2>3
<1>3. CASE n # 0
  <2>1. /\ FlattenSeq(plans) = Joined(plans)[n]
        /\ Joined(plans)[1] = plans[1]
        /\ \A k \in 2 .. n : Joined(plans)[k] = Joined(plans)[k - 1] \o plans[k]
    BY <1>1, <1>3, FlattenSteps
  <2>2. ASSUME NEW k \in 1 .. n
        PROVE  /\ plans[k] \in Seq(BotActions)
               /\ k # h => \A b \in Int : Lasts(b, Needs(plans[k], c, i, side), b)
    <3>1. plans[k] \in Seq(BotActions)
      OBVIOUS
    <3>2. k # h => \A j \in DOMAIN plans[k] : Need(plans[k][j], c, i, side) = 0
      OBVIOUS
    <3>3. ASSUME k # h, NEW b \in Int PROVE Lasts(b, Needs(plans[k], c, i, side), b)
      BY ONLY <3>1, <3>2, <3>3, NothingNeeded
    <3> QED
      BY <3>1, <3>3
  <2> HIDE DEF Holds
  <2>3. 0 \in T
    <3>1. 1 \in 1 .. n
      BY <1>3
    <3>2. h = 1 => \E b \in Int : Holds(plans[1], b)
      BY <3>1 DEF Holds
    <3>3. h # 1 => Holds(plans[1], a)
      BY <2>2, <3>1 DEF Holds
    <3>4. Fine(1)
      <4>1. ~(h \in 1 .. 1) => h # 1
        OBVIOUS
      <4> QED
        BY <2>1, <2>2, <3>1, <3>2, <3>3, <4>1
    <3> HIDE DEF Fine
    <3> QED
      BY <3>4
  <2>4. ASSUME NEW k \in Nat, k \in T PROVE k + 1 \in T
    <3>1. SUFFICES ASSUME k + 2 <= n PROVE Fine(k + 2)
      <4>1. (k + 1) + 1 = k + 2
        OBVIOUS
      <4> HIDE DEF Fine
      <4> QED
        BY <4>1
    <3> DEFINE p == Joined(plans)[k + 1]
               q == plans[k + 2]
               r == Joined(plans)[k + 2]
    <3>2. k + 2 \in 2 .. n /\ k + 2 \in 1 .. n /\ (k + 2) - 1 = k + 1 /\ k + 1 <= n
      BY <3>1
    <3>3. r = p \o q
      BY <2>1, <3>2
    <3>4. /\ p \in Seq(BotActions) /\ (\E b \in Int : Holds(p, b))
          /\ ~(h \in 1 .. k + 1) => Holds(p, a)
      BY <2>4, <3>2
    <3>5. /\ q \in Seq(BotActions)
          /\ k + 2 # h => \A b \in Int : Lasts(b, Needs(q, c, i, side), b)
      BY <2>2, <3>2
    <3>6. h = k + 2 => (\E b \in Int : Holds(q, b)) /\ ~(h \in 1 .. k + 1)
      BY <3>2 DEF Holds
    <3> HIDE DEF p, q, r
    <3>7. \A b, e \in Int : Lasts(a, Needs(p, c, i, side), b) /\ Lasts(b, Needs(q, c, i, side), e)
                               => Holds(r, e)
      BY <3>3, <3>4, <3>5, NeededTogether DEF Holds
    <3>8. r \in Seq(BotActions)
      BY ONLY <3>3, <3>4, <3>5, RowsJoined
    <3>9. \E b \in Int : Holds(r, b)
      <4>1. CASE h = k + 2
        <5>1. PICK b \in Int : Lasts(a, Needs(q, c, i, side), b)
          BY <3>6, <4>1 DEF Holds
        <5>2. Lasts(a, Needs(p, c, i, side), a)
          BY <3>4, <3>6, <4>1 DEF Holds
        <5> QED
          BY <3>7, <5>1, <5>2
      <4>2. CASE h # k + 2
        <5>1. PICK b \in Int : Lasts(a, Needs(p, c, i, side), b)
          BY <3>4 DEF Holds
        <5>2. Lasts(b, Needs(q, c, i, side), b)
          BY <3>5, <4>2
        <5> QED
          BY <3>7, <5>1, <5>2
      <4> QED
        BY <4>1, <4>2
    <3>10. ~(h \in 1 .. k + 2) => Holds(r, a)
      <4>1. SUFFICES ASSUME ~(h \in 1 .. k + 2) PROVE Holds(r, a)
        OBVIOUS
      <4>2. ~(h \in 1 .. k + 1) /\ k + 2 # h
        BY <4>1
      <4>3. Lasts(a, Needs(p, c, i, side), a) /\ Lasts(a, Needs(q, c, i, side), a)
        BY <3>4, <3>5, <4>2 DEF Holds
      <4> QED
        BY <3>7, <4>3
    <3> QED
      BY <3>8, <3>9, <3>10 DEF r
  <2> HIDE DEF T, Fine
  <2>5. Nat \subseteq T
    BY <2>3, <2>4, NatSetInduction
  <2>6. Fine((n - 1) + 1)
    <3>1. n - 1 \in Nat /\ (n - 1) + 1 <= n
      BY <1>3
    <3> QED
      BY <2>5, <3>1 DEF T
  <2>7. (n - 1) + 1 = n
    OBVIOUS
  <2> QED
    BY <2>1, <2>6, <2>7 DEF Fine, Holds
<1> QED
  BY <1>2, <1>3

\* planBotActions: what a trader has lasts for the orders planned for it.
LEMMA PlanLasts ==
    ASSUME Typed, NEW c \in Traders, NEW i \in Items, NEW side \in {"BUY", "SELL"},
           stock[c][i].reserved <= stock[c][i].quantity
    PROVE  \E b \in Int : Lasts(Available(c, i, side), Needs(PlanBotActions, c, i, side), b)
<1> DEFINE bots == SetToSeq(Traders)
           producers == SetToSeq(Npcs \ Traders)
           profitable == Selected(SetToSeq(Recipes), IsRecipeProfitable)
           quotes == [k \in DOMAIN bots |-> PlannedFor(bots[k])]
           starts == [k \in DOMAIN producers |-> [company |-> producers[k], recipes |-> profitable]]
           n == Cardinality(Traders)
           a == Available(c, i, side)
           all == FlattenSeq(quotes)
<1>1. IsFiniteSet(Traders) /\ Traders \subseteq Npcs /\ Traders \subseteq Companies
  <2>1. Traders \subseteq Companies
    BY NpcsAssumption, BotsAssumption
  <2> QED
    BY <2>1, AmountsAssumption, BotsAssumption, FS_Subset
<1>2. /\ n \in Nat /\ bots \in [1 .. n -> Traders]
      /\ \A j, k \in 1 .. n : bots[j] = bots[k] => j = k
      /\ \E k \in 1 .. n : bots[k] = c
  BY <1>1, SetListed
<1>3. PlanBotActions = all \o starts
  BY DEF PlanBotActions
<1>4. a \in Int
  <2>1. c \in Companies
    BY <1>1
  <2>2. AvailableCash(c) \in Int
    BY <2>1, TypedBalances DEF AvailableCash
  <2>3. AvailableStock(c, i) \in Int
    BY <2>1, TypedBalances DEF AvailableStock
  <2> QED
    BY <2>2, <2>3 DEF Available
<1>5. \A k \in DOMAIN starts : ~IsOrder(starts[k])
  BY DEF IsOrder
<1> HIDE DEF bots, producers, profitable, n, a
<1>6. DOMAIN quotes = 1 .. n /\ \A k \in 1 .. n : quotes[k] = PlannedFor(bots[k]) /\ bots[k] \in Traders
  BY <1>2
<1>7. quotes \in [1 .. n -> Seq(BotActions)]
  <2>1. \A k \in 1 .. n : PlannedFor(bots[k]) \in Seq(QuoteActions)
    BY <1>1, <1>2, PlannedTyped
  <2>2. Seq(QuoteActions) \subseteq Seq(BotActions)
    <3>1. QuoteActions \subseteq BotActions
      BY DEF BotActions
    <3> HIDE DEF quotes
    <3> QED
      BY <3>1
  <2> QED
    BY <1>2, <2>1, <2>2
<1> HIDE DEF quotes
<1>8. PICK h \in 1 .. n : bots[h] = c
  BY <1>2
<1>9. \A j \in 1 .. n : j # h => \A k \in DOMAIN quotes[j] : Need(quotes[j][k], c, i, side) = 0
  <2>1. SUFFICES ASSUME NEW j \in 1 .. n, j # h, NEW k \in DOMAIN quotes[j]
                 PROVE  Need(quotes[j][k], c, i, side) = 0
    OBVIOUS
  <2>2. bots[j] # c /\ bots[j] \in Traders /\ quotes[j] = PlannedFor(bots[j])
    BY <1>2, <1>6, <1>8, <2>1
  <2>3. quotes[j][k].company = bots[j]
    BY <2>1, <2>2, PlannedTyped
  <2> QED
    BY <2>2, <2>3 DEF Need
<1>10. \E b \in Int : Lasts(a, Needs(quotes[h], c, i, side), b)
  <2>1. quotes[h] = PlannedFor(c)
    BY <1>1, <1>6, <1>8
  <2> QED
    BY <2>1, PlannedLasts DEF a
<1> HIDE DEF all
<1>11. PICK b \in Int : Lasts(a, Needs(all, c, i, side), b)
  <2>1. n \in Nat
    BY <1>2
  <2>2. h \in 1 .. n => \E e \in Int : Lasts(a, Needs(quotes[h], c, i, side), e)
    BY <1>10
  <2>3. \E e \in Int : Lasts(a, Needs(FlattenSeq(quotes), c, i, side), e)
    BY ONLY <2>1, <1>4, <1>7, <1>9, <2>2, FlattenedLasts
  <2> QED
    BY <2>3 DEF all
<1>12. all \in Seq(BotActions)
  BY ONLY <1>2, <1>7, FlattenTyped DEF all
<1>13. starts \in Seq(BotActions)
  <2> DEFINE m == Cardinality(Npcs \ Traders)
  <2>1. IsFiniteSet(Npcs \ Traders)
    <3>1. Npcs \ Traders \subseteq Companies
      BY NpcsAssumption
    <3> QED
      BY <3>1, AmountsAssumption, FS_Subset
  <2>2. m \in Nat /\ producers \in [1 .. m -> Npcs \ Traders]
    BY <2>1, SetListed DEF producers
  <2>3. profitable \in Seq(Recipes)
    BY ProfitableTyped DEF profitable
  <2> HIDE DEF m
  <2>4. \A k \in 1 .. m : [company |-> producers[k], recipes |-> profitable] \in BotActions
    BY <2>2, <2>3 DEF BotActions, ProducerActions
  <2>5. starts \in [1 .. m -> BotActions]
    BY <2>2, <2>4
  <2> HIDE DEF starts
  <2> QED
    BY <2>2, <2>5
<1> HIDE DEF starts
<1>14. Lasts(b, Needs(starts, c, i, side), b)
  <2>1. \A k \in DOMAIN starts : Need(starts[k], c, i, side) = 0
    BY <1>5 DEF Need
  <2> QED
    BY <1>13, <2>1, NothingNeeded
<1>15. Lasts(a, Needs(all \o starts, c, i, side), b)
  BY <1>4, <1>11, <1>12, <1>13, <1>14, NeededTogether
<1> QED
  BY <1>3, <1>15 DEF a


\* What is left after the first action lasts for the others.
LEMMA FirstNeed ==
    ASSUME NEW p \in Seq(BotActions), p # <<>>, NEW c, NEW i, NEW side, NEW a \in Int, NEW b,
           Lasts(a, Needs(p, c, i, side), b)
    PROVE  /\ Need(Head(p), c, i, side) > 0 => Need(Head(p), c, i, side) <= a
           /\ Lasts(a - Need(Head(p), c, i, side), Needs(Tail(p), c, i, side), b)
<1> DEFINE s == Needs(p, c, i, side)
           t == Needs(Tail(p), c, i, side)
           n == Len(p)
<1>1. /\ n \in Nat /\ n > 0 /\ DOMAIN p = 1 .. n /\ Head(p) = p[1]
      /\ Tail(p) \in Seq(BotActions) /\ Len(Tail(p)) = n - 1
      /\ DOMAIN Tail(p) = 1 .. n - 1 /\ \A k \in 1 .. n - 1 : Tail(p)[k] = p[k + 1]
  OBVIOUS
<1>2. s \in Seq(Nat) /\ Len(s) = n /\ \A k \in 1 .. n : s[k] = Need(p[k], c, i, side)
  BY <1>1, NeedsTyped
<1>3. t \in Seq(Nat) /\ Len(t) = n - 1 /\ \A k \in 1 .. n - 1 : t[k] = Need(p[k + 1], c, i, side)
  <2> DEFINE q == Tail(p)
  <2>1. /\ q \in Seq(BotActions) /\ Len(q) = n - 1 /\ DOMAIN q = 1 .. n - 1
        /\ \A k \in 1 .. n - 1 : q[k] = p[k + 1]
    BY <1>1
  <2> HIDE DEF q, n
  <2>2. /\ Needs(q, c, i, side) \in Seq(Nat) /\ Len(Needs(q, c, i, side)) = n - 1
        /\ \A k \in 1 .. n - 1 : Needs(q, c, i, side)[k] = Need(q[k], c, i, side)
    BY <2>1, NeedsTyped
  <2> QED
    BY <2>1, <2>2 DEF q
<1> HIDE DEF s, t, n
<1>4. s # <<>> /\ Head(s) = s[1] /\ Tail(s) \in Seq(Nat) /\ Len(Tail(s)) = n - 1
      /\ \A k \in 1 .. n - 1 : Tail(s)[k] = s[k + 1]
  BY <1>1, <1>2
<1>5. Head(s) = Need(Head(p), c, i, side)
  BY <1>1, <1>2, <1>4
<1>6. Tail(s) = t
  <2>1. \A k \in 1 .. n - 1 : k + 1 \in 1 .. n
    BY <1>1
  <2>2. Len(Tail(s)) = Len(t) /\ \A k \in 1 .. Len(Tail(s)) : Tail(s)[k] = t[k]
    BY <1>2, <1>3, <1>4, <2>1
  <2> DEFINE u == Tail(s)
  <2>3. u \in Seq(Nat)
    BY <1>4
  <2> HIDE DEF u
  <2>4. u = t
    BY <1>3, <2>2, <2>3, SameSequence DEF u
  <2> QED
    BY <2>4 DEF u
<1>7. Lasts(a, s, b)
  BY DEF s
<1>8. (Head(s) > 0 => Head(s) <= a) /\ Lasts(a - Head(s), Tail(s), b)
  BY <1>2, <1>4, <1>7, LastsFirst
<1> QED
  BY <1>5, <1>6, <1>8 DEF t

\* What an action of a bot takes of what a trader has is what it needs.
LEMMA ActionTakes ==
    ASSUME Typed, clock \in Nat, NEW x \in BotActions,
           IF IsOrder(x) THEN PlaceBotOrder(x) ELSE Produce(x),
           NEW c \in Traders, NEW i \in Items, NEW side \in {"BUY", "SELL"}
    PROVE  Available(c, i, side)' = Available(c, i, side) - Need(x, c, i, side)
<1>1. c \in Companies
  BY NpcsAssumption, BotsAssumption
<1>2. /\ cash[c].cash \in Nat /\ cash[c].reserved \in Nat
      /\ stock[c][i].quantity \in Nat /\ stock[c][i].reserved \in Nat
  BY <1>1, TypedBalances
<1>3. ASSUME NEW m \in Int,
             side = "BUY" => /\ cash'[c].cash = cash[c].cash
                             /\ cash'[c].reserved = cash[c].reserved + m,
             side = "SELL" => /\ stock'[c][i].quantity = stock[c][i].quantity
                              /\ stock'[c][i].reserved = stock[c][i].reserved + m,
             Need(x, c, i, side) = m
      PROVE  Available(c, i, side)' = Available(c, i, side) - Need(x, c, i, side)
  BY <1>2, <1>3 DEF Available, AvailableCash, AvailableStock
<1>4. CASE IsOrder(x)
  <2> DEFINE d == x.company
             j == x.wish.item
             n == x.wish.quantity
             p == x.wish.price
  <2>1. x \in QuoteActions
    BY <1>4, BotActionKinds
  <2>2. /\ d \in Companies /\ j \in Items /\ n \in Positive /\ p \in Positive
        /\ x.wish.side \in {"BUY", "SELL"}
    BY <2>1, NpcsAssumption, BotsAssumption DEF QuoteActions, WishSet
  <2>3. Need(x, c, i, side) =
          IF d # c \/ x.wish.side # side THEN 0
          ELSE IF side = "BUY" THEN n * p ELSE IF j = i THEN n ELSE 0
    BY <1>4, <2>2 DEF Need, WishNeed
  <2>4. /\ x.wish.side = "BUY" => AddBuyOrder(d, j, n, p)
        /\ x.wish.side = "SELL" => AddSellOrder(d, j, n, p)
    BY <1>4 DEF PlaceBotOrder
  <2> HIDE DEF d, j, n, p
  <2>5. CASE x.wish.side = "BUY"
    <3>1. n * p \in Nat /\ Booked(d, 0, n * p) /\ stock' = stock
      BY <2>2, <2>4, <2>5, AddBuyOrderDoes
    <3> DEFINE k == n * p
               m == IF d = c /\ side = "BUY" THEN k ELSE 0
    <3>2. k \in Int /\ m \in Int
      BY <3>1
    <3>3. Need(x, c, i, side) = m
      BY <2>3, <2>5
    <3> HIDE DEF k
    <3>4. side = "BUY" => /\ cash'[c].cash = cash[c].cash + 0
                          /\ cash'[c].reserved = cash[c].reserved + m
      BY <1>1, <1>2, <3>1, <3>2 DEF Booked, k
    <3>5. side = "SELL" => stock'[c][i] = stock[c][i] /\ m = 0
      BY <3>1
    <3> HIDE DEF m
    <3> QED
      BY <1>2, <1>3, <3>2, <3>3, <3>4, <3>5
  <2>6. CASE x.wish.side = "SELL"
    <3>1. n \in Nat /\ Stocked(d, j, 0, n) /\ cash' = cash
      BY <2>2, <2>4, <2>6, AddSellOrderDoes DEF Positive
    <3> DEFINE m == IF d = c /\ j = i /\ side = "SELL" THEN n ELSE 0
    <3>2. m \in Int
      BY <3>1
    <3>3. Need(x, c, i, side) = m
      BY <2>3, <2>6
    <3>4. side = "SELL" => /\ stock'[c][i].quantity = stock[c][i].quantity + 0
                           /\ stock'[c][i].reserved = stock[c][i].reserved + m
      BY <1>1, <1>2, <3>1, <3>2 DEF Stocked
    <3>5. side = "BUY" => cash'[c] = cash[c] /\ m = 0
      BY <3>1
    <3> HIDE DEF m
    <3> QED
      BY <1>2, <1>3, <3>2, <3>3, <3>4, <3>5
  <2> QED
    BY <2>2, <2>5, <2>6
<1>5. CASE ~IsOrder(x)
  <2>1. x \in ProducerActions /\ Produce(x)
    BY <1>5, BotActionKinds
  <2>2. x.company \in Companies /\ x.company # c /\ 1 \in Positive /\ ThisTick \in Nat
    BY <2>1, NpcsAssumption DEF ProducerActions, Positive, ThisTick
  <2>3. Need(x, c, i, side) = 0
    BY <1>5 DEF Need
  <2>4. cash' = cash /\ stock'[c][i].quantity = stock[c][i].quantity
        /\ stock'[c][i].reserved = stock[c][i].reserved
    <3>1. CASE UNCHANGED <<Tables, jobs>>
      BY <3>1 DEF Tables
    <3>2. ASSUME NEW r \in Recipes, StartJob(x.company, r, 1, ThisTick)
          PROVE  cash' = cash /\ stock'[c][i].quantity = stock[c][i].quantity
                 /\ stock'[c][i].reserved = stock[c][i].reserved
      <4>1. Restocked(x.company, [k \in Items |-> 0], [k \in Items |-> Required(r, 1, k)])
        BY <2>2, <3>2, StartJobDoes
      <4>2. cash' = cash
        BY <3>2 DEF StartJob
      <4> QED
        BY <1>1, <1>2, <2>2, <4>1, <4>2 DEF Restocked
    <3> QED
      BY <2>1, <3>1, <3>2, ProduceDoes
  <2> QED
    BY <1>2, <1>3, <2>3, <2>4
<1> QED
  BY <1>4, <1>5

-----------------------------------------------------------------------------
(* What orders hold.                                                       *)

\* An order reserves what remains of it while it is open, and no more than it
\* was placed for remains.
OrderSound(row) == row.remaining <= row.quantity /\ Trading!HonestOrder(row)

OrdersSound == \A o \in DOMAIN orders : OrderSound(orders[o])

\* A new order is sound.
LEMMA NewOrderSound ==
    ASSUME NEW c \in Companies, NEW i \in Items, NEW n \in Positive, NEW p \in Positive
    PROVE  /\ OrderSound(Order(c, i, "BUY", n, p, n * p, 0))
           /\ OrderSound(Order(c, i, "SELL", n, p, 0, n))
<1>1. n \in Nat /\ n # 0 /\ n * p \in Nat
  BY Quotients DEF Positive
<1> DEFINE amount == n * p
<1>2. amount = n * p
  OBVIOUS
<1> HIDE DEF amount
<1>3. OrderSound(Order(c, i, "BUY", n, p, amount, 0))
  BY <1>1, <1>2 DEF Order, OrderSound, Trading!HonestOrder
<1>4. OrderSound(Order(c, i, "SELL", n, p, 0, n))
  BY <1>1 DEF Order, OrderSound, Trading!HonestOrder
<1> QED
  BY <1>2, <1>3, <1>4

\* An order that was sound is sound when it has been withdrawn.
LEMMA WithdrawnOrderSound ==
    ASSUME NEW row \in BookRow, OrderSound(row), row.status = "OPEN"
    PROVE  OrderSound(ClosedWithoutReserve(row))
<1> DEFINE new == ClosedWithoutReserve(row)
<1>1. /\ new.remaining = row.remaining /\ new.quantity = row.quantity /\ new.status = "CANCELLED"
      /\ new.reservedCash = 0 /\ new.reservedQuantity = 0 /\ new.price \in Positive
  BY BookFields DEF ClosedWithoutReserve, BookRow, Trading!OrderRow, Positive
<1> HIDE DEF new
<1>2. 0 * new.price = 0
  BY <1>1 DEF Positive
<1>3. row.remaining <= row.quantity /\ row.remaining # 0
  BY DEF OrderSound, Trading!HonestOrder
<1> QED
  BY <1>1, <1>2, <1>3 DEF OrderSound, Trading!HonestOrder, new

\* An order that was sound is sound when part of it has been filled.
LEMMA FilledOrderSound ==
    ASSUME NEW row \in BookRow, OrderSound(row), row.status = "OPEN", NEW n \in Positive,
           NEW a \in Nat, NEW q \in Nat, n <= row.remaining, a <= row.reservedCash,
           q <= row.reservedQuantity,
           a = IF row.side = "BUY" THEN n * row.price ELSE 0,
           q = IF row.side = "SELL" THEN n ELSE 0
    PROVE  /\ OrderSound(Filled(row, n, a, q))
           /\ Filled(row, n, a, q).remaining = row.remaining - n
           /\ Filled(row, n, a, q).quantity = row.quantity
           /\ Filled(row, n, a, q).side = row.side /\ Filled(row, n, a, q).item = row.item
<1>1. Filled(row, n, a, q) = Trading!Filled(row, n, a, q)
  BY DEF Filled, Trading!Filled, IsFilled, Trading!IsFilled
<1>2. /\ row.remaining \in Nat /\ row.reservedCash \in Nat /\ row.reservedQuantity \in Nat
      /\ row.quantity \in Nat /\ n \in Nat /\ row.price \in Positive
  BY BookFields DEF Positive
<1>3. /\ Filled(row, n, a, q).remaining = row.remaining - n
      /\ Filled(row, n, a, q).quantity = row.quantity
      /\ Filled(row, n, a, q).side = row.side /\ Filled(row, n, a, q).item = row.item
  BY DEF Filled, BookRow, Trading!OrderRow
<1>4. row.remaining - n \in Nat /\ row.reservedCash - a \in Nat /\ row.reservedQuantity - q \in Nat
  BY <1>2
<1>5. Trading!HonestOrder(Trading!Filled(row, n, a, q))
  BY <1>2, <1>4, TradingAssumption, Trading!FilledIsHonest DEF OrderSound, BookRow, Positive
<1> QED
  BY <1>1, <1>2, <1>3, <1>5 DEF OrderSound

CashFor(os, c) == SumFunctionOnSet(Trading!CashHeld(os, c), DOMAIN os)

StockFor(os, c, i) == SumFunctionOnSet(Trading!StockHeld(os, c, i), DOMAIN os)

\* What the buy orders for an item have received.
Received(os, i) == [o \in DOMAIN os |-> IF os[o].side = "BUY" /\ os[o].item = i
                                        THEN os[o].quantity - os[o].remaining ELSE 0]

BoughtOf(os, i) == SumFunctionOnSet(Received(os, i), DOMAIN os)

OrdersKept == /\ DOMAIN orders \subseteq DOMAIN orders'
              /\ Kept(orders, orders', {"FILLED", "CANCELLED"})

\* Sums are the same in the exchange.
LEMMA TradingSum ==
    ASSUME NEW f, NEW S
    PROVE  Trading!SumFunctionOnSet(f, S) = SumFunctionOnSet(f, S)
<1>1. SumFunctionOnSet(f, S) = PartialSums(f, S)[S]
  BY SumIsPartialSum
<1>2. Trading!SumFunctionOnSet(f, S) = Trading!PartialSums(f, S)[S]
  BY TradingAssumption, Trading!SumIsPartialSum
<1>3. PartialSums(f, S) = Trading!PartialSums(f, S)
  BY DEF PartialSums, Trading!PartialSums, ArePartialSums, Trading!ArePartialSums, Pick, Trading!Pick
<1> QED
  BY <1>1, <1>2, <1>3

\* What each order has received is a number.
LEMMA ReceivedInt ==
    ASSUME NEW os \in Seq(BookRow), NEW i
    PROVE  /\ IsFiniteSet(DOMAIN os) /\ DOMAIN Received(os, i) = DOMAIN os
           /\ \A o \in DOMAIN os : Received(os, i)[o] \in Int
<1>1. IsFiniteSet(DOMAIN os) /\ \A o \in DOMAIN os : os[o] \in BookRow
  BY RowsOfTable
<1>2. \A o \in DOMAIN os : os[o].quantity \in Int /\ os[o].remaining \in Int
  BY <1>1, BookFields DEF Positive
<1> QED
  BY <1>1, <1>2 DEF Received

\* What each order holds is a number.
LEMMA HeldInt ==
    ASSUME NEW os \in Seq(BookRow), NEW c, NEW i
    PROVE  /\ IsFiniteSet(DOMAIN os)
           /\ \A o \in DOMAIN os :
                 /\ Trading!CashHeld(os, c)[o] \in Nat /\ Trading!StockHeld(os, c, i)[o] \in Nat
                 /\ os[o].company = c => Trading!CashHeld(os, c)[o] = os[o].reservedCash
                 /\ os[o].company = c /\ os[o].item = i
                       => Trading!StockHeld(os, c, i)[o] = os[o].reservedQuantity
<1>1. IsFiniteSet(DOMAIN os) /\ \A o \in DOMAIN os : os[o] \in BookRow
  BY RowsOfTable
<1>2. \A o \in DOMAIN os : os[o].reservedCash \in Nat /\ os[o].reservedQuantity \in Nat
  BY <1>1, BookFields
<1> QED
  BY <1>1, <1>2 DEF Trading!CashHeld, Trading!StockHeld

\* When an order changes, so does what is reserved.
LEMMA OrderChanged ==
    ASSUME NEW os \in Seq(BookRow), NEW new \in Seq(BookRow), DOMAIN new = DOMAIN os,
           NEW o \in DOMAIN os, \A p \in DOMAIN os \ {o} : new[p] = os[p],
           new[o].company = os[o].company, new[o].item = os[o].item, NEW c, NEW i
    PROVE  /\ CashFor(new, c) = CashFor(os, c)
                 + (IF os[o].company = c THEN new[o].reservedCash - os[o].reservedCash ELSE 0)
           /\ StockFor(new, c, i) = StockFor(os, c, i)
                 + (IF os[o].company = c /\ os[o].item = i
                    THEN new[o].reservedQuantity - os[o].reservedQuantity ELSE 0)
<1> DEFINE D == DOMAIN os
           f == Trading!CashHeld(os, c)
           f2 == Trading!CashHeld(new, c)
           g == Trading!StockHeld(os, c, i)
           g2 == Trading!StockHeld(new, c, i)
<1>1. /\ IsFiniteSet(D) /\ \A p \in D : f[p] \in Nat /\ g[p] \in Nat
      /\ \A p \in D : f2[p] \in Nat /\ g2[p] \in Nat
  BY HeldInt
<1>2. \A p \in D \ {o} : f2[p] = f[p] /\ g2[p] = g[p]
  BY DEF Trading!CashHeld, Trading!StockHeld
<1>3. /\ f[o] = (IF os[o].company = c THEN os[o].reservedCash ELSE 0)
      /\ f2[o] = (IF os[o].company = c THEN new[o].reservedCash ELSE 0)
      /\ g[o] = (IF os[o].company = c /\ os[o].item = i THEN os[o].reservedQuantity ELSE 0)
      /\ g2[o] = (IF os[o].company = c /\ os[o].item = i THEN new[o].reservedQuantity ELSE 0)
  BY DEF Trading!CashHeld, Trading!StockHeld
<1>4. /\ new[o].reservedCash \in Nat /\ os[o].reservedCash \in Nat
      /\ new[o].reservedQuantity \in Nat /\ os[o].reservedQuantity \in Nat
  BY RowsOfTable, BookFields
<1>5. CashFor(os, c) = SumFunctionOnSet(f, D) /\ CashFor(new, c) = SumFunctionOnSet(f2, D)
  BY DEF CashFor
<1>6. StockFor(os, c, i) = SumFunctionOnSet(g, D) /\ StockFor(new, c, i) = SumFunctionOnSet(g2, D)
  BY DEF StockFor
<1> HIDE DEF D, f, f2, g, g2
<1>7. o \in D
  BY DEF D
<1>8. SumFunctionOnSet(f2, D) = SumFunctionOnSet(f, D) + f2[o] - f[o]
  BY <1>1, <1>2, <1>7, SumChanges
<1>9. SumFunctionOnSet(g2, D) = SumFunctionOnSet(g, D) + g2[o] - g[o]
  BY <1>1, <1>2, <1>7, SumChanges
<1>10. SumFunctionOnSet(f, D) \in Int /\ SumFunctionOnSet(g, D) \in Int
  BY <1>1, SumInt
<1>11. CashFor(new, c) = CashFor(os, c)
                 + (IF os[o].company = c THEN new[o].reservedCash - os[o].reservedCash ELSE 0)
  BY <1>3, <1>4, <1>5, <1>8, <1>10
<1>12. StockFor(new, c, i) = StockFor(os, c, i)
                 + (IF os[o].company = c /\ os[o].item = i
                    THEN new[o].reservedQuantity - os[o].reservedQuantity ELSE 0)
  BY <1>3, <1>4, <1>6, <1>9, <1>10
<1> QED
  BY <1>11, <1>12

\* A new order adds to what is reserved, and has received nothing.
LEMMA OrderPlaced ==
    ASSUME Typed, OrdersSound, NEW row \in BookRow, OrderSound(row), row.remaining = row.quantity,
           orders' = Append(orders, row)
    PROVE  /\ OrdersSound' /\ OrdersKept
           /\ \A c, i : /\ CashFor(orders', c) = CashFor(orders, c)
                              + (IF row.company = c THEN row.reservedCash ELSE 0)
                        /\ StockFor(orders', c, i) = StockFor(orders, c, i)
                              + (IF row.company = c /\ row.item = i THEN row.reservedQuantity ELSE 0)
           /\ \A i : BoughtOf(orders', i) = BoughtOf(orders, i)
<1>1. orders \in Seq(BookRow)
  BY DEF Typed
<1> DEFINE new == Len(orders) + 1
<1>2. /\ orders' \in Seq(BookRow) /\ DOMAIN orders' = (DOMAIN orders) \cup {new}
      /\ new \notin DOMAIN orders /\ \A o \in DOMAIN orders : orders'[o] = orders[o]
      /\ orders'[new] = row
  BY <1>1, RowAdded
<1> HIDE DEF new
<1>3. OrdersSound' /\ OrdersKept
  BY <1>2 DEF OrdersSound, OrdersKept, Kept
<1>4. ASSUME NEW c, NEW i
      PROVE  /\ CashFor(orders', c) = CashFor(orders, c)
                    + (IF row.company = c THEN row.reservedCash ELSE 0)
             /\ StockFor(orders', c, i) = StockFor(orders, c, i)
                    + (IF row.company = c /\ row.item = i THEN row.reservedQuantity ELSE 0)
  <2>1. orders \in Trading!Books /\ row \in Trading!OrderRow
    BY <1>1 DEF Trading!Books, BookRow
  <2>2. /\ Trading!SumFunctionOnSet(Trading!CashHeld(orders', c), DOMAIN orders') =
              Trading!SumFunctionOnSet(Trading!CashHeld(orders, c), DOMAIN orders)
                 + (IF row.company = c THEN row.reservedCash ELSE 0)
        /\ Trading!SumFunctionOnSet(Trading!StockHeld(orders', c, i), DOMAIN orders') =
              Trading!SumFunctionOnSet(Trading!StockHeld(orders, c, i), DOMAIN orders)
                 + (IF row.company = c /\ row.item = i THEN row.reservedQuantity ELSE 0)
    BY <2>1, TradingAssumption, Trading!NewOrderHeld
  <2> QED
    BY <2>2, TradingSum DEF CashFor, StockFor
<1>5. ASSUME NEW i PROVE BoughtOf(orders', i) = BoughtOf(orders, i)
  <2>1. /\ IsFiniteSet(DOMAIN orders) /\ IsFiniteSet(DOMAIN orders')
        /\ \A o \in DOMAIN orders : Received(orders, i)[o] \in Int
    BY <1>1, <1>2, ReceivedInt
  <2>2. \A o \in DOMAIN orders : Received(orders', i)[o] = Received(orders, i)[o]
    BY <1>2 DEF Received
  <2>3. Received(orders', i)[new] = 0
    <3>1. row.quantity \in Int /\ row.remaining \in Int
      BY BookFields DEF Positive
    <3> QED
      BY <1>2, <3>1 DEF Received
  <2>4. DOMAIN orders \in SUBSET DOMAIN orders'
        /\ \A o \in DOMAIN orders' \ DOMAIN orders : Received(orders', i)[o] = 0
    BY <1>2, <2>3
  <2> QED
    BY <2>1, <2>2, <2>4, SumOverPart DEF BoughtOf
<1> QED
  BY <1>3, <1>4, <1>5

\* A withdrawn order gives back what it had reserved, and keeps what it has
\* received.
LEMMA OrderWithdrawn ==
    ASSUME Typed, OrdersSound, NEW o \in DOMAIN orders, orders[o].status = "OPEN",
           orders' = [orders EXCEPT ![o] = ClosedWithoutReserve(orders[o])]
    PROVE  /\ OrdersSound' /\ OrdersKept
           /\ \A c, i : /\ CashFor(orders', c) = CashFor(orders, c)
                              + (IF orders[o].company = c THEN -orders[o].reservedCash ELSE 0)
                        /\ StockFor(orders', c, i) = StockFor(orders, c, i)
                              + (IF orders[o].company = c /\ orders[o].item = i
                                 THEN -orders[o].reservedQuantity ELSE 0)
           /\ \A i : BoughtOf(orders', i) = BoughtOf(orders, i)
<1>1. orders \in Seq(BookRow) /\ orders[o] \in BookRow
  BY RowsOfTable DEF Typed
<1> DEFINE row == ClosedWithoutReserve(orders[o])
<1>2. /\ row \in BookRow /\ row.company = orders[o].company /\ row.item = orders[o].item
      /\ row.side = orders[o].side /\ row.quantity = orders[o].quantity
      /\ row.remaining = orders[o].remaining /\ row.reservedCash = 0 /\ row.reservedQuantity = 0
  BY <1>1 DEF ClosedWithoutReserve, BookRow, Trading!OrderRow
<1>3. OrderSound(row)
  BY <1>1, WithdrawnOrderSound DEF OrdersSound
<1>4. orders[o].reservedCash \in Nat /\ orders[o].reservedQuantity \in Nat
  BY <1>1, BookFields
<1> HIDE DEF row
<1>5. orders' = [orders EXCEPT ![o] = row]
  BY DEF row
<1>6. /\ orders' \in Seq(BookRow) /\ DOMAIN orders' = DOMAIN orders
      /\ \A p \in DOMAIN orders : orders'[p] = IF p = o THEN row ELSE orders[p]
  BY <1>1, <1>2, <1>5, RowReplaced
<1>7. OrdersSound' /\ OrdersKept
  BY <1>3, <1>6 DEF OrdersSound, OrdersKept, Kept
<1>8. ASSUME NEW c, NEW i
      PROVE  /\ CashFor(orders', c) = CashFor(orders, c)
                    + (IF orders[o].company = c THEN -orders[o].reservedCash ELSE 0)
             /\ StockFor(orders', c, i) = StockFor(orders, c, i)
                    + (IF orders[o].company = c /\ orders[o].item = i
                       THEN -orders[o].reservedQuantity ELSE 0)
  <2> DEFINE a == orders[o].reservedCash
             n == orders[o].reservedQuantity
  <2>1. orders'[o] = row /\ \A p \in DOMAIN orders \ {o} : orders'[p] = orders[p]
    BY <1>6
  <2>2. /\ CashFor(orders', c) = CashFor(orders, c)
              + (IF orders[o].company = c THEN row.reservedCash - a ELSE 0)
        /\ StockFor(orders', c, i) = StockFor(orders, c, i)
              + (IF orders[o].company = c /\ orders[o].item = i
                 THEN row.reservedQuantity - n ELSE 0)
    <3>1. orders'[o].company = orders[o].company /\ orders'[o].item = orders[o].item
      BY <1>2, <2>1
    <3>2. /\ CashFor(orders', c) = CashFor(orders, c)
                + (IF orders[o].company = c THEN orders'[o].reservedCash - orders[o].reservedCash ELSE 0)
          /\ StockFor(orders', c, i) = StockFor(orders, c, i)
                + (IF orders[o].company = c /\ orders[o].item = i
                   THEN orders'[o].reservedQuantity - orders[o].reservedQuantity ELSE 0)
      BY ONLY <1>1, <1>6, <2>1, <3>1, OrderChanged, o \in DOMAIN orders
    <3> QED
      BY <2>1, <3>2
  <2>3. a \in Nat /\ n \in Nat
    BY <1>4
  <2> HIDE DEF a, n
  <2>4. row.reservedCash - a = -a /\ row.reservedQuantity - n = -n
    <3>1. 0 - a = -a /\ 0 - n = -n
      BY <2>3
    <3> QED
      BY <1>2, <3>1
  <2> QED
    BY <2>2, <2>4 DEF a, n
<1>9. ASSUME NEW i PROVE BoughtOf(orders', i) = BoughtOf(orders, i)
  <2>1. IsFiniteSet(DOMAIN orders)
    BY <1>1, RowsOfTable
  <2>2. \A p \in DOMAIN orders : Received(orders', i)[p] = Received(orders, i)[p]
    BY <1>2, <1>6 DEF Received
  <2>3. SumFunctionOnSet(Received(orders', i), DOMAIN orders)
           = SumFunctionOnSet(Received(orders, i), DOMAIN orders)
    BY <2>1, <2>2, SumSame
  <2> QED
    BY <1>6, <2>3 DEF BoughtOf
<1> QED
  BY <1>7, <1>8, <1>9

-----------------------------------------------------------------------------
(* What jobs hold, and have made.                                          *)

\* What each running job holds of an item, and what each completed one has made
\* of it.
JobHeld(js, c, i) ==
    [j \in DOMAIN js |-> IF js[j].company = c /\ js[j].status = "IN_PROGRESS"
                         THEN Required(js[j].recipe, js[j].runs, i) ELSE 0]

JobsHold(js, c, i) == SumFunctionOnSet(JobHeld(js, c, i), DOMAIN js)

JobMade(js, i) ==
    [j \in DOMAIN js |-> IF js[j].status = "COMPLETED" THEN MadeBy(js[j], i) ELSE 0]

JobsMade(js, i) == SumFunctionOnSet(JobMade(js, i), DOMAIN js)

\* What jobs need and make are numbers.
LEMMA JobRowAmounts ==
    ASSUME NEW row \in JobRow, NEW i \in Items
    PROVE  /\ Required(row.recipe, row.runs, i) \in Nat
           /\ MadeBy(row, i) \in Int
           /\ MadeBy(row, i) >= -Required(row.recipe, row.runs, i)
<1>1. row.recipe \in Recipes /\ row.runs \in Positive
  BY JobFields
<1>2. Required(row.recipe, row.runs, i) \in Nat
  BY <1>1, JobAmounts
<1> DEFINE out == Output[row.recipe].quantity * row.runs
<1>3. out \in Nat
  <2>1. Output[row.recipe].quantity \in Positive
    BY <1>1, ProductionAssumption DEF Positive
  <2>2. out \in Positive
    BY <1>1, <2>1, Quotients
  <2> QED
    BY <2>2 DEF Positive
<1>4. MadeBy(row, i) = (IF Output[row.recipe].item = i THEN out ELSE 0)
                          - Required(row.recipe, row.runs, i)
  BY DEF MadeBy
<1> HIDE DEF out
<1> QED
  BY <1>2, <1>3, <1>4

\* What a job adds to the sums depends on its row only.
LEMMA JobTerms ==
    ASSUME NEW js, NEW new, NEW j \in DOMAIN js, j \in DOMAIN new, new[j] = js[j], NEW c, NEW i
    PROVE  JobHeld(new, c, i)[j] = JobHeld(js, c, i)[j] /\ JobMade(new, i)[j] = JobMade(js, i)[j]
BY DEF JobHeld, JobMade

\* The functions summed are numbers.
LEMMA JobSumsTyped ==
    ASSUME NEW js \in Seq(JobRow), NEW c, NEW i \in Items
    PROVE  /\ IsFiniteSet(DOMAIN js)
           /\ \A j \in DOMAIN js : JobHeld(js, c, i)[j] \in Nat /\ JobMade(js, i)[j] \in Int
           /\ JobsHold(js, c, i) \in Nat /\ JobsMade(js, i) \in Int
<1>1. IsFiniteSet(DOMAIN js) /\ \A j \in DOMAIN js : js[j] \in JobRow
  BY RowsOfTable
<1>2. \A j \in DOMAIN js : JobHeld(js, c, i)[j] \in Nat
  BY <1>1, JobRowAmounts DEF JobHeld
<1>3. \A j \in DOMAIN js : JobMade(js, i)[j] \in Int
  BY <1>1, JobRowAmounts DEF JobMade
<1>4. JobsHold(js, c, i) \in Nat
  BY <1>1, <1>2, SumNat DEF JobsHold
<1>5. JobsMade(js, i) \in Int
  BY <1>1, <1>3, SumInt DEF JobsMade
<1> QED
  BY <1>1, <1>2, <1>3, <1>4, <1>5

\* A job that starts holds its inputs and has made nothing.
LEMMA JobStarted ==
    ASSUME Typed, NEW row \in JobRow, row.status = "IN_PROGRESS", jobs' = Append(jobs, row),
           NEW c, NEW i \in Items
    PROVE  /\ JobsHold(jobs', c, i) = JobsHold(jobs, c, i)
                 + (IF row.company = c THEN Required(row.recipe, row.runs, i) ELSE 0)
           /\ JobsMade(jobs', i) = JobsMade(jobs, i)
<1> DEFINE D == DOMAIN jobs
           n == Len(jobs) + 1
           f == JobHeld(jobs, c, i)
           f2 == JobHeld(jobs', c, i)
           g == JobMade(jobs, i)
           g2 == JobMade(jobs', i)
<1>1. /\ jobs \in Seq(JobRow) /\ jobs' \in Seq(JobRow)
      /\ DOMAIN jobs' = D \cup {n} /\ n \notin D
      /\ \A j \in D : jobs'[j] = jobs[j]
      /\ jobs'[n] = row
  BY RowAdded DEF Typed
<1>2. /\ IsFiniteSet(D) /\ IsFiniteSet(DOMAIN jobs')
      /\ \A j \in D : f[j] \in Int /\ g[j] \in Int
      /\ \A j \in DOMAIN jobs' : f2[j] \in Int /\ g2[j] \in Int
      /\ JobsHold(jobs, c, i) \in Int
  <2> HIDE DEF n
  <2>1. i \in Items
    OBVIOUS
  <2> QED
    BY ONLY <1>1, <2>1, JobSumsTyped
<1>3. \A j \in D : f2[j] = f[j] /\ g2[j] = g[j]
  <2> HIDE DEF n
  <2>1. ASSUME NEW j \in D PROVE f2[j] = f[j] /\ g2[j] = g[j]
    <3>1. j \in DOMAIN jobs /\ j \in DOMAIN jobs' /\ jobs'[j] = jobs[j]
      BY <1>1
    <3> QED
      BY ONLY <3>1, JobTerms
  <2> QED
    BY <2>1
<1>4. /\ f2[n] = (IF row.company = c THEN Required(row.recipe, row.runs, i) ELSE 0)
      /\ g2[n] = 0
  BY <1>1 DEF JobHeld, JobMade
<1>5. /\ JobsHold(jobs, c, i) = SumFunctionOnSet(f, D)
      /\ JobsHold(jobs', c, i) = SumFunctionOnSet(f2, D \cup {n})
      /\ JobsMade(jobs, i) = SumFunctionOnSet(g, D)
      /\ JobsMade(jobs', i) = SumFunctionOnSet(g2, D \cup {n})
  BY <1>1 DEF JobsHold, JobsMade
<1>6. \A j \in D \cup {n} : f2[j] \in Int /\ g2[j] \in Int
  BY <1>1, <1>2
<1>7. n \notin D
  BY <1>1
<1> HIDE DEF D, n, f, f2, g, g2
<1>8. SumFunctionOnSet(f2, D \cup {n}) = SumFunctionOnSet(f2, D) + f2[n]
  BY <1>2, <1>6, <1>7, SumAddElement
<1>9. SumFunctionOnSet(g2, D \cup {n}) = SumFunctionOnSet(g2, D) + g2[n]
  BY <1>2, <1>6, <1>7, SumAddElement
<1>10. SumFunctionOnSet(f2, D) = SumFunctionOnSet(f, D) /\ SumFunctionOnSet(g2, D) = SumFunctionOnSet(g, D)
  BY <1>2, <1>3, SumSame
<1>11. SumFunctionOnSet(g, D) \in Int
  BY <1>2, SumInt
<1>12. JobsHold(jobs', c, i) = JobsHold(jobs, c, i)
                 + (IF row.company = c THEN Required(row.recipe, row.runs, i) ELSE 0)
  BY <1>4, <1>5, <1>8, <1>10
<1>13. JobsMade(jobs', i) = JobsMade(jobs, i)
  BY <1>4, <1>5, <1>9, <1>10, <1>11
<1> QED
  BY <1>12, <1>13

\* A job that ends holds nothing any more, and has made its output if it is
\* completed.
LEMMA JobEnded ==
    ASSUME Typed, NEW k \in DOMAIN jobs, jobs[k].status = "IN_PROGRESS",
           NEW status \in {"CANCELLED", "COMPLETED"}, jobs' = [jobs EXCEPT ![k].status = status],
           NEW c, NEW i \in Items
    PROVE  /\ JobsHold(jobs', c, i) = JobsHold(jobs, c, i)
                 - (IF jobs[k].company = c THEN Required(jobs[k].recipe, jobs[k].runs, i) ELSE 0)
           /\ JobsMade(jobs', i) = JobsMade(jobs, i)
                 + (IF status = "COMPLETED" THEN MadeBy(jobs[k], i) ELSE 0)
<1> DEFINE D == DOMAIN jobs
           f == JobHeld(jobs, c, i)
           f2 == JobHeld(jobs', c, i)
           g == JobMade(jobs, i)
           g2 == JobMade(jobs', i)
<1>1. /\ jobs \in Seq(JobRow) /\ jobs' \in Seq(JobRow) /\ DOMAIN jobs' = D
      /\ \A j \in D \ {k} : jobs'[j] = jobs[j]
      /\ jobs'[k].company = jobs[k].company /\ jobs'[k].recipe = jobs[k].recipe
      /\ jobs'[k].runs = jobs[k].runs /\ jobs'[k].status = status
  BY JobWritten DEF Typed
<1>2. /\ IsFiniteSet(D)
      /\ \A j \in D : f[j] \in Int /\ g[j] \in Int
      /\ \A j \in D : f2[j] \in Int /\ g2[j] \in Int
  <2>1. /\ IsFiniteSet(DOMAIN jobs)
        /\ \A j \in DOMAIN jobs : JobHeld(jobs, c, i)[j] \in Nat /\ JobMade(jobs, i)[j] \in Int
    BY <1>1, JobSumsTyped
  <2>2. \A j \in DOMAIN jobs' : JobHeld(jobs', c, i)[j] \in Nat /\ JobMade(jobs', i)[j] \in Int
    BY <1>1, JobSumsTyped
  <2>3. DOMAIN jobs' = D /\ \A n \in Nat : n \in Int
    BY <1>1
  <2>4. \A j \in D : f[j] \in Nat /\ g[j] \in Int
    BY ONLY <2>1
  <2>5. \A j \in D : f2[j] \in Nat /\ g2[j] \in Int
    BY ONLY <2>2, <2>3
  <2> HIDE DEF D, f, f2, g, g2
  <2> QED
    BY <2>1, <2>3, <2>4, <2>5 DEF D
<1>3. \A j \in D \ {k} : f2[j] = f[j] /\ g2[j] = g[j]
  <2>1. ASSUME NEW j \in D \ {k} PROVE f2[j] = f[j] /\ g2[j] = g[j]
    <3>1. j \in DOMAIN jobs /\ j \in DOMAIN jobs' /\ jobs'[j] = jobs[j]
      BY <1>1
    <3> QED
      BY ONLY <3>1, JobTerms
  <2> QED
    BY <2>1
<1>4. MadeBy(jobs'[k], i) = MadeBy(jobs[k], i)
  BY <1>1 DEF MadeBy
<1>5. /\ f[k] = (IF jobs[k].company = c THEN Required(jobs[k].recipe, jobs[k].runs, i) ELSE 0)
      /\ f2[k] = 0
      /\ g[k] = 0
      /\ g2[k] = (IF status = "COMPLETED" THEN MadeBy(jobs[k], i) ELSE 0)
  BY <1>1, <1>4 DEF JobHeld, JobMade
<1>6. /\ JobsHold(jobs, c, i) = SumFunctionOnSet(f, D)
      /\ JobsHold(jobs', c, i) = SumFunctionOnSet(f2, D)
      /\ JobsMade(jobs, i) = SumFunctionOnSet(g, D)
      /\ JobsMade(jobs', i) = SumFunctionOnSet(g2, D)
      /\ k \in D
  BY <1>1 DEF JobsHold, JobsMade
<1> HIDE DEF D, f, f2, g, g2
<1>7. SumFunctionOnSet(f2, D) = SumFunctionOnSet(f, D) + f2[k] - f[k]
  BY <1>2, <1>3, <1>6, SumChanges
<1>8. SumFunctionOnSet(g2, D) = SumFunctionOnSet(g, D) + g2[k] - g[k]
  BY <1>2, <1>3, <1>6, SumChanges
<1>9. SumFunctionOnSet(f, D) \in Int /\ SumFunctionOnSet(g, D) \in Int /\ f[k] \in Int /\ g2[k] \in Int
  BY <1>2, <1>6, SumInt
<1>10. JobsHold(jobs', c, i) = JobsHold(jobs, c, i) - f[k]
  BY <1>5, <1>6, <1>7, <1>9
<1>11. JobsMade(jobs', i) = JobsMade(jobs, i) + g2[k]
  BY <1>5, <1>6, <1>8, <1>9
<1> QED
  BY <1>5, <1>10, <1>11

-----------------------------------------------------------------------------
(* Goods: where they are, and what is accounted for.                       *)

\* What each company has of an item in both regions, and what each shipment has
\* of it on its way.
HereTerm(st, dp, i) == [c \in Companies |-> st[c][i].quantity + dp[c][i]]

HereOf(st, dp, i) == SumFunctionOnSet(HereTerm(st, dp, i), Companies)

AwayTerm(sh, i) ==
    [s \in DOMAIN sh |-> IF sh[s].item = i /\ sh[s].status = "IN_TRANSIT" THEN sh[s].quantity ELSE 0]

AwayOf(sh, i) == SumFunctionOnSet(AwayTerm(sh, i), DOMAIN sh)

\* What companies have in store are numbers.
LEMMA HereTyped ==
    ASSUME stock \in StockRows, depot \in DepotRows, NEW i \in Items
    PROVE  /\ IsFiniteSet(Companies)
           /\ \A c \in Companies : HereTerm(stock, depot, i)[c] \in Int
           /\ HereOf(stock, depot, i) \in Int
<1>1. IsFiniteSet(Companies)
  BY AmountsAssumption
<1>2. ASSUME NEW c \in Companies PROVE HereTerm(stock, depot, i)[c] \in Int
  <2>1. stock[c][i].quantity \in Nat /\ depot[c][i] \in Nat
    BY DEF StockRows, DepotRows
  <2> QED
    BY <2>1 DEF HereTerm
<1>3. HereOf(stock, depot, i) \in Int
  BY ONLY <1>1, <1>2, SumInt DEF HereOf
<1> QED
  BY <1>1, <1>2, <1>3

\* What is in store changes with what one company has.
LEMMA HereChanged ==
    ASSUME Typed, NEW i \in Items, NEW c \in Companies, NEW k \in Int,
           \A d \in Companies : stock'[d][i].quantity + depot'[d][i]
                                   = stock[d][i].quantity + depot[d][i] + (IF d = c THEN k ELSE 0)
    PROVE  HereOf(stock', depot', i) = HereOf(stock, depot, i) + k
<1> DEFINE f == HereTerm(stock, depot, i)
           g == HereTerm(stock', depot', i)
<1>1. /\ IsFiniteSet(Companies) /\ \A d \in Companies : f[d] \in Int
      /\ HereOf(stock, depot, i) \in Int
  BY HereTyped DEF Typed
<1>2. \A d \in Companies : g[d] = f[d] + (IF d = c THEN k ELSE 0)
  BY DEF HereTerm
<1>3. /\ g[c] = f[c] + k /\ g[c] \in Int /\ f[c] \in Int
      /\ \A d \in Companies \ {c} : g[d] = f[d]
  BY <1>1, <1>2
<1>4. /\ HereOf(stock, depot, i) = SumFunctionOnSet(f, Companies)
      /\ HereOf(stock', depot', i) = SumFunctionOnSet(g, Companies)
  BY DEF HereOf
<1> HIDE DEF f, g
<1>5. SumFunctionOnSet(g, Companies) = SumFunctionOnSet(f, Companies) + g[c] - f[c]
  BY <1>1, <1>3, SumChanges
<1> QED
  BY <1>1, <1>3, <1>4, <1>5

\* What is in store stays when goods go from one company to another.
LEMMA HereExchanged ==
    ASSUME Typed, NEW i \in Items, NEW b \in Companies, NEW s \in Companies, NEW k \in Int,
           depot' = depot,
           \A d \in Companies : stock'[d][i].quantity = stock[d][i].quantity
                                   - (IF d = s THEN k ELSE 0) + (IF d = b THEN k ELSE 0)
    PROVE  HereOf(stock', depot', i) = HereOf(stock, depot, i)
<1> DEFINE f == HereTerm(stock, depot, i)
           g == HereTerm(stock', depot', i)
<1>1. IsFiniteSet(Companies) /\ \A d \in Companies : f[d] \in Int
  BY HereTyped DEF Typed
<1>2. ASSUME NEW d \in Companies
      PROVE  g[d] = f[d] - (IF d = s THEN k ELSE 0) + (IF d = b THEN k ELSE 0)
  <2>1. stock[d][i].quantity \in Nat /\ depot[d][i] \in Nat
    BY DEF Typed, StockRows, DepotRows
  <2>2. /\ f[d] = stock[d][i].quantity + depot[d][i]
        /\ g[d] = stock'[d][i].quantity + depot[d][i]
    BY DEF HereTerm
  <2>3. stock'[d][i].quantity = stock[d][i].quantity
           - (IF d = s THEN k ELSE 0) + (IF d = b THEN k ELSE 0)
    OBVIOUS
  <2> HIDE DEF f, g
  <2> QED
    BY <2>1, <2>2, <2>3
<1>3. /\ HereOf(stock, depot, i) = SumFunctionOnSet(f, Companies)
      /\ HereOf(stock', depot', i) = SumFunctionOnSet(g, Companies)
  BY DEF HereOf
<1> HIDE DEF f, g
<1>4. SumFunctionOnSet(g, Companies) = SumFunctionOnSet(f, Companies)
  BY ONLY <1>1, <1>2, s \in Companies, b \in Companies, k \in Int, SumMoved
<1> QED
  BY <1>3, <1>4

\* What shipments carry are numbers.
LEMMA AwayTyped ==
    ASSUME NEW sh \in Seq(ShipmentRow), NEW i
    PROVE  /\ IsFiniteSet(DOMAIN sh)
           /\ \A s \in DOMAIN sh : AwayTerm(sh, i)[s] \in Int
           /\ AwayOf(sh, i) \in Int
<1>1. IsFiniteSet(DOMAIN sh) /\ \A s \in DOMAIN sh : sh[s] \in ShipmentRow
  BY RowsOfTable
<1>2. \A s \in DOMAIN sh : AwayTerm(sh, i)[s] \in Int
  BY <1>1, ShipmentFields DEF AwayTerm, Positive
<1>3. AwayOf(sh, i) \in Int
  BY ONLY <1>1, <1>2, SumInt DEF AwayOf
<1> QED
  BY <1>1, <1>2, <1>3

\* A row that is kept carries what it did.
LEMMA AwayTermKept ==
    ASSUME NEW sh, NEW new, NEW s \in DOMAIN sh, s \in DOMAIN new, new[s] = sh[s], NEW i
    PROVE  AwayTerm(new, i)[s] = AwayTerm(sh, i)[s]
BY DEF AwayTerm

\* A shipment that is created carries its goods.
LEMMA ShipmentLoaded ==
    ASSUME Typed, NEW row \in ShipmentRow, row.status = "IN_TRANSIT",
           shipments' = Append(shipments, row), NEW i \in Items
    PROVE  AwayOf(shipments', i) = AwayOf(shipments, i) + (IF row.item = i THEN row.quantity ELSE 0)
<1> DEFINE D == DOMAIN shipments
           n == Len(shipments) + 1
           f == AwayTerm(shipments, i)
           g == AwayTerm(shipments', i)
<1>1. /\ shipments \in Seq(ShipmentRow) /\ shipments' \in Seq(ShipmentRow)
      /\ DOMAIN shipments' = D \cup {n} /\ n \notin D
      /\ \A s \in D : shipments'[s] = shipments[s]
      /\ shipments'[n] = row
  BY RowAdded DEF Typed
<1>2. /\ IsFiniteSet(D) /\ \A s \in D : f[s] \in Int
      /\ \A s \in DOMAIN shipments' : g[s] \in Int
  <2> HIDE DEF n
  <2> QED
    BY ONLY <1>1, AwayTyped
<1>3. ASSUME NEW s \in D PROVE g[s] = f[s]
  <2>1. s \in DOMAIN shipments /\ s \in DOMAIN shipments' /\ shipments'[s] = shipments[s]
    BY <1>1
  <2> QED
    BY ONLY <2>1, AwayTermKept
<1>4. g[n] = (IF row.item = i THEN row.quantity ELSE 0)
  BY <1>1 DEF AwayTerm
<1>5. /\ AwayOf(shipments, i) = SumFunctionOnSet(f, D)
      /\ AwayOf(shipments', i) = SumFunctionOnSet(g, D \cup {n})
      /\ n \notin D /\ \A s \in D \cup {n} : g[s] \in Int
  BY <1>1, <1>2 DEF AwayOf
<1> HIDE DEF D, n, f, g
<1>6. SumFunctionOnSet(g, D \cup {n}) = SumFunctionOnSet(g, D) + g[n]
  BY <1>2, <1>5, SumAddElement
<1>7. SumFunctionOnSet(g, D) = SumFunctionOnSet(f, D)
  BY <1>2, <1>3, SumSame
<1> QED
  BY <1>4, <1>5, <1>6, <1>7

\* A shipment that is closed carries nothing any more.
LEMMA ShipmentClosed ==
    ASSUME Typed, NEW k \in DOMAIN shipments, shipments[k].status = "IN_TRANSIT",
           NEW status \in {"CANCELLED", "DELIVERED"},
           shipments' = [shipments EXCEPT ![k].status = status], NEW i \in Items
    PROVE  AwayOf(shipments', i) = AwayOf(shipments, i)
                - (IF shipments[k].item = i THEN shipments[k].quantity ELSE 0)
<1> DEFINE D == DOMAIN shipments
           f == AwayTerm(shipments, i)
           g == AwayTerm(shipments', i)
<1>1. /\ shipments \in Seq(ShipmentRow) /\ shipments' \in Seq(ShipmentRow)
      /\ DOMAIN shipments' = D /\ \A s \in D : s # k => shipments'[s] = shipments[s]
      /\ shipments'[k].item = shipments[k].item /\ shipments'[k].status = status
  BY ShipmentWritten DEF Typed
<1>2. /\ IsFiniteSet(D) /\ \A s \in D : f[s] \in Int
      /\ \A s \in DOMAIN shipments' : g[s] \in Int
      /\ AwayOf(shipments, i) \in Int
  BY ONLY <1>1, AwayTyped
<1>3. ASSUME NEW s \in D \ {k} PROVE g[s] = f[s]
  <2>1. s \in DOMAIN shipments /\ s \in DOMAIN shipments' /\ shipments'[s] = shipments[s]
    BY <1>1
  <2> QED
    BY ONLY <2>1, AwayTermKept
<1>4. /\ g[k] = 0 /\ k \in D
      /\ f[k] = (IF shipments[k].item = i THEN shipments[k].quantity ELSE 0)
  BY <1>1 DEF AwayTerm
<1>5. /\ AwayOf(shipments, i) = SumFunctionOnSet(f, D)
      /\ AwayOf(shipments', i) = SumFunctionOnSet(g, D)
      /\ f[k] \in Int /\ g[k] \in Int
  BY <1>1, <1>2, <1>4 DEF AwayOf
<1> HIDE DEF D, f, g
<1>6. SumFunctionOnSet(g, D) = SumFunctionOnSet(f, D) + g[k] - f[k]
  BY <1>2, <1>3, <1>4, <1>5, SumChanges
<1> QED
  BY <1>2, <1>4, <1>5, <1>6

\* What there is of an item and has been consumed of it, without what jobs made.
Accounted(st, dp, sh, js, cs, i) == HereOf(st, dp, i) + AwayOf(sh, i) - JobsMade(js, i) + cs[i]

GoodsKept ==
    \A i \in Items : Accounted(stock', depot', shipments', jobs', consumed', i)
                        = Accounted(stock, depot, shipments, jobs, consumed, i)

\* The parts of the account are numbers.
LEMMA AccountTyped ==
    ASSUME Typed, NEW i \in Items
    PROVE  /\ HereOf(stock, depot, i) \in Int /\ AwayOf(shipments, i) \in Int
           /\ JobsMade(jobs, i) \in Int /\ consumed[i] \in Nat
<1>1. shipments \in Seq(ShipmentRow) /\ jobs \in Seq(JobRow)
      /\ stock \in StockRows /\ depot \in DepotRows /\ consumed[i] \in Nat
  BY DEF Typed
<1>2. HereOf(stock, depot, i) \in Int
  BY <1>1, HereTyped
<1>3. AwayOf(shipments, i) \in Int
  BY ONLY <1>1, AwayTyped
<1>4. JobsMade(jobs, i) \in Int
  BY ONLY <1>1, i \in Items, JobSumsTyped
<1> QED
  BY <1>1, <1>2, <1>3, <1>4

\* Goods that stay where they are stay accounted for.
LEMMA GoodsUntouched ==
    ASSUME UNCHANGED <<stock, depot, shipments, jobs, consumed>>
    PROVE  GoodsKept
BY DEF GoodsKept

\* Reserving goods does not move them.
LEMMA ReservedGoodsStay ==
    ASSUME NEW i \in Items, depot' = depot,
           \A d \in Companies : stock'[d][i].quantity = stock[d][i].quantity
    PROVE  HereOf(stock', depot', i) = HereOf(stock, depot, i)
<1>1. ASSUME NEW d \in Companies
      PROVE  HereTerm(stock', depot', i)[d] = HereTerm(stock, depot, i)[d]
  BY DEF HereTerm
<1>2. IsFiniteSet(Companies)
  BY AmountsAssumption
<1> QED
  BY ONLY <1>1, <1>2, SumSame DEF HereOf

\* What one company's stock of one item gains is in store.
LEMMA HereStocked ==
    ASSUME Typed, NEW c \in Companies, NEW j \in Items, NEW q \in Int, NEW r,
           Stocked(c, j, q, r), depot' = depot, NEW i \in Items
    PROVE  HereOf(stock', depot', i) = HereOf(stock, depot, i) + (IF i = j THEN q ELSE 0)
<1> DEFINE k == IF i = j THEN q ELSE 0
<1>1. k \in Int
  OBVIOUS
<1>2. ASSUME NEW d \in Companies
      PROVE  stock'[d][i].quantity + depot'[d][i]
                = stock[d][i].quantity + depot[d][i] + (IF d = c THEN k ELSE 0)
  <2>1. stock[d][i].quantity \in Nat /\ depot[d][i] \in Nat
    BY DEF Typed, StockRows, DepotRows
  <2>2. stock'[d][i].quantity = stock[d][i].quantity + (IF d = c /\ i = j THEN q ELSE 0)
    BY DEF Stocked
  <2> QED
    BY <2>1, <2>2
<1> HIDE DEF k
<1>3. HereOf(stock', depot', i) = HereOf(stock, depot, i) + k
  BY ONLY <1>1, <1>2, Typed, i \in Items, c \in Companies, HereChanged
<1> QED
  BY <1>3 DEF k

\* What a company's depot gains of one item is in store as well.
LEMMA HereStowed ==
    ASSUME Typed, NEW c \in Companies, NEW j \in Items, NEW q \in Int,
           Stowed(c, j, q), stock' = stock, NEW i \in Items
    PROVE  HereOf(stock', depot', i) = HereOf(stock, depot, i) + (IF i = j THEN q ELSE 0)
<1> DEFINE k == IF i = j THEN q ELSE 0
<1>1. k \in Int
  OBVIOUS
<1>2. ASSUME NEW d \in Companies
      PROVE  stock'[d][i].quantity + depot'[d][i]
                = stock[d][i].quantity + depot[d][i] + (IF d = c THEN k ELSE 0)
  <2>1. stock[d][i].quantity \in Nat /\ depot[d][i] \in Nat
    BY DEF Typed, StockRows, DepotRows
  <2>2. depot'[d][i] = depot[d][i] + (IF d = c /\ i = j THEN q ELSE 0)
    BY DEF Stowed
  <2> QED
    BY <2>1, <2>2
<1> HIDE DEF k
<1>3. HereOf(stock', depot', i) = HereOf(stock, depot, i) + k
  BY ONLY <1>1, <1>2, Typed, i \in Items, c \in Companies, HereChanged
<1> QED
  BY <1>3 DEF k

-----------------------------------------------------------------------------
(* Research: the status of a node, its jobs and what it unlocks agree.     *)

RunningIn(ls, c, n) == {j \in DOMAIN ls : /\ ls[j].company = c /\ ls[j].node = n
                                          /\ ls[j].status = "RUNNING"}

\* The status of node n of company c, its jobs in ls and the recipes known.
NodeSound(rs, ls, kn, c, n) ==
    /\ rs[c][n] = "RESEARCHING" => \E j \in DOMAIN ls : RunningIn(ls, c, n) = {j}
    /\ rs[c][n] # "RESEARCHING" => RunningIn(ls, c, n) = {}
    /\ rs[c][n] \in {"RESEARCHING", "COMPLETED"}
          => \A p \in Prerequisites[n] : rs[c][p] = "COMPLETED"
    /\ rs[c][n] = "COMPLETED" => \A r \in Unlocks[n] : kn[c][r] = "unlocked"

ResearchSound == \A c \in Companies, n \in Nodes : NodeSound(research, labs, known, c, n)

\* Starting research keeps all nodes sound.
LEMMA StartKeepsResearch ==
    ASSUME Typed, clock \in Nat, ResearchSound, NEW c \in Companies, NEW n \in Nodes,
           StartResearch(c, n)
    PROVE  ResearchSound'
<1>1. PICK row \in LabRow :
         /\ row.company = c /\ row.node = n /\ row.status = "RUNNING"
         /\ labs' = Append(labs, row)
         /\ \A d \in Companies, m \in Nodes :
               research'[d][m] = IF d = c /\ m = n THEN "RESEARCHING" ELSE research[d][m]
  <2> DEFINE row == [company |-> c, node |-> n, status |-> "RUNNING",
                     completes |-> clock + ResearchTicks(c, ResearchDuration[n])]
  <2>1. /\ row \in LabRow /\ labs' = Append(labs, row)
        /\ \A d \in Companies, m \in Nodes :
              research'[d][m] = IF d = c /\ m = n THEN "RESEARCHING" ELSE research[d][m]
    BY StartResearchDoes
  <2>2. row.company = c /\ row.node = n /\ row.status = "RUNNING"
    OBVIOUS
  <2> HIDE DEF row
  <2> QED
    BY <2>1, <2>2
<1>2. /\ known' = known /\ research[c][n] \notin {"COMPLETED", "RESEARCHING"}
      /\ RunningIn(labs, c, n) = {}
      /\ \A p \in Prerequisites[n] : research[c][p] = "COMPLETED"
  BY DEF StartResearch, Running, RunningIn, PrerequisitesMet
<1> DEFINE k == Len(labs) + 1
<1>3. /\ DOMAIN labs' = DOMAIN labs \cup {k} /\ k \notin DOMAIN labs
      /\ \A j \in DOMAIN labs : labs'[j] = labs[j]
      /\ labs'[k] = row
  BY <1>1, RowAdded DEF Typed
<1> HIDE DEF k
<1>4. \A d, m : RunningIn(labs', d, m) = RunningIn(labs, d, m)
                                            \cup (IF d = c /\ m = n THEN {k} ELSE {})
  BY <1>1, <1>3 DEF RunningIn
<1>5. \A m \in Nodes : Prerequisites[m] \subseteq Nodes
  BY ResearchAssumption
<1> SUFFICES ASSUME NEW d \in Companies, NEW m \in Nodes
             PROVE  NodeSound(research', labs', known', d, m)
  BY DEF ResearchSound
<1>6. NodeSound(research, labs, known, d, m)
  BY DEF ResearchSound
<1>7. CASE d = c /\ m = n
  <2>1. research'[d][m] = "RESEARCHING" /\ RunningIn(labs', d, m) = {k} /\ k \in DOMAIN labs'
    BY <1>1, <1>2, <1>3, <1>4, <1>7
  <2>2. \A p \in Prerequisites[m] : research'[d][p] = "COMPLETED"
    BY <1>1, <1>2, <1>5, <1>7
  <2> QED
    BY <2>1, <2>2 DEF NodeSound
<1>8. CASE ~(d = c /\ m = n)
  <2>1. research'[d][m] = research[d][m] /\ RunningIn(labs', d, m) = RunningIn(labs, d, m)
    <3>1. research'[d][m] = research[d][m]
      BY <1>1, <1>8
    <3>2. RunningIn(labs', d, m) = RunningIn(labs, d, m) \cup {}
      BY ONLY <1>4, <1>8
    <3> QED
      BY <3>1, <3>2
  <2>2. \A p \in Prerequisites[m] : research[d][p] = "COMPLETED" => research'[d][p] = "COMPLETED"
    BY <1>1, <1>2, <1>5
  <2> QED
    BY <1>2, <1>3, <1>6, <2>1, <2>2 DEF NodeSound
<1> QED
  BY <1>7, <1>8

\* Ending the running research of a node with a status it may have keeps all
\* nodes sound.
LEMMA EndKeepsResearch ==
    ASSUME Typed, ResearchSound, NEW c \in Companies, NEW n \in Nodes, NEW k \in RunningIn(labs, c, n),
           NEW status \in {"CANCELLED", "COMPLETED"}, labs' = [labs EXCEPT ![k].status = status],
           NEW new \in {"AVAILABLE", "LOCKED", "COMPLETED"},
           \A d \in Companies, m \in Nodes :
              research'[d][m] = IF d = c /\ m = n THEN new ELSE research[d][m],
           \A d \in Companies, r \in Recipes : known[d][r] = "unlocked" => known'[d][r] = "unlocked",
           new = "COMPLETED" => \A r \in Unlocks[n] : known'[c][r] = "unlocked"
    PROVE  ResearchSound'
<1>1. /\ k \in DOMAIN labs /\ labs[k].company = c /\ labs[k].node = n
  BY DEF RunningIn
<1>2. /\ DOMAIN labs' = DOMAIN labs
      /\ \A j \in DOMAIN labs : j # k => labs'[j] = labs[j]
      /\ labs'[k].status = status
  <2>1. status \in {"RUNNING", "CANCELLED", "COMPLETED"}
    OBVIOUS
  <2> QED
    BY ONLY <1>1, <2>1, Typed, labs' = [labs EXCEPT ![k].status = status], LabWritten
<1>3. \A d, m : RunningIn(labs', d, m) = RunningIn(labs, d, m) \ {k}
  BY <1>2 DEF RunningIn
<1>4. \A m \in Nodes : Prerequisites[m] \subseteq Nodes /\ Unlocks[m] \subseteq Recipes
  BY ResearchAssumption
<1>5. research[c][n] = "RESEARCHING" /\ RunningIn(labs, c, n) = {k}
  <2>1. NodeSound(research, labs, known, c, n)
    BY DEF ResearchSound
  <2> QED
    BY <2>1 DEF NodeSound
<1> SUFFICES ASSUME NEW d \in Companies, NEW m \in Nodes
             PROVE  NodeSound(research', labs', known', d, m)
  BY DEF ResearchSound
<1>6. NodeSound(research, labs, known, d, m)
  BY DEF ResearchSound
<1>7. \A p \in Prerequisites[m] : research[d][p] = "COMPLETED" => research'[d][p] = "COMPLETED"
  BY <1>4, <1>5
<1>8. CASE d = c /\ m = n
  <2>1. research'[d][m] = new /\ new # "RESEARCHING" /\ RunningIn(labs', d, m) = {}
    <3>1. research'[d][m] = new
      BY <1>8
    <3>2. new # "RESEARCHING"
      OBVIOUS
    <3>3. RunningIn(labs', d, m) = {}
      BY ONLY <1>3, <1>5, <1>8
    <3> QED
      BY <3>1, <3>2, <3>3
  <2>2. \A p \in Prerequisites[m] : research'[d][p] = "COMPLETED"
    BY <1>5, <1>6, <1>7, <1>8 DEF NodeSound
  <2> QED
    BY <1>8, <2>1, <2>2 DEF NodeSound
<1>9. CASE ~(d = c /\ m = n)
  <2>1. research'[d][m] = research[d][m]
    BY <1>9
  <2>2. RunningIn(labs', d, m) = RunningIn(labs, d, m)
    BY <1>1, <1>3, <1>9 DEF RunningIn
  <2>3. \A r \in Unlocks[m] : known[d][r] = "unlocked" => known'[d][r] = "unlocked"
    BY <1>4
  <2> QED
    BY <1>2, <1>6, <1>7, <2>1, <2>2, <2>3 DEF NodeSound
<1> QED
  BY <1>8, <1>9

-----------------------------------------------------------------------------
(* Candles: their volume, and what has been bought.                        *)

\* The volume of an item over all its candles.
VolumeOf(rows, i) ==
    SumFunctionOnSet([row \in {r \in rows : r.item = i} |-> row.volume], {r \in rows : r.item = i})

\* The average and both ends of a candle lie between its extremes.
CandleSound(row) == {row.open, row.close, row.vwap} \subseteq row.low .. row.high

\* No trade, and no candle, is from a later tick than t.
TradedBy(rows, t) == \A k \in DOMAIN rows : rows[k].tick <= t

DrawnBy(rows, t) == \A row \in rows : row.tick <= t /\ CandleSound(row)

\* Rows whose candles show all that was bought up to tick t.
Shown(r, t) ==
    /\ TradedBy(r.trades, t) /\ DrawnBy(r.candles, t)
    /\ \A i \in Items : VolumeOf(r.candles, i) = BoughtOf(r.orders, i)

\* Volumes are numbers.
LEMMA VolumesTyped ==
    ASSUME Typed, NEW i
    PROVE  /\ VolumeOf(candles, i) \in Int /\ BoughtOf(orders, i) \in Int
           /\ \A t : TradedVolume(i, t) \in Int
<1>1. VolumeOf(candles, i) \in Int
  <2> DEFINE S == {r \in candles : r.item = i}
             f == [row \in S |-> row.volume]
  <2>1. IsFiniteSet(S) /\ \A row \in S : f[row] \in Int
    <3>1. IsFiniteSet(candles) /\ candles \subseteq CandleRow
      BY DEF Typed, CandleSets
    <3> QED
      BY <3>1, FS_Subset DEF CandleRow, Positive
  <2>2. VolumeOf(candles, i) = SumFunctionOnSet(f, S)
    BY DEF VolumeOf
  <2> HIDE DEF f, S
  <2> QED
    BY <2>1, <2>2, SumInt
<1>2. BoughtOf(orders, i) \in Int
  <2>1. orders \in Seq(BookRow)
    BY DEF Typed
  <2>2. /\ IsFiniteSet(DOMAIN orders)
        /\ \A o \in DOMAIN orders : Received(orders, i)[o] \in Int
    BY ONLY <2>1, ReceivedInt
  <2>3. SumFunctionOnSet(Received(orders, i), DOMAIN orders) \in Int
    BY ONLY <2>2, SumInt
  <2> QED
    BY ONLY <2>3 DEF BoughtOf
<1>3. ASSUME NEW t PROVE TradedVolume(i, t) \in Int
  <2> DEFINE f == [k \in DOMAIN trades |-> trades[k].quantity]
             S == TradedIn(i, t)
  <2>1. IsFiniteSet(S) /\ \A k \in S : f[k] \in Int
    <3>1. IsFiniteSet(DOMAIN trades) /\ \A k \in DOMAIN trades : trades[k] \in TradeRow
      BY RowsOfTable DEF Typed
    <3> QED
      BY <3>1, FS_Subset DEF TradedIn, TradeRow, Positive
  <2>2. TradedVolume(i, t) = SumFunctionOnSet(f, S)
    BY DEF TradedVolume
  <2> HIDE DEF f, S
  <2> QED
    BY <2>1, <2>2, SumInt
<1> QED
  BY <1>1, <1>2, <1>3

\* A trade of the tick adds its quantity to what was traded in its item.
LEMMA TradeEntered ==
    ASSUME Typed, NEW row \in TradeRow, trades' = Append(trades, row), NEW i, NEW t,
           row.tick = t
    PROVE  SumFunctionOnSet([k \in DOMAIN trades' |-> trades'[k].quantity],
                            {k \in DOMAIN trades' : trades'[k].item = i /\ trades'[k].tick = t})
              = TradedVolume(i, t) + (IF row.item = i THEN row.quantity ELSE 0)
<1> DEFINE D == DOMAIN trades
           a == Len(trades) + 1
           f == [k \in DOMAIN trades |-> trades[k].quantity]
           g == [k \in DOMAIN trades' |-> trades'[k].quantity]
           S == TradedIn(i, t)
           T == {k \in DOMAIN trades' : trades'[k].item = i /\ trades'[k].tick = t}
<1>1. /\ IsFiniteSet(D) /\ \A k \in D : trades[k] \in TradeRow
      /\ DOMAIN trades' = D \cup {a} /\ a \notin D
      /\ \A k \in D : trades'[k] = trades[k]
      /\ trades'[a] = row
  BY RowsOfTable, RowAdded DEF Typed
<1>2. /\ IsFiniteSet(S) /\ a \notin S
      /\ \A k \in S : g[k] \in Int /\ f[k] = g[k]
      /\ g[a] = row.quantity /\ g[a] \in Int
      /\ T = IF row.item = i THEN S \cup {a} ELSE S
  BY <1>1, FS_Subset DEF TradedIn, TradeRow, Positive
<1>3. TradedVolume(i, t) = SumFunctionOnSet(f, S)
  BY DEF TradedVolume
<1> HIDE DEF D, a, f, g, S, T
<1>4. SumFunctionOnSet(f, S) = SumFunctionOnSet(g, S)
  BY ONLY <1>2, SumSame
<1>5. CASE row.item = i
  <2>1. \A k \in S \cup {a} : g[k] \in Int
    BY <1>2
  <2>2. SumFunctionOnSet(g, S \cup {a}) = SumFunctionOnSet(g, S) + g[a]
    BY ONLY <1>2, <2>1, SumAddElement
  <2>3. SumFunctionOnSet(g, T) = TradedVolume(i, t) + (IF row.item = i THEN row.quantity ELSE 0)
    BY <1>2, <1>3, <1>4, <1>5, <2>2
  <2> QED
    BY <2>3 DEF g, T
<1>6. CASE row.item # i
  <2>1. TradedVolume(i, t) \in Int
    BY VolumesTyped
  <2>2. SumFunctionOnSet(g, T) = TradedVolume(i, t) + (IF row.item = i THEN row.quantity ELSE 0)
    BY <1>2, <1>3, <1>4, <1>6, <2>1
  <2> QED
    BY <2>2 DEF g, T
<1> QED
  BY <1>5, <1>6

\* Nothing has been traded yet in a tick that begins.
LEMMA NothingTradedYet ==
    ASSUME Typed, clock \in Nat, TradedBy(trades, clock), NEW i
    PROVE  TradedVolume(i, ThisTick) = 0
<1>1. \A k \in DOMAIN trades : trades[k].tick <= clock /\ trades[k].tick \in Nat
  <2>1. \A k \in DOMAIN trades : trades[k] \in TradeRow
    BY RowsOfTable DEF Typed
  <2> QED
    BY <2>1 DEF TradedBy, TradeRow
<1>2. TradedIn(i, ThisTick) = {}
  BY <1>1 DEF TradedIn, ThisTick
<1> QED
  BY <1>2, SumEmpty DEF TradedVolume

\* Drawing the candles of the tick adds what was traded in it.
LEMMA CandlesAdd ==
    ASSUME Typed, clock \in Nat, UpsertCandles, DrawnBy(candles, clock)
    PROVE  /\ DrawnBy(candles', ThisTick)
           /\ \A i \in Items :
                 VolumeOf(candles', i) = VolumeOf(candles, i) + TradedVolume(i, ThisTick)
<1> DEFINE new == {Candle(i) : i \in {j \in Items : TradesInTick(j) # <<>>}}
<1>1. candles \subseteq CandleRow /\ IsFiniteSet(candles)
  BY DEF Typed, CandleSets
<1>2. {row \in candles : row.tick # ThisTick} = candles
  BY <1>1 DEF DrawnBy, ThisTick, CandleRow
<1>3. candles' = candles \cup new
  BY <1>2, UpsertCandlesDoes
<1>4. \A i \in Items : TradesInTick(i) # <<>> =>
         /\ Candle(i).item = i /\ Candle(i).tick = ThisTick
         /\ Candle(i).volume = TradedVolume(i, ThisTick) /\ Candle(i).volume \in Int
         /\ CandleSound(Candle(i))
  <2> SUFFICES ASSUME NEW i \in Items, TradesInTick(i) # <<>>
               PROVE  /\ Candle(i).item = i /\ Candle(i).tick = ThisTick
                      /\ Candle(i).volume = TradedVolume(i, ThisTick) /\ Candle(i).volume \in Int
                      /\ CandleSound(Candle(i))
    OBVIOUS
  <2>1. /\ Candle(i).item = i /\ Candle(i).tick = ThisTick
        /\ Candle(i).volume = TradedVolume(i, ThisTick)
        /\ {Candle(i).open, Candle(i).close, Candle(i).vwap} \subseteq Candle(i).low .. Candle(i).high
    BY CandleDoes
  <2>2. TradedVolume(i, ThisTick) \in Int
    BY VolumesTyped
  <2> QED
    BY <2>1, <2>2 DEF CandleSound
<1>5. DrawnBy(candles', ThisTick)
  <2> SUFFICES ASSUME NEW row \in candles' PROVE row.tick <= ThisTick /\ CandleSound(row)
    BY DEF DrawnBy
  <2>1. CASE row \in candles
    BY <1>1, <2>1 DEF DrawnBy, ThisTick, CandleRow
  <2>2. CASE row \in new
    BY <1>4, <2>2 DEF ThisTick
  <2> QED
    BY <1>3, <2>1, <2>2
<1>6. ASSUME NEW i \in Items
      PROVE  VolumeOf(candles', i) = VolumeOf(candles, i) + TradedVolume(i, ThisTick)
  <2> DEFINE a == Candle(i)
             S == {r \in candles : r.item = i}
             T == {r \in candles' : r.item = i}
             f == [row \in S |-> row.volume]
             g == [row \in T |-> row.volume]
  <2>1. IsFiniteSet(S) /\ \A row \in S : f[row] = row.volume /\ row.volume \in Int
    BY <1>1, FS_Subset DEF CandleRow, Positive
  <2>2. S \subseteq T /\ \A row \in T : g[row] = row.volume
    BY <1>3
  <2>3. VolumeOf(candles, i) = SumFunctionOnSet(f, S) /\ VolumeOf(candles', i) = SumFunctionOnSet(g, T)
    BY DEF VolumeOf
  <2>4. TradesInTick(i) # <<>> =>
           a \notin S /\ T = S \cup {a} /\ a.volume = TradedVolume(i, ThisTick) /\ a.volume \in Int
    BY <1>1, <1>3, <1>4 DEF DrawnBy, ThisTick, CandleRow
  <2>5. TradesInTick(i) = <<>> => T = S
    BY <1>3, <1>4
  <2>6. TradesInTick(i) = <<>> => TradedVolume(i, ThisTick) = 0
    <3>1. TradesInTick(i) = <<>> => TradedIn(i, ThisTick) = {}
      BY CandleDoes
    <3> QED
      BY <3>1, SumEmpty DEF TradedVolume
  <2>7. VolumeOf(candles, i) \in Int
    BY VolumesTyped
  <2> HIDE DEF a, S, T, f, g
  <2>8. SumFunctionOnSet(f, S) = SumFunctionOnSet(g, S)
    <3>1. \A row \in S : f[row] = g[row]
      BY <2>1, <2>2
    <3> QED
      BY ONLY <2>1, <3>1, SumSame
  <2>9. CASE TradesInTick(i) = <<>>
    BY <2>3, <2>5, <2>6, <2>7, <2>8, <2>9
  <2>10. CASE TradesInTick(i) # <<>>
    <3>1. /\ \A row \in S \cup {a} : g[row] \in Int
          /\ g[a] = TradedVolume(i, ThisTick) /\ a \notin S
      BY <2>1, <2>2, <2>4, <2>10
    <3>2. SumFunctionOnSet(g, S \cup {a}) = SumFunctionOnSet(g, S) + g[a]
      BY ONLY <2>1, <3>1, SumAddElement
    <3> QED
      BY <2>3, <2>4, <2>8, <2>10, <3>1, <3>2
  <2> QED
    BY <2>9, <2>10
<1> QED
  BY <1>5, <1>6

\* Only settlements enter trades, and only the last stage draws candles.
LEMMA TradesAndCandlesKept ==
    /\ Requests => trades' = trades /\ candles' = candles
    /\ TickRound => /\ stage # "candles" => candles' = candles
                    /\ stage = "candles" => orders' = orders /\ trades' = trades /\ UpsertCandles
<1>1. Requests => trades' = trades /\ candles' = candles
  BY DEF Requests, TradeRequest, BuildingRequest, WorkforceRequest, ResearchRequest,
         ProductionRequest, ShipmentRequest, ContractRequest, RefundRequest, OfOrders, OfBuildings,
         OfPeople, OfScience, OfJobs, OfShipments, OfContracts
<1>2. ASSUME TickRound
      PROVE  /\ stage # "candles" => candles' = candles
             /\ stage = "candles" => orders' = orders /\ trades' = trades /\ UpsertCandles
  <2> DEFINE x == Head(plan)
  <2>1. Round(x)
    BY <1>2 DEF TickRound
  <2> HIDE DEF x
  <2> QED
    BY <2>1 DEF Round, OfOrders, OfBuildings, OfPeople, OfScience, OfJobs, OfShipments, OfContracts,
                OfCandles
<1> QED
  BY <1>1, <1>2

-----------------------------------------------------------------------------
(* Storage: a round never fills a store beyond its capacity.               *)

StoresKept ==
    \A c \in Companies, region \in {"home", "away"} :
        StoredIn(c, region)' > StoredIn(c, region)
            => StoredIn(c, region)' <= CapacityIn(c, region)'

\* What a company has in the home region is the sum of its stock.
LEMMA HomeStore ==
    ASSUME NEW c
    PROVE  /\ StoredIn(c, "home") = SumFunctionOnSet([i \in Items |-> stock[c][i].quantity], Items)
           /\ StoredIn(c, "home")' = SumFunctionOnSet([i \in Items |-> stock'[c][i].quantity], Items)
           /\ StoredIn(c, "away") = SumFunctionOnSet([i \in Items |-> depot[c][i]], Items)
           /\ StoredIn(c, "away")' = SumFunctionOnSet([i \in Items |-> depot'[c][i]], Items)
  BY DEF StoredIn, Stored, SumFunction

\* Capacity depends on buildings only.
LEMMA SameCapacity ==
    ASSUME buildings' = buildings, NEW c, NEW region
    PROVE  CapacityIn(c, region)' = CapacityIn(c, region)
  BY DEF CapacityIn, ActiveBuildings

\* Where no quantity changes, no store is filled.
LEMMA QuantitiesKept ==
    ASSUME Typed, depot' = depot,
           \A c \in Companies, i \in Items : stock'[c][i].quantity = stock[c][i].quantity
    PROVE  StoresKept
<1>1. ASSUME NEW c \in Companies
      PROVE  /\ StoredIn(c, "home")' = StoredIn(c, "home")
             /\ StoredIn(c, "away")' = StoredIn(c, "away")
             /\ StoredIn(c, "home") \in Nat /\ StoredIn(c, "away") \in Nat
  <2>1. [i \in Items |-> stock'[c][i].quantity] = [i \in Items |-> stock[c][i].quantity]
    BY <1>1
  <2>2. StoredIn(c, "home") \in Nat /\ StoredIn(c, "away") \in Nat
    BY <1>1, StoredTyped
  <2>3. StoredIn(c, "home")' = StoredIn(c, "home")
    BY <2>1 DEF StoredIn, Stored
  <2>4. StoredIn(c, "away")' = StoredIn(c, "away")
    BY DEF StoredIn
  <2> QED
    BY <2>2, <2>3, <2>4
<1> QED
  BY <1>1 DEF StoresKept

\* Goods of one item come to the home region of one company, or leave it.
LEMMA HomeFilled ==
    ASSUME Typed, NEW c \in Companies, NEW i \in Items, NEW q \in Int, depot' = depot,
           \A d \in Companies, j \in Items :
              stock'[d][j].quantity = stock[d][j].quantity + (IF d = c /\ j = i THEN q ELSE 0),
           buildings' = buildings,
           q <= 0 \/ HasRoom(c, "home", q)
    PROVE  StoresKept
<1>1. ASSUME NEW d \in Companies
      PROVE  /\ StoredIn(d, "home")' = StoredIn(d, "home") + (IF d = c THEN q ELSE 0)
             /\ StoredIn(d, "away")' = StoredIn(d, "away")
             /\ StoredIn(d, "home") \in Nat /\ StoredIn(d, "away") \in Nat
  <2> DEFINE f == [j \in Items |-> stock[d][j].quantity]
             g == [j \in Items |-> stock'[d][j].quantity]
             k == IF d = c THEN q ELSE 0
  <2>1. /\ StoredIn(d, "home") = SumFunctionOnSet(f, Items)
        /\ StoredIn(d, "home")' = SumFunctionOnSet(g, Items)
        /\ StoredIn(d, "away")' = StoredIn(d, "away")
    BY HomeStore
  <2>2. StoredIn(d, "home") \in Nat /\ StoredIn(d, "away") \in Nat
    BY StoredTyped
  <2>3. /\ \A j \in Items : f[j] \in Int
        /\ g[i] = f[i] + k /\ k \in Int /\ g[i] \in Int
        /\ \A j \in Items \ {i} : g[j] = f[j]
    BY <1>1, TypedBalances
  <2>4. IsFiniteSet(Items) /\ i \in Items
    BY AmountsAssumption
  <2> HIDE DEF f, g
  <2>5. SumFunctionOnSet(g, Items) = SumFunctionOnSet(f, Items) + g[i] - f[i]
    BY ONLY <2>3, <2>4, SumChanges
  <2>6. SumFunctionOnSet(f, Items) \in Int
    BY <2>1, <2>2
  <2> QED
    BY <2>1, <2>2, <2>3, <2>4, <2>5, <2>6
<1>2. \A d \in Companies, region \in {"home", "away"} :
         CapacityIn(d, region) \in Nat /\ CapacityIn(d, region)' = CapacityIn(d, region)
  BY CapacityTyped, SameCapacity
<1> QED
  BY <1>1, <1>2 DEF StoresKept, HasRoom

\* Goods of one item come to the other region.
LEMMA AwayFilled ==
    ASSUME Typed, NEW c \in Companies, NEW i \in Items, NEW q \in Int, Stowed(c, i, q),
           stock' = stock, buildings' = buildings, HasRoom(c, "away", q)
    PROVE  StoresKept
<1>1. ASSUME NEW d \in Companies
      PROVE  /\ StoredIn(d, "away")' = StoredIn(d, "away") + (IF d = c THEN q ELSE 0)
             /\ StoredIn(d, "home")' = StoredIn(d, "home")
             /\ StoredIn(d, "home") \in Nat /\ StoredIn(d, "away") \in Nat
  <2> DEFINE f == [j \in Items |-> depot[d][j]]
             g == [j \in Items |-> depot'[d][j]]
             k == IF d = c THEN q ELSE 0
  <2>1. /\ StoredIn(d, "away") = SumFunctionOnSet(f, Items)
        /\ StoredIn(d, "away")' = SumFunctionOnSet(g, Items)
        /\ StoredIn(d, "home")' = StoredIn(d, "home")
    BY HomeStore
  <2>2. StoredIn(d, "home") \in Nat /\ StoredIn(d, "away") \in Nat
    BY StoredTyped
  <2>3. /\ \A j \in Items : f[j] \in Int
        /\ g[i] = f[i] + k /\ k \in Int /\ g[i] \in Int
        /\ \A j \in Items \ {i} : g[j] = f[j]
    BY <1>1 DEF Typed, DepotRows, Stowed
  <2>4. IsFiniteSet(Items) /\ i \in Items
    BY AmountsAssumption
  <2> HIDE DEF f, g
  <2>5. SumFunctionOnSet(g, Items) = SumFunctionOnSet(f, Items) + g[i] - f[i]
    BY ONLY <2>3, <2>4, SumChanges
  <2>6. SumFunctionOnSet(f, Items) \in Int
    BY <2>1, <2>2
  <2> QED
    BY <2>1, <2>2, <2>3, <2>4, <2>5, <2>6
<1>2. \A d \in Companies, region \in {"home", "away"} :
         CapacityIn(d, region) \in Nat /\ CapacityIn(d, region)' = CapacityIn(d, region)
  BY CapacityTyped, SameCapacity
<1> QED
  BY <1>1, <1>2 DEF StoresKept, HasRoom

\* What is traded comes to the buyer's store, where there was room.
LEMMA PurchaseFits ==
    ASSUME Typed, NEW b \in Companies, NEW s \in Companies, NEW i \in Items, NEW n \in Positive,
           Trading!GoodsMoved(stock', stock, b, s, i, n), depot' = depot, buildings' = buildings,
           b = s \/ HasRoom(b, "home", n)
    PROVE  StoresKept
<1>1. ASSUME NEW d \in Companies
      PROVE  /\ StoredIn(d, "home")' = StoredIn(d, "home") - (IF d = s THEN n ELSE 0)
                                          + (IF d = b THEN n ELSE 0)
             /\ StoredIn(d, "away")' = StoredIn(d, "away")
             /\ StoredIn(d, "home") \in Nat /\ StoredIn(d, "away") \in Nat
  <2> DEFINE f == [j \in Items |-> stock[d][j].quantity]
             g == [j \in Items |-> stock'[d][j].quantity]
             k == (IF d = b THEN n ELSE 0) - (IF d = s THEN n ELSE 0)
  <2>1. /\ StoredIn(d, "home") = SumFunctionOnSet(f, Items)
        /\ StoredIn(d, "home")' = SumFunctionOnSet(g, Items)
        /\ StoredIn(d, "away")' = StoredIn(d, "away")
    BY HomeStore
  <2>2. StoredIn(d, "home") \in Nat /\ StoredIn(d, "away") \in Nat
    BY StoredTyped
  <2>3. \A j \in Items : stock[d][j].quantity \in Nat
    BY <1>1, TypedBalances
  <2>4. /\ \A j \in Items : f[j] \in Int
        /\ g[i] = f[i] + k /\ k \in Int /\ g[i] \in Int
        /\ \A j \in Items \ {i} : g[j] = f[j]
    BY <1>1, <2>3 DEF Trading!GoodsMoved, Positive
  <2>5. IsFiniteSet(Items) /\ i \in Items
    BY AmountsAssumption
  <2> HIDE DEF f, g
  <2>6. SumFunctionOnSet(g, Items) = SumFunctionOnSet(f, Items) + g[i] - f[i]
    BY ONLY <2>4, <2>5, SumChanges
  <2>7. SumFunctionOnSet(f, Items) \in Int /\ n \in Int
    BY <2>1, <2>2 DEF Positive
  <2> QED
    BY <2>1, <2>2, <2>4, <2>5, <2>6, <2>7
<1>2. \A d \in Companies, region \in {"home", "away"} :
         CapacityIn(d, region) \in Nat /\ CapacityIn(d, region)' = CapacityIn(d, region)
  BY CapacityTyped, SameCapacity
<1>3. n \in Nat
  BY DEF Positive
<1> QED
  BY <1>1, <1>2, <1>3 DEF StoresKept, HasRoom

\* What one company makes comes to its store, and what it uses up leaves it.
LEMMA OutputFills ==
    ASSUME Typed, NEW c \in Companies, NEW h, \A i \in Items : h[i] \in Nat,
           NEW a \in Items, NEW m \in Positive, NEW k, k = m - SumFunctionOnSet(h, Items),
           \A d \in Companies, i \in Items :
              stock'[d][i].quantity = stock[d][i].quantity
                 + (IF d = c THEN (IF a = i THEN m ELSE 0) - h[i] ELSE 0),
           depot' = depot, buildings' = buildings, k > 0 => HasRoom(c, "home", k)
    PROVE  StoresKept
<1>1. IsFiniteSet(Items) /\ SumFunctionOnSet(h, Items) \in Int /\ m \in Int
  BY AmountsAssumption, SumInt DEF Positive
<1>2. k \in Int
  BY <1>1
<1>3. StoredIn(c, "home")' = StoredIn(c, "home") + k
  <2> DEFINE f == [i \in Items |-> stock[c][i].quantity]
             e == [i \in Items |-> f[i] - h[i]]
             g == [i \in Items |-> stock'[c][i].quantity]
  <2>1. /\ StoredIn(c, "home") = SumFunctionOnSet(f, Items)
        /\ StoredIn(c, "home")' = SumFunctionOnSet(g, Items)
    BY HomeStore
  <2>2. \A i \in Items : f[i] \in Int
    BY TypedBalances
  <2>3. /\ \A i \in Items : f[i] \in Int /\ h[i] \in Int /\ e[i] = f[i] - h[i] /\ e[i] \in Int
        /\ g[a] = e[a] + m /\ g[a] \in Int
        /\ \A i \in Items \ {a} : g[i] = e[i]
    BY <1>1, <2>2
  <2> HIDE DEF f, e, g
  <2>4. SumFunctionOnSet(e, Items) = SumFunctionOnSet(f, Items) - SumFunctionOnSet(h, Items)
    BY ONLY <1>1, <2>3, SumDiffers
  <2>5. SumFunctionOnSet(g, Items) = SumFunctionOnSet(e, Items) + g[a] - e[a]
    BY ONLY <1>1, <2>3, a \in Items, SumChanges
  <2>6. SumFunctionOnSet(f, Items) \in Int
    BY <1>1, <2>3, SumInt
  <2> QED
    BY <1>1, <2>1, <2>3, <2>4, <2>5, <2>6
<1>4. ASSUME NEW d \in Companies, d # c PROVE StoredIn(d, "home")' = StoredIn(d, "home")
  <2>1. \A i \in Items : stock[d][i].quantity \in Nat
    BY TypedBalances
  <2>2. [i \in Items |-> stock'[d][i].quantity] = [i \in Items |-> stock[d][i].quantity]
    BY <1>4, <2>1
  <2> QED
    BY <2>2 DEF StoredIn, Stored
<1>5. \A d \in Companies : StoredIn(d, "away")' = StoredIn(d, "away")
  BY DEF StoredIn
<1>6. \A d \in Companies, region \in {"home", "away"} :
         CapacityIn(d, region) \in Nat /\ CapacityIn(d, region)' = CapacityIn(d, region)
  BY CapacityTyped, SameCapacity
<1>7. \A d \in Companies : StoredIn(d, "home") \in Nat /\ StoredIn(d, "away") \in Nat
  BY StoredTyped
<1>8. ASSUME NEW d \in Companies
      PROVE  StoredIn(d, "home")' > StoredIn(d, "home")
                => StoredIn(d, "home")' <= CapacityIn(d, "home")'
  <2>1. CASE d = c
    BY <1>2, <1>3, <1>6, <1>7, <2>1 DEF HasRoom
  <2>2. CASE d # c
    BY <1>4, <1>7, <2>2
  <2> QED
    BY <2>1, <2>2
<1> QED
  BY <1>5, <1>7, <1>8 DEF StoresKept

\* A job that is completed leaves no more in store than there is room for.
LEMMA OutputIsStored ==
    ASSUME Typed, NEW j \in DOMAIN jobs, CompleteJob(j), buildings' = buildings
    PROVE  StoresKept
<1> DEFINE job == jobs[j]
           c == job.company
           h == [i \in Items |-> Required(job.recipe, job.runs, i)]
           a == Output[job.recipe].item
           m == Output[job.recipe].quantity * job.runs
           k == NetGrowth(job)
<1>1. /\ job \in JobRow
      /\ Restocked(c, [i \in Items |-> MadeBy(job, i)],
                   [i \in Items |-> -Required(job.recipe, job.runs, i)])
      /\ depot' = depot /\ OutputFits(job)
  BY CompleteJobDoes DEF CompleteJob
<1>2. c \in Companies /\ job.recipe \in Recipes /\ job.runs \in Positive
  BY <1>1, JobFields
<1>3. (\A i \in Items : h[i] \in Nat) /\ a \in Items /\ m \in Positive
  BY <1>2, JobAmounts
<1>4. \A i \in Items : MadeBy(job, i) = (IF a = i THEN m ELSE 0) - h[i]
  BY DEF MadeBy
<1>5. k = m - SumFunctionOnSet(h, Items) /\ (k > 0 => HasRoom(c, "home", k))
  BY <1>1 DEF NetGrowth, SumFunction, OutputFits
<1>6. \A d \in Companies, i \in Items :
         stock'[d][i].quantity = stock[d][i].quantity
            + (IF d = c THEN (IF a = i THEN m ELSE 0) - h[i] ELSE 0)
  BY <1>1, <1>4 DEF Restocked
<1> HIDE DEF job, c, h, a, m, k
<1> QED
  BY ONLY Typed, buildings' = buildings, <1>1, <1>2, <1>3, <1>5, <1>6, OutputFills
=============================================================================
