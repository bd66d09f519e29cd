------------------------------ MODULE Candles ------------------------------
(***************************************************************************)
(* Market candles (market-candles.ts): at the end of a tick, the trades of *)
(* the tick in an item as one row.  A tick that is made again after it was *)
(* rolled back writes its row once, as the rows are keyed by item and tick.*)
(***************************************************************************)
EXTENDS CompanyRows

VARIABLE candles  \* ItemTickCandle rows

TradesInTick(i) == Selected(trades, LAMBDA t : t.item = i /\ t.tick = ThisTick)

Volume(ts) == SumFunction([k \in DOMAIN ts |-> ts[k].quantity])
Turnover(ts) == SumFunction([k \in DOMAIN ts |-> ts[k].price * ts[k].quantity])

\* computeTickCandlesFromTrades, for one item; the average is rounded.
Candle(i) ==
    LET ts == TradesInTick(i)
        prices == {ts[k].price : k \in DOMAIN ts}
    IN  [item |-> i, tick |-> ThisTick,
         open |-> Head(ts).price, close |-> Last(ts).price,
         high |-> Max(prices), low |-> Min(prices),
         volume |-> Volume(ts), count |-> Len(ts),
         vwap |-> (Turnover(ts) + Volume(ts) \div 2) \div Volume(ts)]

\* upsertMarketCandlesForTick
UpsertCandles ==
    /\ candles' = {row \in candles : row.tick # ThisTick}
                      \cup {Candle(i) : i \in {j \in Items : TradesInTick(j) # <<>>}}
    /\ UNCHANGED Tables
=============================================================================
