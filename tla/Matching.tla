------------------------------- MODULE Matching -------------------------------
(***************************************************************************)
(* How one tick pairs the open orders for an item: market-matching.ts from *)
(* the comparison functions to planOrderMatchesForItem.  An order book is  *)
(* a sequence of orders in the order of their placing, which is the order  *)
(* of (tickPlaced, createdAt, id); an order is named by its place in it.   *)
(* Companies place orders in their own region only, so all the orders here *)
(* are of one region.                                                      *)
(***************************************************************************)
EXTENDS Integers, Sequences, FiniteSets, FiniteSetsExt

OpenOrders(book, item, side) ==
    {o \in DOMAIN book : /\ book[o].status = "OPEN" /\ book[o].remaining > 0
                         /\ book[o].item = item /\ book[o].side = side}

\* Mutant: equal prices are not broken by age.
AgeIgnored(book, a, b) == a > b

\* compareByTimeThenId
Older(book, a, b) == a < b

\* compareBuyPriority, compareSellPriority: the better price, then the older.
BidFirst(book, a, b) ==
    \/ book[a].price > book[b].price
    \/ book[a].price = book[b].price /\ Older(book, a, b)
AskFirst(book, a, b) ==
    \/ book[a].price < book[b].price
    \/ book[a].price = book[b].price /\ Older(book, a, b)

\* Mutant: equal prices do not cross.
CrossesStrictly(book, buy, sell) == book[buy].price > book[sell].price

Crosses(book, buy, sell) == book[buy].price >= book[sell].price

\* resolveExecutionPrice: the price of the order that was there first.
ExecutionPrice(book, buy, sell) == book[IF buy <= sell THEN buy ELSE sell].price

Smaller(m, n) == IF m <= n THEN m ELSE n

\* One round of the planning loop: `left' is what remains of each order.
NextMatch(book, bids, asks, state) ==
    LET liveBids == {o \in bids : state.left[o] > 0}
        liveAsks == {o \in asks : state.left[o] > 0}
        buy  == CHOOSE b \in liveBids : \A o \in liveBids \ {b} : BidFirst(book, b, o)
        sell == CHOOSE s \in liveAsks : \A o \in liveAsks \ {s} : AskFirst(book, s, o)
        n    == Smaller(state.left[buy], state.left[sell])
    IN  IF liveBids = {} \/ liveAsks = {} \/ ~Crosses(book, buy, sell)
        THEN state
        ELSE [left |-> [state.left EXCEPT ![buy] = @ - n, ![sell] = @ - n],
              matches |-> Append(state.matches,
                            [buy |-> buy, sell |-> sell, quantity |-> n,
                             price |-> ExecutionPrice(book, buy, sell)])]

\* planOrderMatchesForItem: every round uses up a bid or an ask.
PlanOrderMatches(book, item) ==
    LET bids == OpenOrders(book, item, "BUY")
        asks == OpenOrders(book, item, "SELL")
        rounds == Cardinality(bids) + Cardinality(asks)
        loop[k \in 0 .. rounds] ==
            IF k = 0
            THEN [left |-> [o \in DOMAIN book |-> book[o].remaining], matches |-> <<>>]
            ELSE NextMatch(book, bids, asks, loop[k - 1])
    IN  loop[rounds].matches

-----------------------------------------------------------------------------
(* What price-time priority asks for, without a loop: lay the bids out one *)
(* after the other in priority order, and the asks likewise, each as long  *)
(* as its quantity; a bid and an ask trade the length by which they        *)
(* overlap, as far as they cross.  The definition has an order of its own, *)
(* so that the two cannot be wrong together.                               *)

Precedes(book, a, b) ==
    IF book[a].price = book[b].price THEN a < b
    ELSE (book[a].side = "BUY") = (book[a].price > book[b].price)

\* The quantity that is served before order o.
Ahead(book, o) ==
    MapThenSumSet(LAMBDA a : book[a].remaining,
        {a \in OpenOrders(book, book[o].item, book[o].side) \ {o} : Precedes(book, a, o)})

Overlap(book, buy, sell) ==
    LET from == Max({Ahead(book, buy), Ahead(book, sell)})
        to   == Min({Ahead(book, buy) + book[buy].remaining,
                     Ahead(book, sell) + book[sell].remaining})
    IN  Max({0, to - from})

\* The matches of an item's orders, as a set.
FairMatches(book, item) ==
    LET bids == OpenOrders(book, item, "BUY")
        asks == OpenOrders(book, item, "SELL")
    IN  {[buy |-> p[1], sell |-> p[2], quantity |-> Overlap(book, p[1], p[2]),
          price |-> IF p[1] < p[2] THEN book[p[1]].price ELSE book[p[2]].price] :
            p \in {q \in bids \X asks : /\ book[q[1]].price >= book[q[2]].price
                                        /\ Overlap(book, q[1], q[2]) > 0}}
=============================================================================
