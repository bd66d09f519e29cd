---------------------------- MODULE ExchangeProofs ----------------------------
(***************************************************************************)
(* The exchange keeps its books for any companies, items, prices,          *)
(* quantities and amounts, and for any number of orders: the invariants of *)
(* Exchange as theorems.  The inductive invariant says of the rows, those  *)
(* of now and those a rollback would bring back, that they are sound, and  *)
(* of a tick in progress that the rest of its plan can be settled.         *)
(***************************************************************************)
EXTENDS Exchange, SequenceTheorems, DataLemmas

-----------------------------------------------------------------------------
(* What the planning loop of market-matching.ts yields for any order book, *)
(* however long: a plan that the orders can settle match after match, and  *)
(* after which no bid meets an ask.  The loop is a recursive function; its *)
(* rounds are counted by the lemmas of DataLemmas.                         *)

\* An order book: rows of orders for one item each.
Books == Seq(OrderRow)

\* The rows of a book, one by one.
LEMMA BookRows ==
    ASSUME NEW book \in Books
    PROVE  /\ DOMAIN book = 1 .. Len(book) /\ Len(book) \in Nat
           /\ \A o \in DOMAIN book :
                 /\ o \in Nat \ {0}
                 /\ book[o] \in OrderRow
                 /\ book[o].remaining \in Nat
                 /\ book[o].price \in Prices /\ book[o].price \in Nat \ {0}
<1>1. DOMAIN book = 1 .. Len(book) /\ Len(book) \in Nat
  BY DEF Books
<1>2. ASSUME NEW o \in DOMAIN book PROVE book[o] \in OrderRow
  BY <1>1 DEF Books
<1>3. \A row \in OrderRow : row.remaining \in Nat /\ row.price \in Prices
  BY DEF OrderRow
<1>4. \A price \in Prices : price \in Nat \ {0}
  BY AmountsAssumption
<1> QED
  BY <1>1, <1>2, <1>3, <1>4

\* A book has finitely many orders.
LEMMA BookFinite ==
    ASSUME NEW book \in Books
    PROVE  IsFiniteSet(DOMAIN book)
BY BookRows, FS_Interval

-----------------------------------------------------------------------------
(* The best order of a set exists: price-time priority is a strict order.  *)

\* compareBuyPriority orders any bids, so that one of them comes first.
LEMMA BestBid ==
    ASSUME NEW book \in Books, NEW S \in SUBSET DOMAIN book, S # {}
    PROVE  \E b \in S : \A o \in S \ {b} : BidFirst(book, b, o)
<1> DEFINE D == DOMAIN book
           R == {p \in D \X D : BidFirst(book, p[1], p[2])}
<1>1. \A o \in D : o \in Nat /\ book[o].price \in Nat
  BY BookRows
<1>2. \A a, b \in D : <<a, b>> \in R <=> BidFirst(book, a, b)
  OBVIOUS
<1> HIDE DEF R
<1>3. ASSUME NEW a \in D, NEW b \in D
      PROVE  a = b \/ <<a, b>> \in R \/ <<b, a>> \in R
  <2>1. a = b \/ BidFirst(book, a, b) \/ BidFirst(book, b, a)
    BY <1>1 DEF BidFirst, Older
  <2> QED
    BY <1>2, <2>1
<1>4. ASSUME NEW a \in D, NEW b \in D, NEW c \in D, <<a, b>> \in R, <<b, c>> \in R
      PROVE  <<a, c>> \in R
  <2>1. BidFirst(book, a, b) /\ BidFirst(book, b, c)
    BY <1>2, <1>4
  <2>2. BidFirst(book, a, c)
    BY <1>1, <2>1 DEF BidFirst, Older
  <2> QED
    BY <1>2, <2>2
<1>5. \E b \in S : \A o \in S \ {b} : <<b, o>> \in R
  BY <1>3, <1>4, BookFinite, FirstExists
<1> QED
  BY <1>2, <1>5

\* compareSellPriority orders any asks, so that one of them comes first.
LEMMA BestAsk ==
    ASSUME NEW book \in Books, NEW S \in SUBSET DOMAIN book, S # {}
    PROVE  \E b \in S : \A o \in S \ {b} : AskFirst(book, b, o)
<1> DEFINE D == DOMAIN book
           R == {p \in D \X D : AskFirst(book, p[1], p[2])}
<1>1. \A o \in D : o \in Nat /\ book[o].price \in Nat
  BY BookRows
<1>2. \A a, b \in D : <<a, b>> \in R <=> AskFirst(book, a, b)
  OBVIOUS
<1> HIDE DEF R
<1>3. ASSUME NEW a \in D, NEW b \in D
      PROVE  a = b \/ <<a, b>> \in R \/ <<b, a>> \in R
  <2>1. a = b \/ AskFirst(book, a, b) \/ AskFirst(book, b, a)
    BY <1>1 DEF AskFirst, Older
  <2> QED
    BY <1>2, <2>1
<1>4. ASSUME NEW a \in D, NEW b \in D, NEW c \in D, <<a, b>> \in R, <<b, c>> \in R
      PROVE  <<a, c>> \in R
  <2>1. AskFirst(book, a, b) /\ AskFirst(book, b, c)
    BY <1>2, <1>4
  <2>2. AskFirst(book, a, c)
    BY <1>1, <2>1 DEF AskFirst, Older
  <2> QED
    BY <1>2, <2>2
<1>5. \E b \in S : \A o \in S \ {b} : <<b, o>> \in R
  BY <1>3, <1>4, BookFinite, FirstExists
<1> QED
  BY <1>2, <1>5

-----------------------------------------------------------------------------
(* A round of the loop.                                                    *)

Bids(book, item) == OpenOrders(book, item, "BUY")
Asks(book, item) == OpenOrders(book, item, "SELL")

Round(book, item, state) == NextMatch(book, Bids(book, item), Asks(book, item), state)

\* No bid with something left meets an ask with something left.
NothingCrosses(book, item, left) ==
    \A b \in Bids(book, item), s \in Asks(book, item) :
        left[b] > 0 /\ left[s] > 0 => book[b].price < book[s].price

\* m pairs an open bid with an open ask for the item, within what is left.
Fits(book, item, left, m) ==
    /\ m.buy \in Bids(book, item) /\ m.sell \in Asks(book, item)
    /\ m.quantity \in Nat \ {0}
    /\ m.quantity <= left[m.buy] /\ m.quantity <= left[m.sell]
    /\ m.price \in Prices
    /\ m.price <= book[m.buy].price

\* What is left after a match.
After(left, m) ==
    [o \in DOMAIN left |-> IF o \in {m.buy, m.sell} THEN left[o] - m.quantity ELSE left[o]]

\* Bids and asks are different orders of the book.
LEMMA BidsAndAsks ==
    ASSUME NEW book \in Books, NEW item
    PROVE  /\ Bids(book, item) \subseteq DOMAIN book
           /\ Asks(book, item) \subseteq DOMAIN book
           /\ Bids(book, item) \cap Asks(book, item) = {}
           /\ IsFiniteSet(Bids(book, item)) /\ IsFiniteSet(Asks(book, item))
<1>1. Bids(book, item) \subseteq DOMAIN book /\ Asks(book, item) \subseteq DOMAIN book
  BY DEF Bids, Asks, OpenOrders
<1>2. Bids(book, item) \cap Asks(book, item) = {}
  BY DEF Bids, Asks, OpenOrders
<1> QED
  BY <1>1, <1>2, BookFinite, FS_Subset

\* A round makes a match that fits and uses up one of its orders, or nothing
\* crosses any more and the round changes nothing.
LEMMA RoundMatchesOrStops ==
    ASSUME NEW book \in Books, NEW item, NEW state, state.left \in [DOMAIN book -> Nat]
    PROVE  \/ Round(book, item, state) = state /\ NothingCrosses(book, item, state.left)
           \/ \E m \in Match :
                 /\ Fits(book, item, state.left, m)
                 /\ m.quantity = state.left[m.buy] \/ m.quantity = state.left[m.sell]
                 /\ Round(book, item, state) = [left |-> After(state.left, m),
                                                matches |-> Append(state.matches, m)]
<1> DEFINE left == state.left
           bids == {o \in Bids(book, item) : left[o] > 0}
           asks == {o \in Asks(book, item) : left[o] > 0}
           buy == CHOOSE b \in bids : \A o \in bids \ {b} : BidFirst(book, b, o)
           sell == CHOOSE s \in asks : \A o \in asks \ {s} : AskFirst(book, s, o)
           n == Smaller(left[buy], left[sell])
           m == [buy |-> buy, sell |-> sell, quantity |-> n,
                 price |-> ExecutionPrice(book, buy, sell)]
           next == [left |-> [left EXCEPT ![buy] = @ - n, ![sell] = @ - n],
                    matches |-> Append(state.matches, m)]
<1>1. Round(book, item, state) =
         IF bids = {} \/ asks = {} \/ ~Crosses(book, buy, sell) THEN state ELSE next
  BY DEF Round, NextMatch
<1>2. bids \in SUBSET DOMAIN book /\ asks \in SUBSET DOMAIN book
  BY BidsAndAsks
<1>3. \A o \in DOMAIN book : /\ o \in Nat \ {0} /\ left[o] \in Nat
                             /\ book[o].price \in Prices /\ book[o].price \in Nat \ {0}
  BY BookRows
<1>4. bids # {} => buy \in bids /\ \A o \in bids \ {buy} : BidFirst(book, buy, o)
  <2>1. bids # {} => \E b \in bids : \A o \in bids \ {b} : BidFirst(book, b, o)
    BY <1>2, BestBid
  <2> HIDE DEF bids
  <2> QED
    BY <2>1
<1>5. asks # {} => sell \in asks /\ \A o \in asks \ {sell} : AskFirst(book, sell, o)
  <2>1. asks # {} => \E s \in asks : \A o \in asks \ {s} : AskFirst(book, s, o)
    BY <1>2, BestAsk
  <2> HIDE DEF asks
  <2> QED
    BY <2>1
<1>6. CASE bids = {} \/ asks = {}
  <2>1. NothingCrosses(book, item, left)
    BY <1>6 DEF NothingCrosses
  <2> QED
    BY <1>1, <1>6, <2>1
<1>7. CASE bids # {} /\ asks # {} /\ ~Crosses(book, buy, sell)
  <2> HIDE DEF buy, sell
  <2>1. book[buy].price < book[sell].price
    BY <1>2, <1>3, <1>4, <1>5, <1>7 DEF Crosses
  <2>2. ASSUME NEW b \in bids PROVE book[b].price <= book[buy].price
    BY <1>2, <1>3, <1>4, <1>7 DEF BidFirst
  <2>3. ASSUME NEW s \in asks PROVE book[s].price >= book[sell].price
    BY <1>2, <1>3, <1>5, <1>7 DEF AskFirst
  <2>4. ASSUME NEW b \in bids, NEW s \in asks PROVE book[b].price < book[s].price
    BY <2>1, <2>2, <2>3, <1>2, <1>3, <1>4, <1>5, <1>7
  <2>5. NothingCrosses(book, item, left)
    BY <2>4 DEF NothingCrosses
  <2> QED
    BY <1>1, <1>7, <2>5
<1>8. CASE bids # {} /\ asks # {} /\ Crosses(book, buy, sell)
  <2>1. Round(book, item, state) = next
    BY <1>1, <1>8
  <2> HIDE DEF buy, sell
  <2>2. /\ buy \in Bids(book, item) /\ buy \in DOMAIN book /\ left[buy] \in Nat /\ left[buy] > 0
        /\ sell \in Asks(book, item) /\ sell \in DOMAIN book /\ left[sell] \in Nat /\ left[sell] > 0
        /\ buy # sell
    BY <1>2, <1>3, <1>4, <1>5, <1>8, BidsAndAsks
  <2>3. /\ n \in Nat \ {0} /\ n <= left[buy] /\ n <= left[sell]
        /\ n = left[buy] \/ n = left[sell]
    BY <2>2 DEF Smaller
  <2>4. ExecutionPrice(book, buy, sell) \in Prices /\ ExecutionPrice(book, buy, sell) <= book[buy].price
    BY <2>2, <1>3, <1>8 DEF ExecutionPrice, Crosses
  <2> HIDE DEF n
  <2>5. m \in Match
    BY <2>2, <2>3, <2>4, <1>3 DEF Match
  <2>6. Fits(book, item, left, m)
    BY <2>2, <2>3, <2>4 DEF Fits
  <2>7. [left EXCEPT ![buy] = @ - n, ![sell] = @ - n] = After(left, m)
    BY <2>2 DEF After
  <2> HIDE DEF m
  <2>8. next = [left |-> After(left, m), matches |-> Append(state.matches, m)]
    BY <2>7
  <2>9. m.quantity = left[m.buy] \/ m.quantity = left[m.sell]
    BY <2>3 DEF m
  <2> QED
    BY <2>1, <2>5, <2>6, <2>8, <2>9
<1> QED
  BY <1>6, <1>7, <1>8

-----------------------------------------------------------------------------
(* The rounds of the loop.                                                 *)

Start(book) == [left |-> [o \in DOMAIN book |-> book[o].remaining], matches |-> <<>>]

\* g is the states of the loop, up to its nth round.
AreRounds(g, book, item, n) ==
    g = [k \in 0 .. n |-> IF k = 0 THEN Start(book) ELSE Round(book, item, g[k - 1])]

Rounds(book, item) == Cardinality(Bids(book, item)) + Cardinality(Asks(book, item))

Loop(book, item) == CHOOSE g : AreRounds(g, book, item, Rounds(book, item))

\* The plan is what the last round leaves.
LEMMA PlanIsLastRound ==
    ASSUME NEW book, NEW item
    PROVE  PlanOrderMatches(book, item) = Loop(book, item)[Rounds(book, item)].matches
BY DEF PlanOrderMatches, Loop, AreRounds, Rounds, Round, Bids, Asks, Start

\* The loop can run for any number of rounds.
LEMMA RoundsExist ==
    ASSUME NEW book, NEW item
    PROVE  \A n \in Nat : \E g : AreRounds(g, book, item, n)
<1> DEFINE T == {n \in Nat : \E g : AreRounds(g, book, item, n)}
<1>1. 0 \in T
  <2> DEFINE g == [k \in 0 .. 0 |-> Start(book)]
  <2>1. g = [k \in 0 .. 0 |-> IF k = 0 THEN Start(book) ELSE Round(book, item, g[k - 1])]
    OBVIOUS
  <2>2. AreRounds(g, book, item, 0)
    BY <2>1 DEF AreRounds
  <2> QED
    BY <2>2
<1>2. ASSUME NEW n \in Nat, n \in T PROVE n + 1 \in T
  <2>1. PICK g : AreRounds(g, book, item, n)
    BY <1>2
  <2> DEFINE h == [k \in 0 .. n + 1 |-> IF k = 0 THEN Start(book) ELSE Round(book, item, g[k - 1])]
             body == [k \in 0 .. n |-> IF k = 0 THEN Start(book) ELSE Round(book, item, g[k - 1])]
  <2>2. g = body
    BY <2>1 DEF AreRounds
  <2>3. \A k \in 0 .. n : h[k] = body[k]
    OBVIOUS
  <2>4. \A k \in 0 .. n : h[k] = g[k]
    <3> HIDE DEF h, body
    <3> QED
      BY <2>2, <2>3
  <2>5. \A k \in 0 .. n + 1 : k # 0 => k - 1 \in 0 .. n
    OBVIOUS
  <2>6. h = [k \in 0 .. n + 1 |-> IF k = 0 THEN Start(book) ELSE Round(book, item, h[k - 1])]
    BY <2>4, <2>5
  <2>7. AreRounds(h, book, item, n + 1)
    BY <2>6 DEF AreRounds
  <2> QED
    BY <2>7
<1> HIDE DEF T
<1>3. Nat \subseteq T
  BY <1>1, <1>2, NatSetInduction
<1> QED
  BY <1>3 DEF T

\* The loop starts with what remains of each order, and every round follows
\* from the one before.
LEMMA LoopRounds ==
    ASSUME NEW book \in Books, NEW item
    PROVE  /\ Rounds(book, item) \in Nat
           /\ Loop(book, item)[0] = Start(book)
           /\ \A k \in 1 .. Rounds(book, item) :
                 Loop(book, item)[k] = Round(book, item, Loop(book, item)[k - 1])
<1> DEFINE n == Rounds(book, item)
           g == Loop(book, item)
<1>1. n \in Nat
  BY BidsAndAsks, FS_CardinalityType DEF Rounds
<1> HIDE DEF n
<1>2. \E h : AreRounds(h, book, item, n)
  BY <1>1, RoundsExist
<1>3. AreRounds(g, book, item, n)
  BY <1>2 DEF Loop, n
<1> HIDE DEF g
<1> DEFINE body == [k \in 0 .. n |-> IF k = 0 THEN Start(book) ELSE Round(book, item, g[k - 1])]
<1>4. g = body
  BY <1>3 DEF AreRounds
<1>5. body[0] = Start(book)
  BY <1>1
<1>6. \A k \in 1 .. n : body[k] = Round(book, item, g[k - 1])
  BY <1>1
<1> HIDE DEF body
<1>7. g[0] = Start(book) /\ \A k \in 1 .. n : g[k] = Round(book, item, g[k - 1])
  BY <1>4, <1>5, <1>6
<1> QED
  BY <1>1, <1>7 DEF g, n

-----------------------------------------------------------------------------
(* What a plan does to the orders.                                         *)

\* L tells what is left of every order before each match of ms and after the
\* last: every match fits when its turn comes.
Schedule(book, ms, L) ==
    /\ ms \in Seq(Match)
    /\ L \in [1 .. Len(ms) + 1 -> [DOMAIN book -> Nat]]
    /\ L[1] = Start(book).left
    /\ \A j, k \in 1 .. Len(ms) + 1 :
          j <= k => \A o \in DOMAIN book : L[k][o] <= L[j][o]
    /\ \A k \in 1 .. Len(ms) :
          /\ Fits(book, book[ms[k].buy].item, L[k], ms[k])
          /\ L[k + 1] = After(L[k], ms[k])

LastOf(ms, L) == L[Len(ms) + 1]

\* A match that fits what is left leaves natural numbers, none of them larger.
LEMMA AfterShrinks ==
    ASSUME NEW book \in Books, NEW item, NEW left \in [DOMAIN book -> Nat],
           NEW m \in Match, Fits(book, item, left, m)
    PROVE  /\ After(left, m) \in [DOMAIN book -> Nat]
           /\ \A o \in DOMAIN book :
                 After(left, m)[o] = IF o \in {m.buy, m.sell} THEN left[o] - m.quantity ELSE left[o]
           /\ \A o \in DOMAIN book : After(left, m)[o] <= left[o]
           /\ m.buy \in DOMAIN book /\ m.sell \in DOMAIN book /\ m.buy # m.sell
           /\ book[m.buy].item = item /\ book[m.sell].item = item
<1>1. m.buy \in DOMAIN book /\ m.sell \in DOMAIN book /\ m.buy # m.sell
  BY BidsAndAsks DEF Fits
<1>2. book[m.buy].item = item /\ book[m.sell].item = item
  BY DEF Fits, Bids, Asks, OpenOrders
<1>3. /\ m.quantity \in Nat \ {0} /\ m.quantity <= left[m.buy] /\ m.quantity <= left[m.sell]
      /\ left[m.buy] \in Nat /\ left[m.sell] \in Nat
  BY <1>1 DEF Fits
<1>4. \A o \in DOMAIN book :
         After(left, m)[o] = IF o \in {m.buy, m.sell} THEN left[o] - m.quantity ELSE left[o]
  BY DEF After
<1>5. After(left, m) \in [DOMAIN book -> Nat]
  BY <1>1, <1>3 DEF After
<1>6. \A o \in DOMAIN book : After(left, m)[o] <= left[o]
  BY <1>1, <1>3, <1>4
<1> QED
  BY <1>1, <1>2, <1>4, <1>5, <1>6

\* A schedule goes on with any match that fits what it leaves.
LEMMA ScheduleExtends ==
    ASSUME NEW book \in Books, NEW ms, NEW L, Schedule(book, ms, L),
           NEW m \in Match, NEW item, Fits(book, item, LastOf(ms, L), m)
    PROVE  \E M : /\ Schedule(book, Append(ms, m), M)
                  /\ LastOf(Append(ms, m), M) = After(LastOf(ms, L), m)
<1> DEFINE n == Len(ms)
           last == LastOf(ms, L)
           ns == Append(ms, m)
           M == [k \in 1 .. n + 2 |-> IF k = n + 2 THEN After(last, m) ELSE L[k]]
<1>1. /\ ms \in Seq(Match) /\ n \in Nat /\ ns \in Seq(Match) /\ Len(ns) = n + 1
      /\ \A k \in 1 .. n : ns[k] = ms[k]
      /\ ns[n + 1] = m
  BY AppendProperties DEF Schedule
<1>2. L \in [1 .. n + 1 -> [DOMAIN book -> Nat]]
  BY DEF Schedule
<1>3. last \in [DOMAIN book -> Nat] /\ last = L[n + 1]
  BY <1>1, <1>2 DEF LastOf
<1> HIDE DEF n, last, ns
<1>4. /\ After(last, m) \in [DOMAIN book -> Nat]
      /\ \A o \in DOMAIN book : After(last, m)[o] <= last[o]
      /\ book[m.buy].item = item
  BY <1>3, AfterShrinks DEF last
<1>5. M \in [1 .. Len(ns) + 1 -> [DOMAIN book -> Nat]]
  BY <1>1, <1>2, <1>4
<1>6. M[1] = Start(book).left
  BY <1>1 DEF Schedule
<1>7. ASSUME NEW j \in 1 .. Len(ns) + 1, NEW k \in 1 .. Len(ns) + 1, j <= k, NEW o \in DOMAIN book
      PROVE  M[k][o] <= M[j][o]
  <2>1. \A i, h \in 1 .. n + 1 : i <= h => L[h][o] <= L[i][o]
    BY DEF Schedule, n
  <2>2. CASE k # n + 2
    <3>1. j \in 1 .. n + 1 /\ k \in 1 .. n + 1
      BY <1>1, <1>7, <2>2
    <3>2. M[k] = L[k] /\ M[j] = L[j]
      BY <1>1, <3>1
    <3> QED
      BY <1>7, <2>1, <3>1, <3>2
  <2>3. CASE k = n + 2 /\ j = n + 2
    <3>1. M[k][o] \in Nat
      BY <1>1, <1>4, <2>3
    <3> QED
      BY <2>3, <3>1
  <2>4. CASE k = n + 2 /\ j # n + 2
    <3>1. j \in 1 .. n + 1 /\ n + 1 \in 1 .. n + 1 /\ j <= n + 1
      BY <1>1, <1>7, <2>4
    <3>2. M[k] = After(last, m) /\ M[j] = L[j]
      BY <1>1, <2>4, <3>1
    <3>3. last[o] <= L[j][o]
      BY <1>3, <2>1, <3>1
    <3>4. After(last, m)[o] \in Nat /\ last[o] \in Nat /\ L[j][o] \in Nat
      BY <1>2, <1>3, <1>4, <3>1
    <3> QED
      BY <1>4, <3>2, <3>3, <3>4
  <2> QED
    BY <2>2, <2>3, <2>4
<1>8. ASSUME NEW k \in 1 .. Len(ns)
      PROVE  Fits(book, book[ns[k].buy].item, M[k], ns[k]) /\ M[k + 1] = After(M[k], ns[k])
  <2>1. CASE k = n + 1
    <3>1. ns[k] = m /\ M[k] = last /\ M[k + 1] = After(last, m)
      BY <1>1, <1>3, <2>1
    <3> HIDE DEF M
    <3> QED
      BY <1>4, <3>1 DEF last
  <2>2. CASE k # n + 1
    <3>1. k \in 1 .. n
      BY <1>1, <2>2
    <3>2. ns[k] = ms[k] /\ M[k] = L[k] /\ M[k + 1] = L[k + 1]
      BY <1>1, <3>1
    <3>3. Fits(book, book[ms[k].buy].item, L[k], ms[k]) /\ L[k + 1] = After(L[k], ms[k])
      BY <3>1 DEF Schedule, n
    <3> HIDE DEF M
    <3> QED
      BY <3>2, <3>3
  <2> QED
    BY <2>1, <2>2
<1>9. LastOf(ns, M) = After(last, m)
  BY <1>1 DEF LastOf
<1> HIDE DEF M
<1>10. Schedule(book, ns, M)
  BY <1>1, <1>5, <1>6, <1>7, <1>8 DEF Schedule
<1> QED
  BY <1>9, <1>10 DEF ns, last

\* The orders a round can still match.
Live(book, item, left) == {o \in Bids(book, item) \cup Asks(book, item) : left[o] > 0}

\* Every round that makes a match uses up an order.
LEMMA LiveShrinks ==
    ASSUME NEW book \in Books, NEW item, NEW left \in [DOMAIN book -> Nat],
           NEW m \in Match, Fits(book, item, left, m),
           m.quantity = left[m.buy] \/ m.quantity = left[m.sell]
    PROVE  /\ Cardinality(Live(book, item, left)) \in Nat
           /\ Cardinality(Live(book, item, After(left, m))) \in Nat
           /\ Cardinality(Live(book, item, After(left, m))) < Cardinality(Live(book, item, left))
<1> DEFINE S == Live(book, item, left)
           T == Live(book, item, After(left, m))
<1>1. IsFiniteSet(S)
  <2>1. S \subseteq DOMAIN book
    BY BidsAndAsks DEF Live
  <2> QED
    BY <2>1, BookFinite, FS_Subset
<1>2. /\ \A o \in DOMAIN book : /\ left[o] \in Nat
                                /\ After(left, m)[o] \in Nat
                                /\ After(left, m)[o] <= left[o]
      /\ m.buy \in DOMAIN book /\ m.sell \in DOMAIN book
      /\ After(left, m)[m.buy] = left[m.buy] - m.quantity
      /\ After(left, m)[m.sell] = left[m.sell] - m.quantity
  BY AfterShrinks
<1>3. Bids(book, item) \subseteq DOMAIN book /\ Asks(book, item) \subseteq DOMAIN book
  BY BidsAndAsks
<1>4. /\ m.buy \in Bids(book, item) /\ m.sell \in Asks(book, item)
      /\ m.quantity \in Nat \ {0} /\ m.quantity <= left[m.buy] /\ m.quantity <= left[m.sell]
  BY DEF Fits
<1>5. T \subseteq S
  BY <1>2, <1>3 DEF Live
<1>6. m.buy \in S /\ m.sell \in S
  BY <1>2, <1>4 DEF Live
<1>7. m.buy \notin T \/ m.sell \notin T
  BY <1>2, <1>4 DEF Live
<1>8. T # S
  BY <1>6, <1>7
<1> HIDE DEF S, T
<1>9. /\ IsFiniteSet(T) /\ Cardinality(T) <= Cardinality(S)
      /\ Cardinality(S) = Cardinality(T) => S = T
  BY <1>1, <1>5, FS_Subset
<1>10. Cardinality(S) \in Nat /\ Cardinality(T) \in Nat
  BY <1>1, <1>9, FS_CardinalityType
<1>11. Cardinality(T) < Cardinality(S)
  BY <1>8, <1>9, <1>10
<1> QED
  BY <1>10, <1>11 DEF S, T

\* When nothing crosses, a match makes no difference.
LEMMA StaysUncrossed ==
    ASSUME NEW book \in Books, NEW item, NEW left \in [DOMAIN book -> Nat],
           NEW next \in [DOMAIN book -> Nat], \A o \in DOMAIN book : next[o] <= left[o],
           NothingCrosses(book, item, left)
    PROVE  NothingCrosses(book, item, next)
<1>1. ASSUME NEW o \in DOMAIN book, next[o] > 0 PROVE left[o] > 0
  BY <1>1
<1> QED
  BY <1>1, BidsAndAsks DEF NothingCrosses

\* The matches of an item's orders go on from any schedule that has left these
\* orders alone; afterwards no bid for the item meets an ask.
LEMMA PlanForItem ==
    ASSUME NEW book \in Books, NEW item, NEW prefix, NEW L0, Schedule(book, prefix, L0),
           \A o \in DOMAIN book :
              book[o].item = item => LastOf(prefix, L0)[o] = book[o].remaining
    PROVE  /\ PlanOrderMatches(book, item) \in Seq(Match)
           /\ LET ms == prefix \o PlanOrderMatches(book, item) IN
              \E L : /\ Schedule(book, ms, L)
                     /\ \A o \in DOMAIN book :
                           book[o].item # item => LastOf(ms, L)[o] = LastOf(prefix, L0)[o]
                     /\ NothingCrosses(book, item, LastOf(ms, L))
<1> DEFINE n == Rounds(book, item)
           g == Loop(book, item)
           before == LastOf(prefix, L0)
           Reached(state, L) ==
              /\ Schedule(book, prefix \o state.matches, L)
              /\ \A o \in DOMAIN book : LastOf(prefix \o state.matches, L)[o] =
                    IF book[o].item = item THEN state.left[o] ELSE before[o]
           Good(k) == /\ g[k].left \in [DOMAIN book -> Nat]
                      /\ g[k].matches \in Seq(Match)
                      /\ \E L : Reached(g[k], L)
                      /\ \/ NothingCrosses(book, item, g[k].left)
                         \/ Cardinality(Live(book, item, g[k].left)) + k <= n
           T == {k \in Nat : k <= n => Good(k)}
<1>1. /\ n \in Nat
      /\ g[0] = Start(book)
      /\ \A k \in 1 .. n : g[k] = Round(book, item, g[k - 1])
  BY LoopRounds
<1>2. prefix \in Seq(Match)
  BY DEF Schedule
<1>3. 0 \in T
  <2>1. /\ g[0].left = [o \in DOMAIN book |-> book[o].remaining]
        /\ g[0].matches = <<>>
    BY <1>1 DEF Start
  <2>2. g[0].left \in [DOMAIN book -> Nat] /\ g[0].matches \in Seq(Match)
    BY <2>1, BookRows
  <2>3. prefix \o g[0].matches = prefix
    BY <1>2, <2>1, ConcatEmptySeq
  <2>4. Reached(g[0], L0)
    BY <2>1, <2>3
  <2>5. Cardinality(Live(book, item, g[0].left)) + 0 <= n
    <3> DEFINE B == Bids(book, item)
               A == Asks(book, item)
               S == Live(book, item, g[0].left)
    <3>1. B \cap A = {} /\ IsFiniteSet(B) /\ IsFiniteSet(A)
      BY BidsAndAsks
    <3>2. /\ IsFiniteSet(B \cup A)
          /\ Cardinality(B \cup A) = Cardinality(B) + Cardinality(A) - Cardinality(B \cap A)
      BY <3>1, FS_Union
    <3>3. Cardinality(B \cap A) = 0
      BY <3>1, FS_EmptySet
    <3>4. S \subseteq B \cup A
      BY DEF Live
    <3>5. n = Cardinality(B) + Cardinality(A)
      BY DEF Rounds
    <3> HIDE DEF B, A, S, n
    <3>6. IsFiniteSet(S) /\ Cardinality(S) <= Cardinality(B \cup A)
      BY <3>2, <3>4, FS_Subset
    <3>7. Cardinality(S) \in Nat /\ Cardinality(B) \in Nat /\ Cardinality(A) \in Nat
      BY <3>1, <3>6, FS_CardinalityType
    <3>8. Cardinality(S) + 0 <= n
      BY <3>2, <3>3, <3>5, <3>6, <3>7
    <3> QED
      BY <3>8 DEF S
  <2> QED
    BY <2>2, <2>4, <2>5
<1>4. ASSUME NEW k \in Nat, k \in T PROVE k + 1 \in T
  <2> SUFFICES ASSUME k + 1 <= n PROVE Good(k + 1)
    OBVIOUS
  <2> DEFINE state == g[k]
             next == g[k + 1]
  <2>1. next = Round(book, item, state)
    BY <1>1
  <2>2. Good(k)
    BY <1>1, <1>4
  <2>3. CASE Round(book, item, state) = state /\ NothingCrosses(book, item, state.left)
    <3> HIDE DEF state, next, Reached
    <3>1. next = state
      BY <2>1, <2>3
    <3> QED
      BY <2>2, <2>3, <3>1 DEF state, next
  <2>4. CASE \E m \in Match :
                /\ Fits(book, item, state.left, m)
                /\ m.quantity = state.left[m.buy] \/ m.quantity = state.left[m.sell]
                /\ Round(book, item, state) = [left |-> After(state.left, m),
                                               matches |-> Append(state.matches, m)]
    <3>1. PICK m \in Match :
                /\ Fits(book, item, state.left, m)
                /\ m.quantity = state.left[m.buy] \/ m.quantity = state.left[m.sell]
                /\ Round(book, item, state) = [left |-> After(state.left, m),
                                               matches |-> Append(state.matches, m)]
      BY <2>4
    <3>2. next.left = After(state.left, m) /\ next.matches = Append(state.matches, m)
      BY <2>1, <3>1
    <3>3. PICK L : Reached(state, L)
      BY <2>2
    <3> HIDE DEF state, next
    <3>4. state.left \in [DOMAIN book -> Nat] /\ state.matches \in Seq(Match)
      BY <2>2 DEF state
    <3>5. next.matches \in Seq(Match)
      BY <3>2, <3>4, AppendProperties
    <3>6. /\ next.left \in [DOMAIN book -> Nat]
          /\ \A o \in DOMAIN book : next.left[o] =
                IF o \in {m.buy, m.sell} THEN state.left[o] - m.quantity ELSE state.left[o]
          /\ \A o \in DOMAIN book : next.left[o] <= state.left[o]
          /\ m.buy \in DOMAIN book /\ m.sell \in DOMAIN book
          /\ book[m.buy].item = item /\ book[m.sell].item = item
      BY <3>1, <3>2, <3>4, AfterShrinks, SMTT(30)
    <3> DEFINE ms == prefix \o state.matches
               last == LastOf(ms, L)
    <3>7. /\ Schedule(book, ms, L)
          /\ \A o \in DOMAIN book :
                last[o] = IF book[o].item = item THEN state.left[o] ELSE before[o]
      BY <3>3
    <3>8. Fits(book, item, last, m)
      BY <3>1, <3>6, <3>7 DEF Fits
    <3>9. Append(ms, m) = prefix \o next.matches
      <4>1. Append(state.matches, m) = state.matches \o <<m>>
        BY <3>4, AppendIsConcat
      <4>2. ms \in Seq(Match) /\ <<m>> \in Seq(Match)
        BY <1>2, <3>4, ConcatProperties
      <4>3. Append(ms, m) = ms \o <<m>>
        BY <4>2, AppendIsConcat
      <4>4. (prefix \o state.matches) \o <<m>> = prefix \o (state.matches \o <<m>>)
        <5>1. \A s, t, u \in Seq(Match) : (s \o t) \o u = s \o (t \o u)
          BY ConcatAssociative
        <5> QED
          BY <1>2, <3>4, <4>2, <5>1, Zenon
      <4> QED
        BY <3>2, <4>1, <4>3, <4>4
    <3>10. PICK M : Schedule(book, Append(ms, m), M) /\ LastOf(Append(ms, m), M) = After(last, m)
      <4> HIDE DEF ms, last
      <4>1. last = LastOf(ms, L)
        BY DEF last
      <4> QED
        BY <3>7, <3>8, <4>1, ScheduleExtends
    <3>11. last \in [DOMAIN book -> Nat]
      <4>1. Len(ms) \in Nat
        BY <3>7, LenProperties DEF Schedule
      <4> QED
        BY <3>7, <4>1, SMTT(30) DEF Schedule, LastOf
    <3>12. \A o \in DOMAIN book :
              After(last, m)[o] = IF o \in {m.buy, m.sell} THEN last[o] - m.quantity ELSE last[o]
      BY <3>8, <3>11, AfterShrinks
    <3>13. \A o \in DOMAIN book : LastOf(prefix \o next.matches, M)[o] =
              IF book[o].item = item THEN next.left[o] ELSE before[o]
      <4> HIDE DEF ms, last, before
      <4>1. LastOf(prefix \o next.matches, M) = After(last, m)
        BY <3>9, <3>10
      <4> QED
        BY <3>6, <3>7, <3>12, <4>1
    <3>14. Reached(next, M)
      <4>1. Schedule(book, prefix \o next.matches, M)
        BY <3>9, <3>10
      <4> QED
        BY <3>13, <4>1
    <3>15. \/ NothingCrosses(book, item, next.left)
           \/ Cardinality(Live(book, item, next.left)) + (k + 1) <= n
      <4>1. CASE NothingCrosses(book, item, state.left)
        BY <3>4, <3>6, <4>1, StaysUncrossed
      <4>2. CASE Cardinality(Live(book, item, state.left)) + k <= n
        <5>1. /\ Cardinality(Live(book, item, state.left)) \in Nat
              /\ Cardinality(Live(book, item, next.left)) \in Nat
              /\ Cardinality(Live(book, item, next.left)) < Cardinality(Live(book, item, state.left))
          BY <3>1, <3>2, <3>4, LiveShrinks
        <5> HIDE DEF n
        <5> QED
          BY <1>1, <4>2, <5>1
      <4> QED
        BY <2>2, <4>1, <4>2 DEF state
    <3> HIDE DEF Reached, n
    <3> QED
      BY <3>5, <3>6, <3>14, <3>15 DEF next
  <2> QED
    <3>1. state.left \in [DOMAIN book -> Nat]
      BY <2>2
    <3> HIDE DEF state
    <3> QED
      BY <2>3, <2>4, <3>1, RoundMatchesOrStops
<1> HIDE DEF T
<1>5. n \in T
  BY <1>1, <1>3, <1>4, NatSetInduction
<1>6. Good(n)
  BY <1>1, <1>5 DEF T
<1> DEFINE ms == prefix \o g[n].matches
<1>7. PICK L : Reached(g[n], L)
  BY <1>6
<1>8. PlanOrderMatches(book, item) = g[n].matches
  BY PlanIsLastRound
<1>9. NothingCrosses(book, item, g[n].left)
  <2>1. CASE Cardinality(Live(book, item, g[n].left)) + n <= n
    <3> DEFINE S == Live(book, item, g[n].left)
    <3>1. S \subseteq DOMAIN book
      BY BidsAndAsks DEF Live
    <3>2. IsFiniteSet(S)
      BY <3>1, BookFinite, FS_Subset
    <3>3. Cardinality(S) \in Nat /\ (Cardinality(S) = 0 <=> S = {})
      BY <3>2, FS_CardinalityType, FS_EmptySet
    <3> HIDE DEF n, g
    <3>4. Cardinality(S) = 0
      <4> HIDE DEF S
      <4>1. Cardinality(S) + n <= n
        BY <2>1 DEF S
      <4> QED
        BY <1>1, <3>3, <4>1
    <3> QED
      BY <3>3, <3>4 DEF Live, NothingCrosses
  <2> QED
    BY <1>6, <2>1
<1>10. NothingCrosses(book, item, LastOf(ms, L))
  <2>1. \A o \in Bids(book, item) \cup Asks(book, item) :
           o \in DOMAIN book /\ book[o].item = item
    BY DEF Bids, Asks, OpenOrders
  <2>2. \A o \in Bids(book, item) \cup Asks(book, item) : LastOf(ms, L)[o] = g[n].left[o]
    BY <1>7, <2>1
  <2> HIDE DEF ms, g, n
  <2> QED
    BY <1>9, <2>2 DEF NothingCrosses
<1>11. /\ Schedule(book, ms, L)
       /\ \A o \in DOMAIN book : book[o].item # item => LastOf(ms, L)[o] = before[o]
  BY <1>7
<1>12. g[n].matches \in Seq(Match)
  BY <1>6
<1> HIDE DEF g, n
<1> QED
  BY <1>8, <1>10, <1>11, <1>12

-----------------------------------------------------------------------------
(* The plans of all items, one after the other.                            *)

\* The plan of a tick can be settled match after match, for any book and any
\* number of items; after it no bid meets an ask.
THEOREM PlanIsScheduled ==
    ASSUME orders \in Books
    PROVE  \E L : /\ Schedule(orders, PlanMatches, L)
                  /\ \A i \in Items : NothingCrosses(orders, i, LastOf(PlanMatches, L))
<1> DEFINE n == Cardinality(Items)
           items == SetToSeq(Items)
           seqs == [k \in DOMAIN items |-> PlanOrderMatches(orders, items[k])]
           Settled(k, L, ms) ==
              /\ Schedule(orders, ms, L)
              /\ \A o \in DOMAIN orders :
                    (\A j \in 1 .. k : orders[o].item # items[j])
                        => LastOf(ms, L)[o] = orders[o].remaining
              /\ \A j \in 1 .. k : NothingCrosses(orders, items[j], LastOf(ms, L))
<1>1. /\ n \in Nat /\ items \in [1 .. n -> Items]
      /\ \A j, k \in 1 .. n : items[j] = items[k] => j = k
      /\ \A i \in Items : \E k \in 1 .. n : items[k] = i
  BY AmountsAssumption, SetListed
<1> HIDE DEF n, items
<1>2. DOMAIN seqs = 1 .. n /\ \A k \in 1 .. n : seqs[k] = PlanOrderMatches(orders, items[k])
  BY <1>1
<1>3. Len(seqs) = n
  BY <1>1, <1>2
<1>4. PlanMatches = FlattenSeq(seqs)
  BY DEF PlanMatches, items
<1> HIDE DEF seqs
<1>5. \E L : Settled(0, L, <<>>)
  <2> DEFINE L == [k \in 1 .. 1 |-> Start(orders).left]
  <2>1. Start(orders).left \in [DOMAIN orders -> Nat]
    BY BookRows DEF Start
  <2>2. Len(<<>>) = 0 /\ <<>> \in Seq(Match)
    OBVIOUS
  <2>3. LastOf(<<>>, L) = Start(orders).left
    BY <2>2 DEF LastOf
  <2>4. Schedule(orders, <<>>, L)
    BY <2>1, <2>2 DEF Schedule
  <2>5. \A o \in DOMAIN orders : LastOf(<<>>, L)[o] = orders[o].remaining
    BY <2>3 DEF Start
  <2> HIDE DEF L
  <2> QED
    BY <2>4, <2>5
<1>6. ASSUME NEW k \in 1 .. n, NEW L0, NEW ms, Settled(k - 1, L0, ms)
      PROVE  /\ seqs[k] \in Seq(Match)
             /\ \E L : Settled(k, L, ms \o seqs[k])
  <2> DEFINE item == items[k]
             all == ms \o seqs[k]
  <2>1. \A o \in DOMAIN orders :
           orders[o].item = item => LastOf(ms, L0)[o] = orders[o].remaining
    BY <1>1, <1>6
  <2>2. /\ PlanOrderMatches(orders, item) \in Seq(Match)
        /\ LET after == ms \o PlanOrderMatches(orders, item) IN
           \E L : /\ Schedule(orders, after, L)
                  /\ \A o \in DOMAIN orders :
                        orders[o].item # item => LastOf(after, L)[o] = LastOf(ms, L0)[o]
                  /\ NothingCrosses(orders, item, LastOf(after, L))
    <3> HIDE DEF item
    <3>1. Schedule(orders, ms, L0)
      BY <1>6
    <3> QED
      BY <2>1, <3>1, PlanForItem
  <2>3. seqs[k] = PlanOrderMatches(orders, item)
    BY <1>2
  <2>4. PICK L : /\ Schedule(orders, all, L)
                 /\ \A o \in DOMAIN orders :
                       orders[o].item # item => LastOf(all, L)[o] = LastOf(ms, L0)[o]
                 /\ NothingCrosses(orders, item, LastOf(all, L))
    BY <2>2, <2>3
  <2> HIDE DEF all
  <2>5. ASSUME NEW o \in DOMAIN orders, \A j \in 1 .. k : orders[o].item # items[j]
        PROVE  LastOf(all, L)[o] = orders[o].remaining
    <3>1. orders[o].item # item /\ \A j \in 1 .. k - 1 : orders[o].item # items[j]
      BY <2>5, <1>1
    <3> QED
      BY <1>6, <2>4, <3>1
  <2>6. ASSUME NEW j \in 1 .. k PROVE NothingCrosses(orders, items[j], LastOf(all, L))
    <3>1. CASE j = k
      BY <2>4, <3>1
    <3>2. CASE j # k
      <4>1. j \in 1 .. k - 1 /\ items[j] # item
        BY <1>1, <3>2
      <4>2. NothingCrosses(orders, items[j], LastOf(ms, L0))
        BY <1>6, <4>1
      <4>3. \A o \in Bids(orders, items[j]) \cup Asks(orders, items[j]) :
               LastOf(all, L)[o] = LastOf(ms, L0)[o]
        BY <2>4, <4>1 DEF Bids, Asks, OpenOrders
      <4> QED
        BY <4>2, <4>3 DEF NothingCrosses
    <3> QED
      BY <3>1, <3>2
  <2>7. Settled(k, L, all)
    BY <2>4, <2>5, <2>6
  <2> HIDE DEF Settled
  <2> QED
    BY <2>2, <2>3, <2>7 DEF all
<1>7. \E L : Settled(n, L, PlanMatches)
  <2>1. CASE n = 0
    <3>1. PlanMatches = <<>>
      BY <1>2, <1>3, <1>4, <2>1 DEF FlattenSeq
    <3> HIDE DEF Settled
    <3> QED
      BY <1>5, <2>1, <3>1
  <2>2. CASE n # 0
    <3> DEFINE T == {k \in Nat : k + 1 <= n => \E L : Settled(k + 1, L, Joined(seqs)[k + 1])}
    <3>1. /\ PlanMatches = Joined(seqs)[n]
          /\ Joined(seqs)[1] = seqs[1]
          /\ \A i \in 2 .. n : Joined(seqs)[i] = Joined(seqs)[i - 1] \o seqs[i]
      BY <1>1, <1>3, <1>4, <2>2, FlattenSteps
    <3> HIDE DEF Settled
    <3>2. 0 \in T
      <4>1. PICK L0 : Settled(0, L0, <<>>)
        BY <1>5
      <4>2. 1 \in 1 .. n /\ 1 - 1 = 0
        BY <1>1, <2>2
      <4>3. Settled(1 - 1, L0, <<>>)
        BY <4>1, <4>2
      <4>4. seqs[1] \in Seq(Match) /\ \E L : Settled(1, L, <<>> \o seqs[1])
        BY <1>6, <4>2, <4>3
      <4>5. <<>> \o seqs[1] = Joined(seqs)[1]
        BY <3>1, <4>4, ConcatEmptySeq
      <4> QED
        BY <4>4, <4>5
    <3>3. ASSUME NEW k \in Nat, k \in T PROVE k + 1 \in T
      <4> SUFFICES ASSUME k + 2 <= n
                   PROVE  \E L : Settled(k + 2, L, Joined(seqs)[k + 2])
        BY DEF T
      <4>1. PICK L0 : Settled(k + 1, L0, Joined(seqs)[k + 1])
        BY <1>1, <3>3
      <4>2. k + 2 \in 1 .. n /\ k + 2 \in 2 .. n /\ (k + 2) - 1 = k + 1
        BY <1>1
      <4>3. Settled((k + 2) - 1, L0, Joined(seqs)[k + 1])
        BY <4>1, <4>2
      <4>4. \E L : Settled(k + 2, L, Joined(seqs)[k + 1] \o seqs[k + 2])
        BY <1>6, <4>2, <4>3
      <4>5. Joined(seqs)[k + 2] = Joined(seqs)[k + 1] \o seqs[k + 2]
        BY <3>1, <4>2
      <4> QED
        BY <4>4, <4>5
    <3> HIDE DEF T
    <3>4. n - 1 \in T
      <4>1. n - 1 \in Nat
        BY <1>1, <2>2
      <4> QED
        BY <3>2, <3>3, <4>1, NatSetInduction
    <3>5. \E L : Settled(n, L, Joined(seqs)[n])
      <4>1. n - 1 \in Nat /\ (n - 1) + 1 = n
        BY <1>1, <2>2
      <4> QED
        BY <1>1, <3>4, <4>1 DEF T
    <3> QED
      BY <3>1, <3>5
  <2> QED
    BY <2>1, <2>2
<1>8. PICK L : Settled(n, L, PlanMatches)
  BY <1>7
<1>9. \A i \in Items : NothingCrosses(orders, i, LastOf(PlanMatches, L))
  BY <1>1, <1>8
<1> QED
  BY <1>8, <1>9

-----------------------------------------------------------------------------
(* Sound rows: cs, st, os, ld stand for cash, stock, orders, ledger.       *)

TypedRows(cs, st, os, ld) ==
    /\ cs \in [Companies -> [cash : Nat, reserved : Nat]]
    /\ st \in [Companies -> [Items -> [quantity : Nat, reserved : Nat]]]
    /\ os \in Books
    /\ ld \in [Companies -> [cash : Int, reserved : Int]]

\* What an order reserves is what remains of it, while it is open.
HonestOrder(order) ==
    LET held == IF order.status = "OPEN" THEN order.remaining ELSE 0 IN
    /\ order.status = "FILLED" <=> order.remaining = 0
    /\ order.reservedCash = IF order.side = "BUY" THEN held * order.price ELSE 0
    /\ order.reservedQuantity = IF order.side = "SELL" THEN held ELSE 0

HonestOrders(os) == \A o \in DOMAIN os : HonestOrder(os[o])

\* What each order reserves of a company's cash and of its stock of an item.
CashHeld(os, c) ==
    [o \in DOMAIN os |-> IF os[o].company = c THEN os[o].reservedCash ELSE 0]
StockHeld(os, c, i) ==
    [o \in DOMAIN os |-> IF os[o].company = c /\ os[o].item = i THEN os[o].reservedQuantity ELSE 0]

CashBacked(cs, os) ==
    \A c \in Companies : /\ cs[c].reserved = SumFunctionOnSet(CashHeld(os, c), DOMAIN os)
                         /\ cs[c].reserved <= cs[c].cash

StockBacked(st, os) ==
    \A c \in Companies, i \in Items :
        /\ st[c][i].reserved = SumFunctionOnSet(StockHeld(os, c, i), DOMAIN os)
        /\ st[c][i].reserved <= st[c][i].quantity

Conserved(cs, st) ==
    /\ SumFunctionOnSet([c \in Companies |-> cs[c].cash], Companies)
           = StartCash * Cardinality(Companies)
    /\ \A i \in Items : SumFunctionOnSet([c \in Companies |-> st[c][i].quantity], Companies)
                            = StartStock * Cardinality(Companies)

Explained(cs, ld) ==
    \A c \in Companies : /\ cs[c].cash = StartCash + ld[c].cash
                         /\ cs[c].reserved = ld[c].reserved

SoundRows(cs, st, os, ld) ==
    /\ TypedRows(cs, st, os, ld)
    /\ HonestOrders(os)
    /\ CashBacked(cs, os)
    /\ StockBacked(st, os)
    /\ Conserved(cs, st)
    /\ Explained(cs, ld)

\* The rest of the plan can be settled, and leaves a book that does not cross.
PlanGoesThrough ==
    \E L : /\ Schedule(orders, plan, L)
           /\ \A i \in Items : NothingCrosses(orders, i, LastOf(plan, L))

ExchangeInv ==
    /\ SoundRows(cash, stock, orders, ledger)
    /\ plan \in Seq(Match)
    /\ plan # <<>> => Ticking
    /\ Ticking => /\ SoundRows(saved.cash, saved.stock, saved.orders, saved.ledger)
                  /\ PlanGoesThrough

-----------------------------------------------------------------------------
(* Arithmetic and single rows.                                             *)

\* What the prover does not know of products of natural numbers.
LEMMA Products ==
    /\ \A a, b \in Nat : a * b \in Nat
    /\ \A a, b, p \in Nat : a <= b => a * p <= b * p /\ p * a <= p * b
    /\ \A a, b, p \in Nat : (b - a) * p = b * p - a * p
    /\ \A a \in Nat : 0 * a = 0 /\ a * 0 = 0
<1>1. \A a, b \in Nat : a * b \in Nat
  OBVIOUS
<1>2. \A a, b, p \in Nat : (b - a) * p = b * p - a * p
  OBVIOUS
<1>3. ASSUME NEW a \in Nat, NEW b \in Nat, NEW p \in Nat, a <= b
      PROVE  a * p <= b * p /\ p * a <= p * b
  <2>1. b - a \in Nat
    BY <1>3
  <2>2. (b - a) * p \in Nat
    BY <2>1, <1>1
  <2>3. a * p \in Nat /\ b * p \in Nat
    BY <1>1
  <2>4. p * a = a * p /\ p * b = b * p
    OBVIOUS
  <2> QED
    BY <1>2, <2>2, <2>3, <2>4
<1>4. \A a \in Nat : 0 * a = 0 /\ a * 0 = 0
  OBVIOUS
<1> QED
  BY <1>1, <1>2, <1>3, <1>4

\* Quantities and prices are positive.
LEMMA Amounts ==
    /\ \A n \in Quantities : n \in Nat \ {0}
    /\ \A p \in Prices : p \in Nat \ {0}
    /\ StartCash \in Nat /\ StartStock \in Nat
    /\ IsFiniteSet(Companies) /\ IsFiniteSet(Items)
BY AmountsAssumption

\* The fields of a row of cash, of stock, of an order.
LEMMA Fields ==
    /\ \A row \in [cash : Nat, reserved : Nat] : row.cash \in Nat /\ row.reserved \in Nat
    /\ \A row \in [cash : Int, reserved : Int] : row.cash \in Int /\ row.reserved \in Int
    /\ \A row \in [quantity : Nat, reserved : Nat] : row.quantity \in Nat /\ row.reserved \in Nat
    /\ \A row \in OrderRow :
          /\ row.company \in Companies /\ row.item \in Items /\ row.side \in {"BUY", "SELL"}
          /\ row.quantity \in Quantities /\ row.remaining \in Nat /\ row.price \in Prices
          /\ row.reservedCash \in Nat /\ row.reservedQuantity \in Nat
          /\ row.status \in {"OPEN", "FILLED", "CANCELLED"}
BY DEF OrderRow

\* An order is withdrawn: the rest of its row stays.
LEMMA ClosedRow ==
    ASSUME NEW order \in OrderRow
    PROVE  LET row == ClosedWithoutReserve(order) IN
           /\ row \in OrderRow
           /\ row.company = order.company /\ row.item = order.item /\ row.side = order.side
           /\ row.remaining = order.remaining /\ row.price = order.price
           /\ row.reservedCash = 0 /\ row.reservedQuantity = 0
           /\ row.status = "CANCELLED"
BY DEF ClosedWithoutReserve, OrderRow

\* An order has traded, in part or whole: the rest of its row stays.
LEMMA FilledRow ==
    ASSUME NEW order \in OrderRow, NEW n \in Nat, NEW a \in Nat, NEW q \in Nat,
           order.remaining - n \in Nat, order.reservedCash - a \in Nat,
           order.reservedQuantity - q \in Nat
    PROVE  LET row == Filled(order, n, a, q) IN
           /\ row \in OrderRow
           /\ row.company = order.company /\ row.item = order.item /\ row.side = order.side
           /\ row.remaining = order.remaining - n /\ row.price = order.price
           /\ row.reservedCash = order.reservedCash - a
           /\ row.reservedQuantity = order.reservedQuantity - q
           /\ row.status = IF order.remaining = n THEN "FILLED" ELSE "OPEN"
BY DEF Filled, IsFilled, OrderRow

\* The values that are summed up are natural numbers.
LEMMA HeldNat ==
    ASSUME NEW os \in Books, NEW c, NEW i
    PROVE  /\ DOMAIN CashHeld(os, c) = DOMAIN os /\ DOMAIN StockHeld(os, c, i) = DOMAIN os
           /\ \A o \in DOMAIN os : CashHeld(os, c)[o] \in Nat /\ StockHeld(os, c, i)[o] \in Nat
<1>1. \A o \in DOMAIN os : os[o].reservedCash \in Nat /\ os[o].reservedQuantity \in Nat
  BY BookRows, Fields
<1> QED
  BY <1>1 DEF CashHeld, StockHeld

\* One company's reserve is written; V is Nat in a balance, Int in the ledger.
LEMMA ReserveWritten ==
    ASSUME NEW V, NEW cs \in [Companies -> [cash : V, reserved : V]],
           NEW c \in Companies, NEW r \in V
    PROVE  LET new == [cs EXCEPT ![c].reserved = r] IN
           /\ new \in [Companies -> [cash : V, reserved : V]]
           /\ \A d \in Companies : /\ new[d].cash = cs[d].cash
                                   /\ new[d].reserved = IF d = c THEN r ELSE cs[d].reserved
<1> DEFINE new == [cs EXCEPT ![c].reserved = r]
<1>1. \A d \in Companies : cs[d] \in [cash : V, reserved : V]
  OBVIOUS
<1>2. \A d \in Companies : new[d] = IF d = c THEN [cs[c] EXCEPT !.reserved = r] ELSE cs[d]
  OBVIOUS
<1>3. [cs[c] EXCEPT !.reserved = r] \in [cash : V, reserved : V]
  BY <1>1
<1>4. \A d \in Companies : new[d] \in [cash : V, reserved : V]
  BY <1>1, <1>2, <1>3
<1>5. new \in [Companies -> [cash : V, reserved : V]]
  BY <1>4
<1>6. ASSUME NEW d \in Companies
      PROVE  /\ new[d].cash = cs[d].cash
             /\ new[d].reserved = IF d = c THEN r ELSE cs[d].reserved
  <2> HIDE DEF new
  <2>1. CASE d = c
    <3>1. new[c] = [cs[c] EXCEPT !.reserved = r]
      BY <1>2
    <3> QED
      BY <1>1, <2>1, <3>1
  <2>2. CASE d # c
    BY <1>2, <2>2
  <2> QED
    BY <2>1, <2>2
<1> QED
  BY <1>5, <1>6

\* One company's cash is written.
LEMMA CashWritten ==
    ASSUME NEW V, NEW cs \in [Companies -> [cash : V, reserved : V]],
           NEW c \in Companies, NEW x \in V
    PROVE  LET new == [cs EXCEPT ![c].cash = x] IN
           /\ new \in [Companies -> [cash : V, reserved : V]]
           /\ \A d \in Companies : /\ new[d].reserved = cs[d].reserved
                                   /\ new[d].cash = IF d = c THEN x ELSE cs[d].cash
<1> DEFINE new == [cs EXCEPT ![c].cash = x]
<1>1. \A d \in Companies : cs[d] \in [cash : V, reserved : V]
  OBVIOUS
<1>2. \A d \in Companies : new[d] = IF d = c THEN [cs[c] EXCEPT !.cash = x] ELSE cs[d]
  OBVIOUS
<1>3. [cs[c] EXCEPT !.cash = x] \in [cash : V, reserved : V]
  BY <1>1
<1>4. \A d \in Companies : new[d] \in [cash : V, reserved : V]
  BY <1>1, <1>2, <1>3
<1>5. new \in [Companies -> [cash : V, reserved : V]]
  BY <1>4
<1>6. ASSUME NEW d \in Companies
      PROVE  /\ new[d].reserved = cs[d].reserved
             /\ new[d].cash = IF d = c THEN x ELSE cs[d].cash
  <2> HIDE DEF new
  <2>1. CASE d = c
    <3>1. new[c] = [cs[c] EXCEPT !.cash = x]
      BY <1>2
    <3> QED
      BY <1>1, <2>1, <3>1
  <2>2. CASE d # c
    BY <1>2, <2>2
  <2> QED
    BY <2>1, <2>2
<1> QED
  BY <1>5, <1>6

\* One row of the stock is written.
LEMMA StockWritten ==
    ASSUME NEW st \in [Companies -> [Items -> [quantity : Nat, reserved : Nat]]],
           NEW c \in Companies, NEW i \in Items, NEW row \in [quantity : Nat, reserved : Nat]
    PROVE  LET new == [st EXCEPT ![c][i] = row] IN
           /\ new \in [Companies -> [Items -> [quantity : Nat, reserved : Nat]]]
           /\ \A d \in Companies, j \in Items :
                 new[d][j] = IF d = c /\ j = i THEN row ELSE st[d][j]
<1> DEFINE new == [st EXCEPT ![c][i] = row]
<1>2. \A d \in Companies : new[d] = IF d = c THEN [st[c] EXCEPT ![i] = row] ELSE st[d]
  OBVIOUS
<1>3. [st[c] EXCEPT ![i] = row] \in [Items -> [quantity : Nat, reserved : Nat]]
  OBVIOUS
<1>4. \A d \in Companies : new[d] \in [Items -> [quantity : Nat, reserved : Nat]]
  BY <1>2, <1>3
<1>5. new \in [Companies -> [Items -> [quantity : Nat, reserved : Nat]]]
  BY <1>4
<1> QED
  BY <1>2, <1>5

\* One reserve of the stock is written.
LEMMA StockReserveWritten ==
    ASSUME NEW st \in [Companies -> [Items -> [quantity : Nat, reserved : Nat]]],
           NEW c \in Companies, NEW i \in Items, NEW r \in Nat
    PROVE  LET new == [st EXCEPT ![c][i].reserved = r] IN
           /\ new \in [Companies -> [Items -> [quantity : Nat, reserved : Nat]]]
           /\ \A d \in Companies, j \in Items :
                 /\ new[d][j].quantity = st[d][j].quantity
                 /\ new[d][j].reserved = IF d = c /\ j = i THEN r ELSE st[d][j].reserved
<1> DEFINE row == [st[c][i] EXCEPT !.reserved = r]
           new == [st EXCEPT ![c][i] = row]
<1>1. st[c][i] \in [quantity : Nat, reserved : Nat]
  OBVIOUS
<1>2. row \in [quantity : Nat, reserved : Nat] /\ row.quantity = st[c][i].quantity /\ row.reserved = r
  BY <1>1
<1>3. [st EXCEPT ![c][i].reserved = r] = new
  OBVIOUS
<1> HIDE DEF row
<1>4. /\ new \in [Companies -> [Items -> [quantity : Nat, reserved : Nat]]]
      /\ \A d \in Companies, j \in Items : new[d][j] = IF d = c /\ j = i THEN row ELSE st[d][j]
  BY <1>2, StockWritten
<1> HIDE DEF new
<1>5. \A d \in Companies, j \in Items :
         /\ new[d][j].quantity = st[d][j].quantity
         /\ new[d][j].reserved = IF d = c /\ j = i THEN r ELSE st[d][j].reserved
  BY <1>2, <1>4
<1> QED
  BY <1>3, <1>4, <1>5

-----------------------------------------------------------------------------
(* How the sums change with the book.                                      *)

\* A new order adds what it reserves.
LEMMA NewOrderHeld ==
    ASSUME NEW os \in Books, NEW row \in OrderRow, NEW c, NEW i
    PROVE  LET new == Append(os, row) IN
           /\ SumFunctionOnSet(CashHeld(new, c), DOMAIN new) =
                 SumFunctionOnSet(CashHeld(os, c), DOMAIN os)
                    + (IF row.company = c THEN row.reservedCash ELSE 0)
           /\ SumFunctionOnSet(StockHeld(new, c, i), DOMAIN new) =
                 SumFunctionOnSet(StockHeld(os, c, i), DOMAIN os)
                    + (IF row.company = c /\ row.item = i THEN row.reservedQuantity ELSE 0)
<1> DEFINE new == Append(os, row)
           n == Len(os) + 1
           f == CashHeld(new, c)
           g == StockHeld(new, c, i)
<1>1. /\ new \in Books
      /\ DOMAIN new = DOMAIN os \cup {n} /\ n \notin DOMAIN os
      /\ \A o \in DOMAIN os : new[o] = os[o]
      /\ new[n] = row
  BY BookRows, AppendProperties DEF Books
<1>2. IsFiniteSet(DOMAIN os)
  BY BookFinite
<1>3. /\ f[n] = IF row.company = c THEN row.reservedCash ELSE 0
      /\ g[n] = IF row.company = c /\ row.item = i THEN row.reservedQuantity ELSE 0
      /\ \A o \in DOMAIN os : f[o] = CashHeld(os, c)[o] /\ g[o] = StockHeld(os, c, i)[o]
  <2> HIDE DEF new, n
  <2> QED
    BY <1>1 DEF CashHeld, StockHeld
<1>4. \A o \in DOMAIN new : f[o] \in Int /\ g[o] \in Int
  <2> HIDE DEF new
  <2> QED
    BY <1>1, HeldNat
<1> HIDE DEF new, n, f, g
<1>5. SumFunctionOnSet(f, DOMAIN os \cup {n}) = SumFunctionOnSet(f, DOMAIN os) + f[n]
  BY <1>1, <1>2, <1>4, SumAddElement
<1>6. SumFunctionOnSet(f, DOMAIN os) = SumFunctionOnSet(CashHeld(os, c), DOMAIN os)
  BY <1>2, <1>3, SumSame
<1>7. SumFunctionOnSet(g, DOMAIN os \cup {n}) = SumFunctionOnSet(g, DOMAIN os) + g[n]
  BY <1>1, <1>2, <1>4, SumAddElement
<1>8. SumFunctionOnSet(g, DOMAIN os) = SumFunctionOnSet(StockHeld(os, c, i), DOMAIN os)
  BY <1>2, <1>3, SumSame
<1>9. SumFunctionOnSet(f, DOMAIN new) =
         SumFunctionOnSet(CashHeld(os, c), DOMAIN os)
            + (IF row.company = c THEN row.reservedCash ELSE 0)
  BY <1>1, <1>3, <1>5, <1>6
<1>10. SumFunctionOnSet(g, DOMAIN new) =
         SumFunctionOnSet(StockHeld(os, c, i), DOMAIN os)
            + (IF row.company = c /\ row.item = i THEN row.reservedQuantity ELSE 0)
  BY <1>1, <1>3, <1>7, <1>8
<1> QED
  BY <1>9, <1>10 DEF f, g, new

\* A changed order changes the sums of its company by what it reserves more.
LEMMA ChangedOrderHeld ==
    ASSUME NEW os \in Books, NEW o \in DOMAIN os, NEW row \in OrderRow,
           row.company = os[o].company, row.item = os[o].item, NEW c, NEW i
    PROVE  LET new == [os EXCEPT ![o] = row] IN
           /\ new \in Books /\ DOMAIN new = DOMAIN os
           /\ SumFunctionOnSet(CashHeld(new, c), DOMAIN new) =
                 SumFunctionOnSet(CashHeld(os, c), DOMAIN os)
                    + (IF row.company = c THEN row.reservedCash - os[o].reservedCash ELSE 0)
           /\ SumFunctionOnSet(StockHeld(new, c, i), DOMAIN new) =
                 SumFunctionOnSet(StockHeld(os, c, i), DOMAIN os)
                    + (IF row.company = c /\ row.item = i
                       THEN row.reservedQuantity - os[o].reservedQuantity ELSE 0)
<1> DEFINE new == [os EXCEPT ![o] = row]
           D == DOMAIN os
           f == CashHeld(os, c)
           f2 == CashHeld(new, c)
           g == StockHeld(os, c, i)
           g2 == StockHeld(new, c, i)
<1>1. /\ new \in Books /\ DOMAIN new = D /\ new[o] = row
      /\ \A p \in D \ {o} : new[p] = os[p]
  BY ExceptSeq, BookRows DEF Books
<1>2. IsFiniteSet(D)
  BY BookFinite
<1>3. \A p \in D : f[p] \in Int /\ g[p] \in Int
  BY HeldNat
<1>4. f2[o] \in Int /\ g2[o] \in Int
  BY <1>1, HeldNat
<1>5. \A p \in D \ {o} : f2[p] = f[p] /\ g2[p] = g[p]
  <2> HIDE DEF new
  <2> QED
    BY <1>1 DEF CashHeld, StockHeld
<1>6. /\ f2[o] - f[o] = IF row.company = c THEN row.reservedCash - os[o].reservedCash ELSE 0
      /\ g2[o] - g[o] = IF row.company = c /\ row.item = i
                        THEN row.reservedQuantity - os[o].reservedQuantity ELSE 0
  <2>1. /\ row.reservedCash \in Nat /\ row.reservedQuantity \in Nat
        /\ os[o].reservedCash \in Nat /\ os[o].reservedQuantity \in Nat
    BY BookRows, Fields
  <2> HIDE DEF new
  <2> QED
    BY <1>1, <2>1 DEF CashHeld, StockHeld
<1> HIDE DEF new, f, f2, g, g2
<1>7. SumFunctionOnSet(f2, D) = SumFunctionOnSet(f, D) + f2[o] - f[o]
  BY <1>2, <1>3, <1>4, <1>5, SumChanges
<1>8. SumFunctionOnSet(g2, D) = SumFunctionOnSet(g, D) + g2[o] - g[o]
  BY <1>2, <1>3, <1>4, <1>5, SumChanges
<1>9. SumFunctionOnSet(f, D) \in Int /\ SumFunctionOnSet(g, D) \in Int /\ f[o] \in Int /\ g[o] \in Int
  BY <1>2, <1>3, SumInt
<1>10. SumFunctionOnSet(f2, D) = SumFunctionOnSet(f, D)
           + (IF row.company = c THEN row.reservedCash - os[o].reservedCash ELSE 0)
  BY <1>4, <1>6, <1>7, <1>9
<1>11. SumFunctionOnSet(g2, D) = SumFunctionOnSet(g, D)
           + (IF row.company = c /\ row.item = i
              THEN row.reservedQuantity - os[o].reservedQuantity ELSE 0)
  BY <1>4, <1>6, <1>8, <1>9
<1> QED
  BY <1>1, <1>10, <1>11 DEF f, f2, g, g2, new

\* No order reserves more than its company has reserved.
LEMMA OrderWithinReserve ==
    ASSUME NEW cs, NEW st, NEW os, NEW ld, SoundRows(cs, st, os, ld), NEW o \in DOMAIN os
    PROVE  /\ os[o].reservedCash <= cs[os[o].company].reserved
           /\ os[o].reservedQuantity <= st[os[o].company][os[o].item].reserved
<1> DEFINE c == os[o].company
           i == os[o].item
<1>1. os \in Books
  BY DEF SoundRows, TypedRows
<1>2. c \in Companies /\ i \in Items
  BY <1>1, BookRows, Fields
<1> HIDE DEF c, i
<1>3. IsFiniteSet(DOMAIN os)
  BY <1>1, BookFinite
<1>4. \A p \in DOMAIN os : CashHeld(os, c)[p] \in Nat /\ StockHeld(os, c, i)[p] \in Nat
  BY <1>1, HeldNat
<1>5. CashHeld(os, c)[o] <= SumFunctionOnSet(CashHeld(os, c), DOMAIN os)
  BY <1>3, <1>4, SumNat
<1>6. StockHeld(os, c, i)[o] <= SumFunctionOnSet(StockHeld(os, c, i), DOMAIN os)
  BY <1>3, <1>4, SumNat
<1>7. CashHeld(os, c)[o] = os[o].reservedCash /\ StockHeld(os, c, i)[o] = os[o].reservedQuantity
  BY DEF CashHeld, StockHeld, c, i
<1>8. /\ cs[c].reserved = SumFunctionOnSet(CashHeld(os, c), DOMAIN os)
      /\ st[c][i].reserved = SumFunctionOnSet(StockHeld(os, c, i), DOMAIN os)
  BY <1>2 DEF SoundRows, CashBacked, StockBacked
<1> QED
  BY <1>5, <1>6, <1>7, <1>8 DEF c, i

-----------------------------------------------------------------------------
(* The requests keep the rows sound.                                       *)

\* The rows of companies and of orders, one by one.
LEMMA RowsOf ==
    ASSUME NEW cs, NEW st, NEW os, NEW ld, TypedRows(cs, st, os, ld)
    PROVE  /\ \A c \in Companies : cs[c].cash \in Nat /\ cs[c].reserved \in Nat
           /\ \A c \in Companies, i \in Items :
                 st[c][i].quantity \in Nat /\ st[c][i].reserved \in Nat
           /\ \A c \in Companies : ld[c].cash \in Int /\ ld[c].reserved \in Int
           /\ os \in Books
           /\ \A o \in DOMAIN os :
                 /\ os[o] \in OrderRow
                 /\ os[o].company \in Companies /\ os[o].item \in Items
                 /\ os[o].remaining \in Nat /\ os[o].price \in Nat \ {0} /\ os[o].price \in Prices
                 /\ os[o].reservedCash \in Nat /\ os[o].reservedQuantity \in Nat
<1>1. ASSUME NEW c \in Companies
      PROVE  /\ cs[c] \in [cash : Nat, reserved : Nat]
             /\ ld[c] \in [cash : Int, reserved : Int]
             /\ \A i \in Items : st[c][i] \in [quantity : Nat, reserved : Nat]
  BY DEF TypedRows
<1>2. os \in Books
  BY DEF TypedRows
<1>3. ASSUME NEW o \in DOMAIN os
      PROVE  /\ os[o] \in OrderRow
             /\ os[o].company \in Companies /\ os[o].item \in Items
             /\ os[o].remaining \in Nat /\ os[o].price \in Nat \ {0} /\ os[o].price \in Prices
             /\ os[o].reservedCash \in Nat /\ os[o].reservedQuantity \in Nat
  BY <1>2, BookRows, Fields
<1> QED
  BY <1>1, <1>2, <1>3, Fields

\* placeMarketOrderWithTx for a buy order keeps the rows sound.
LEMMA AddBuyOrderSound ==
    ASSUME SoundRows(cash, stock, orders, ledger),
           NEW c \in Companies, NEW i \in Items, NEW n \in Quantities, NEW price \in Prices,
           AddBuyOrder(c, i, n, price)
    PROVE  SoundRows(cash', stock', orders', ledger')
<1> DEFINE amount == n * price
           row == Order(c, i, "BUY", n, price, amount, 0)
<1> USE DEF SoundRows
<1>1. TypedRows(cash, stock, orders, ledger)
  OBVIOUS
<1>2. amount \in Nat /\ n \in Nat \ {0} /\ n * price = amount
  BY Amounts, Products
<1> HIDE DEF amount
<1>3. row \in OrderRow
  BY <1>2 DEF Order, OrderRow
<1>4. /\ row.company = c /\ row.item = i /\ row.reservedCash = amount /\ row.reservedQuantity = 0
      /\ HonestOrder(row)
  BY <1>2 DEF Order, HonestOrder, amount
<1>5. orders' = Append(orders, row) /\ stock' = stock
  BY <1>2 DEF AddBuyOrder
<1> HIDE DEF row
<1>6. /\ cash' \in [Companies -> [cash : Nat, reserved : Nat]]
      /\ \A d \in Companies :
            /\ cash'[d].cash = cash[d].cash
            /\ cash'[d].reserved = cash[d].reserved + (IF d = c THEN amount ELSE 0)
  <2>1. cash' = [cash EXCEPT ![c].reserved = cash[c].reserved + amount]
    BY <1>2 DEF AddBuyOrder
  <2>2. \A d \in Companies : cash[d].reserved \in Nat
    BY <1>1, RowsOf
  <2>3. cash[c].reserved + amount \in Nat
    BY <1>2, <2>2
  <2>4. cash \in [Companies -> [cash : Nat, reserved : Nat]]
    BY <1>1 DEF TypedRows
  <2>5. /\ cash' \in [Companies -> [cash : Nat, reserved : Nat]]
        /\ \A d \in Companies :
              /\ cash'[d].cash = cash[d].cash
              /\ cash'[d].reserved = IF d = c THEN cash[c].reserved + amount ELSE cash[d].reserved
    BY <2>1, <2>3, <2>4, ReserveWritten
  <2> QED
    BY <1>2, <2>2, <2>5
<1>7. /\ ledger' \in [Companies -> [cash : Int, reserved : Int]]
      /\ \A d \in Companies :
            /\ ledger'[d].cash = ledger[d].cash
            /\ ledger'[d].reserved = ledger[d].reserved + (IF d = c THEN amount ELSE 0)
  <2>1. ledger' = [ledger EXCEPT ![c].reserved = ledger[c].reserved + amount]
    BY <1>2 DEF AddBuyOrder, LedgerReserve
  <2>2. \A d \in Companies : ledger[d].reserved \in Int
    BY <1>1, RowsOf
  <2>3. ledger[c].reserved + amount \in Int
    BY <1>2, <2>2
  <2>4. ledger \in [Companies -> [cash : Int, reserved : Int]]
    BY <1>1 DEF TypedRows
  <2>5. /\ ledger' \in [Companies -> [cash : Int, reserved : Int]]
        /\ \A d \in Companies :
              /\ ledger'[d].cash = ledger[d].cash
              /\ ledger'[d].reserved = IF d = c THEN ledger[c].reserved + amount ELSE ledger[d].reserved
    BY <2>1, <2>3, <2>4, ReserveWritten
  <2> QED
    BY <1>2, <2>2, <2>5
<1>8. /\ orders' \in Books
      /\ DOMAIN orders' = DOMAIN orders \cup {Len(orders) + 1}
      /\ \A o \in DOMAIN orders : orders'[o] = orders[o]
      /\ orders'[Len(orders) + 1] = row
  BY <1>1, <1>3, <1>5, AppendProperties, BookRows DEF TypedRows, Books
<1>9. TypedRows(cash', stock', orders', ledger')
  BY <1>5, <1>6, <1>7, <1>8 DEF TypedRows
<1>10. HonestOrders(orders')
  BY <1>4, <1>8 DEF HonestOrders
<1>11. CashBacked(cash', orders')
  <2> SUFFICES ASSUME NEW d \in Companies
               PROVE  /\ cash'[d].reserved = SumFunctionOnSet(CashHeld(orders', d), DOMAIN orders')
                      /\ cash'[d].reserved <= cash'[d].cash
    BY DEF CashBacked
  <2>1. SumFunctionOnSet(CashHeld(orders', d), DOMAIN orders') =
           SumFunctionOnSet(CashHeld(orders, d), DOMAIN orders)
              + (IF c = d THEN amount ELSE 0)
    BY <1>1, <1>3, <1>4, <1>5, NewOrderHeld DEF TypedRows
  <2>2. cash[d].reserved = SumFunctionOnSet(CashHeld(orders, d), DOMAIN orders)
        /\ cash[d].reserved <= cash[d].cash
    BY DEF CashBacked
  <2>3. cash[c].cash - cash[c].reserved >= amount
    BY <1>2 DEF AddBuyOrder, CanReserve, AvailableCash
  <2>4. cash[d].cash \in Nat /\ cash[d].reserved \in Nat
    BY <1>1, RowsOf
  <2> QED
    BY <1>2, <1>6, <2>1, <2>2, <2>3, <2>4
<1>12. StockBacked(stock', orders')
  <2> SUFFICES ASSUME NEW d \in Companies, NEW j \in Items
               PROVE  stock[d][j].reserved = SumFunctionOnSet(StockHeld(orders', d, j), DOMAIN orders')
    BY <1>5 DEF StockBacked
  <2>1. SumFunctionOnSet(StockHeld(orders', d, j), DOMAIN orders') =
           SumFunctionOnSet(StockHeld(orders, d, j), DOMAIN orders)
              + (IF row.company = d /\ row.item = j THEN row.reservedQuantity ELSE 0)
    BY <1>1, <1>3, <1>5, NewOrderHeld DEF TypedRows
  <2>2. stock[d][j].reserved = SumFunctionOnSet(StockHeld(orders, d, j), DOMAIN orders)
    BY DEF StockBacked
  <2>3. stock[d][j].reserved \in Nat
    BY <1>1, RowsOf
  <2> QED
    BY <1>4, <2>1, <2>2, <2>3
<1>13. Conserved(cash', stock')
  <2>1. [d \in Companies |-> cash'[d].cash] = [d \in Companies |-> cash[d].cash]
    BY <1>6
  <2> QED
    BY <1>5, <2>1 DEF Conserved
<1>14. Explained(cash', ledger')
  BY <1>6, <1>7 DEF Explained
<1> QED
  BY <1>9, <1>10, <1>11, <1>12, <1>13, <1>14

\* placeMarketOrderWithTx for a sell order keeps the rows sound.
LEMMA AddSellOrderSound ==
    ASSUME SoundRows(cash, stock, orders, ledger),
           NEW c \in Companies, NEW i \in Items, NEW n \in Quantities, NEW price \in Prices,
           AddSellOrder(c, i, n, price)
    PROVE  SoundRows(cash', stock', orders', ledger')
<1> DEFINE row == Order(c, i, "SELL", n, price, 0, n)
<1> USE DEF SoundRows
<1>1. TypedRows(cash, stock, orders, ledger)
  OBVIOUS
<1>2. n \in Nat \ {0}
  BY Amounts
<1>3. row \in OrderRow
  BY <1>2 DEF Order, OrderRow
<1>4. /\ row.company = c /\ row.item = i /\ row.reservedCash = 0 /\ row.reservedQuantity = n
      /\ HonestOrder(row)
  BY <1>2 DEF Order, HonestOrder
<1>5. orders' = Append(orders, row) /\ cash' = cash /\ ledger' = ledger
  BY DEF AddSellOrder
<1> HIDE DEF row
<1>6. /\ stock' \in [Companies -> [Items -> [quantity : Nat, reserved : Nat]]]
      /\ \A d \in Companies, j \in Items :
            /\ stock'[d][j].quantity = stock[d][j].quantity
            /\ stock'[d][j].reserved = stock[d][j].reserved + (IF d = c /\ j = i THEN n ELSE 0)
  <2>1. stock \in [Companies -> [Items -> [quantity : Nat, reserved : Nat]]]
    BY <1>1 DEF TypedRows
  <2>2. stock' = [stock EXCEPT ![c][i].reserved = @ + n]
    BY DEF AddSellOrder
  <2>3. stock[c][i].reserved + n \in Nat
    BY <1>1, <1>2, RowsOf
  <2>4. stock' \in [Companies -> [Items -> [quantity : Nat, reserved : Nat]]]
    BY <2>1, <2>2, <2>3
  <2>5. ASSUME NEW d \in Companies, NEW j \in Items
        PROVE  /\ stock'[d][j].quantity = stock[d][j].quantity
               /\ stock'[d][j].reserved = stock[d][j].reserved + (IF d = c /\ j = i THEN n ELSE 0)
    <3>1. stock[d][j].reserved \in Nat
      BY <1>1, RowsOf
    <3> QED
      BY <2>1, <2>2, <3>1
  <2> QED
    BY <2>4, <2>5
<1>7. /\ orders' \in Books
      /\ DOMAIN orders' = DOMAIN orders \cup {Len(orders) + 1}
      /\ \A o \in DOMAIN orders : orders'[o] = orders[o]
      /\ orders'[Len(orders) + 1] = row
  BY <1>1, <1>3, <1>5, AppendProperties, BookRows DEF TypedRows, Books
<1>8. TypedRows(cash', stock', orders', ledger')
  BY <1>1, <1>5, <1>6, <1>7 DEF TypedRows
<1>9. HonestOrders(orders')
  BY <1>4, <1>7 DEF HonestOrders
<1>10. CashBacked(cash', orders')
  <2> SUFFICES ASSUME NEW d \in Companies
               PROVE  cash[d].reserved = SumFunctionOnSet(CashHeld(orders', d), DOMAIN orders')
    BY <1>5 DEF CashBacked
  <2>1. SumFunctionOnSet(CashHeld(orders', d), DOMAIN orders') =
           SumFunctionOnSet(CashHeld(orders, d), DOMAIN orders) + 0
    BY <1>1, <1>3, <1>4, <1>5, NewOrderHeld DEF TypedRows
  <2>2. cash[d].reserved = SumFunctionOnSet(CashHeld(orders, d), DOMAIN orders)
    BY DEF CashBacked
  <2>3. cash[d].reserved \in Nat
    BY <1>1, RowsOf
  <2> QED
    BY <2>1, <2>2, <2>3
<1>11. StockBacked(stock', orders')
  <2> SUFFICES ASSUME NEW d \in Companies, NEW j \in Items
               PROVE  /\ stock'[d][j].reserved =
                            SumFunctionOnSet(StockHeld(orders', d, j), DOMAIN orders')
                      /\ stock'[d][j].reserved <= stock'[d][j].quantity
    BY DEF StockBacked
  <2>1. SumFunctionOnSet(StockHeld(orders', d, j), DOMAIN orders') =
           SumFunctionOnSet(StockHeld(orders, d, j), DOMAIN orders)
              + (IF c = d /\ i = j THEN n ELSE 0)
    BY <1>1, <1>3, <1>4, <1>5, NewOrderHeld, SMTT(30) DEF TypedRows
  <2>2. stock[d][j].reserved = SumFunctionOnSet(StockHeld(orders, d, j), DOMAIN orders)
        /\ stock[d][j].reserved <= stock[d][j].quantity
    BY DEF StockBacked
  <2>3. stock[c][i].quantity - stock[c][i].reserved >= n
    BY DEF AddSellOrder, AvailableStock
  <2>4. stock[d][j].quantity \in Nat /\ stock[d][j].reserved \in Nat
    BY <1>1, RowsOf
  <2> QED
    BY <1>2, <1>6, <2>1, <2>2, <2>3, <2>4
<1>12. Conserved(cash', stock')
  <2>1. ASSUME NEW j \in Items
        PROVE  [d \in Companies |-> stock'[d][j].quantity] = [d \in Companies |-> stock[d][j].quantity]
    BY <1>6
  <2> QED
    BY <1>5, <2>1 DEF Conserved
<1>13. Explained(cash', ledger')
  BY <1>5 DEF Explained
<1> QED
  BY <1>8, <1>9, <1>10, <1>11, <1>12, <1>13

\* cancelMarketOrderWithTx keeps the rows sound.
LEMMA WithdrawOrderSound ==
    ASSUME SoundRows(cash, stock, orders, ledger), NEW o \in DOMAIN orders, WithdrawOrder(o)
    PROVE  SoundRows(cash', stock', orders', ledger')
<1> DEFINE order == orders[o]
           row == ClosedWithoutReserve(order)
           c == order.company
           i == order.item
           a == order.reservedCash
           n == order.reservedQuantity
<1> USE DEF SoundRows
<1>1. TypedRows(cash, stock, orders, ledger)
  OBVIOUS
<1>2. /\ order \in OrderRow /\ c \in Companies /\ i \in Items
      /\ a \in Nat /\ n \in Nat /\ order.remaining \in Nat
      /\ orders \in Books
  BY <1>1, RowsOf
<1>3. order.status = "OPEN" /\ HonestOrder(order)
  BY DEF WithdrawOrder, HonestOrders
<1>4. /\ row \in OrderRow
      /\ row.company = c /\ row.item = i
      /\ row.reservedCash = 0 /\ row.reservedQuantity = 0
      /\ row.status = "CANCELLED" /\ row.remaining = order.remaining
  BY <1>2, ClosedRow
<1>5. HonestOrder(row)
  <2>1. order.remaining # 0
    BY <1>3 DEF HonestOrder
  <2>2. 0 * row.price = 0
    <3>1. row.price \in Nat
      BY <1>4, Fields, Amounts
    <3> QED
      BY <3>1, Products
  <2> HIDE DEF row
  <2> QED
    BY <1>4, <2>1, <2>2 DEF HonestOrder
<1>6. /\ orders' = [orders EXCEPT ![o] = row]
      /\ cash' = [cash EXCEPT ![c].reserved = @ - a]
      /\ stock' = [stock EXCEPT ![c][i].reserved = @ - n]
      /\ ledger' = [ledger EXCEPT ![c].reserved = @ + (-a)]
      /\ cash[c].reserved >= a
      /\ stock[c][i].reserved >= n
  BY DEF WithdrawOrder, LedgerReserve
<1> HIDE DEF order, row, c, i, a, n
<1>7. /\ cash' \in [Companies -> [cash : Nat, reserved : Nat]]
      /\ \A d \in Companies :
            /\ cash'[d].cash = cash[d].cash
            /\ cash'[d].reserved = cash[d].reserved - (IF d = c THEN a ELSE 0)
  <2>1. \A d \in Companies : cash[d].reserved \in Nat
    BY <1>1, RowsOf
  <2>2. cash[c].reserved - a \in Nat
    BY <1>2, <1>6, <2>1
  <2>3. cash \in [Companies -> [cash : Nat, reserved : Nat]]
    BY <1>1 DEF TypedRows
  <2>4. cash' = [cash EXCEPT ![c].reserved = cash[c].reserved - a]
    BY <1>6
  <2>5. /\ cash' \in [Companies -> [cash : Nat, reserved : Nat]]
        /\ \A d \in Companies :
              /\ cash'[d].cash = cash[d].cash
              /\ cash'[d].reserved = IF d = c THEN cash[c].reserved - a ELSE cash[d].reserved
    BY <1>2, <2>2, <2>3, <2>4, ReserveWritten
  <2> QED
    BY <1>2, <2>1, <2>5
<1>8. /\ ledger' \in [Companies -> [cash : Int, reserved : Int]]
      /\ \A d \in Companies :
            /\ ledger'[d].cash = ledger[d].cash
            /\ ledger'[d].reserved = ledger[d].reserved - (IF d = c THEN a ELSE 0)
  <2>1. \A d \in Companies : ledger[d].reserved \in Int
    BY <1>1, RowsOf
  <2>2. ledger[c].reserved + (-a) \in Int
    BY <1>2, <2>1
  <2>3. ledger \in [Companies -> [cash : Int, reserved : Int]]
    BY <1>1 DEF TypedRows
  <2>4. ledger' = [ledger EXCEPT ![c].reserved = ledger[c].reserved + (-a)]
    BY <1>6
  <2>5. /\ ledger' \in [Companies -> [cash : Int, reserved : Int]]
        /\ \A d \in Companies :
              /\ ledger'[d].cash = ledger[d].cash
              /\ ledger'[d].reserved = IF d = c THEN ledger[c].reserved + (-a) ELSE ledger[d].reserved
    BY <1>2, <2>2, <2>3, <2>4, ReserveWritten
  <2> QED
    BY <1>2, <2>1, <2>5
<1>9. /\ stock' \in [Companies -> [Items -> [quantity : Nat, reserved : Nat]]]
      /\ \A d \in Companies, j \in Items :
            /\ stock'[d][j].quantity = stock[d][j].quantity
            /\ stock'[d][j].reserved = stock[d][j].reserved - (IF d = c /\ j = i THEN n ELSE 0)
  <2>1. \A d \in Companies, j \in Items : stock[d][j].reserved \in Nat
    BY <1>1, RowsOf
  <2>2. stock[c][i].reserved - n \in Nat
    BY <1>2, <1>6, <2>1
  <2>3. stock \in [Companies -> [Items -> [quantity : Nat, reserved : Nat]]]
    BY <1>1 DEF TypedRows
  <2>4. stock' = [stock EXCEPT ![c][i].reserved = stock[c][i].reserved - n]
    BY <1>6
  <2>5. /\ stock' \in [Companies -> [Items -> [quantity : Nat, reserved : Nat]]]
        /\ \A d \in Companies, j \in Items :
              /\ stock'[d][j].quantity = stock[d][j].quantity
              /\ stock'[d][j].reserved =
                    IF d = c /\ j = i THEN stock[c][i].reserved - n ELSE stock[d][j].reserved
    BY <1>2, <2>2, <2>3, <2>4, StockReserveWritten
  <2> QED
    BY <1>2, <2>1, <2>5
<1>10. /\ orders' \in Books /\ DOMAIN orders' = DOMAIN orders
       /\ \A p \in DOMAIN orders : orders'[p] = IF p = o THEN row ELSE orders[p]
  BY <1>2, <1>4, <1>6, ExceptSeq, BookRows DEF Books
<1>11. TypedRows(cash', stock', orders', ledger')
  BY <1>7, <1>8, <1>9, <1>10 DEF TypedRows
<1>12. HonestOrders(orders')
  BY <1>5, <1>10 DEF HonestOrders
<1>13. row.company = orders[o].company /\ row.item = orders[o].item
       /\ orders[o].reservedCash = a /\ orders[o].reservedQuantity = n
  BY <1>4 DEF a, n, c, i, order
<1>14. ASSUME NEW d, NEW j
       PROVE  LET new == [orders EXCEPT ![o] = row] IN
              /\ SumFunctionOnSet(CashHeld(new, d), DOMAIN new) =
                    SumFunctionOnSet(CashHeld(orders, d), DOMAIN orders)
                       + (IF row.company = d THEN row.reservedCash - orders[o].reservedCash ELSE 0)
              /\ SumFunctionOnSet(StockHeld(new, d, j), DOMAIN new) =
                    SumFunctionOnSet(StockHeld(orders, d, j), DOMAIN orders)
                       + (IF row.company = d /\ row.item = j
                          THEN row.reservedQuantity - orders[o].reservedQuantity ELSE 0)
  BY <1>2, <1>4, <1>13, ChangedOrderHeld
<1>15. CashBacked(cash', orders')
  <2> SUFFICES ASSUME NEW d \in Companies
               PROVE  /\ cash'[d].reserved = SumFunctionOnSet(CashHeld(orders', d), DOMAIN orders')
                      /\ cash'[d].reserved <= cash'[d].cash
    BY DEF CashBacked
  <2>1. SumFunctionOnSet(CashHeld(orders', d), DOMAIN orders') =
           SumFunctionOnSet(CashHeld(orders, d), DOMAIN orders)
              + (IF row.company = d THEN row.reservedCash - orders[o].reservedCash ELSE 0)
    BY <1>6, <1>14
  <2>2. cash[d].reserved = SumFunctionOnSet(CashHeld(orders, d), DOMAIN orders)
        /\ cash[d].reserved <= cash[d].cash
    BY DEF CashBacked
  <2>3. cash[d].cash \in Nat /\ cash[d].reserved \in Nat
    BY <1>1, RowsOf
  <2> QED
    BY <1>2, <1>4, <1>7, <1>13, <2>1, <2>2, <2>3
<1>16. StockBacked(stock', orders')
  <2> SUFFICES ASSUME NEW d \in Companies, NEW j \in Items
               PROVE  /\ stock'[d][j].reserved =
                            SumFunctionOnSet(StockHeld(orders', d, j), DOMAIN orders')
                      /\ stock'[d][j].reserved <= stock'[d][j].quantity
    BY DEF StockBacked
  <2>1. SumFunctionOnSet(StockHeld(orders', d, j), DOMAIN orders') =
           SumFunctionOnSet(StockHeld(orders, d, j), DOMAIN orders)
              + (IF row.company = d /\ row.item = j
                 THEN row.reservedQuantity - orders[o].reservedQuantity ELSE 0)
    BY <1>6, <1>14
  <2>2. stock[d][j].reserved = SumFunctionOnSet(StockHeld(orders, d, j), DOMAIN orders)
        /\ stock[d][j].reserved <= stock[d][j].quantity
    BY DEF StockBacked
  <2>3. stock[d][j].quantity \in Nat /\ stock[d][j].reserved \in Nat
    BY <1>1, RowsOf
  <2> QED
    BY <1>2, <1>4, <1>9, <1>13, <2>1, <2>2, <2>3
<1>17. Conserved(cash', stock')
  <2>1. [d \in Companies |-> cash'[d].cash] = [d \in Companies |-> cash[d].cash]
    BY <1>7
  <2>2. ASSUME NEW j \in Items
        PROVE  [d \in Companies |-> stock'[d][j].quantity] = [d \in Companies |-> stock[d][j].quantity]
    BY <1>9
  <2> QED
    BY <2>1, <2>2 DEF Conserved
<1>18. Explained(cash', ledger')
  BY <1>7, <1>8 DEF Explained
<1> QED
  BY <1>11, <1>12, <1>15, <1>16, <1>17, <1>18

-----------------------------------------------------------------------------
(* The rows that settling a match writes.                                  *)

\* The rows that SettleRows writes, each as a function of the rows it reads.
Paid(cs, b, s, N, R) ==
    LET paid == [cs EXCEPT ![b].cash = @ - N, ![b].reserved = @ - R]
    IN  [paid EXCEPT ![s].cash = @ + N]

Delivered(st, b, s, i, n) ==
    LET sent == [st EXCEPT ![s][i] = SoldStock(@, n)]
    IN  [sent EXCEPT ![b][i].quantity = @ + n]

BothFilled(os, b, s, n, R) ==
    [os EXCEPT ![b] = Filled(@, n, R, 0), ![s] = Filled(@, n, 0, n)]

\* What that changes: the buyer b pays N out of a reserve of R to the seller s,
\* n of item i go from the seller's reserve to the buyer, and the two orders
\* lose what has traded and what they had reserved for it.
PaymentMoved(new, cs, b, s, N, R) ==
    \A d \in Companies :
        /\ new[d].cash = cs[d].cash - (IF d = b THEN N ELSE 0) + (IF d = s THEN N ELSE 0)
        /\ new[d].reserved = cs[d].reserved - (IF d = b THEN R ELSE 0)

GoodsMoved(new, st, b, s, i, n) ==
    \A d \in Companies, j \in Items :
        /\ new[d][j].quantity = st[d][j].quantity
              - (IF d = s /\ j = i THEN n ELSE 0) + (IF d = b /\ j = i THEN n ELSE 0)
        /\ new[d][j].reserved = st[d][j].reserved - (IF d = s /\ j = i THEN n ELSE 0)

OrdersFilled(new, os, b, s, n, R) ==
    LET bought == Filled(os[b], n, R, 0)
        sold   == Filled(os[s], n, 0, n)
    IN  /\ bought \in OrderRow /\ sold \in OrderRow
        /\ new \in Books /\ DOMAIN new = DOMAIN os
        /\ \A o \in DOMAIN os :
              new[o] = IF o = b THEN bought ELSE IF o = s THEN sold ELSE os[o]
        /\ \A c, i :
              /\ SumFunctionOnSet(CashHeld(new, c), DOMAIN new) =
                    SumFunctionOnSet(CashHeld(os, c), DOMAIN os)
                       - (IF os[b].company = c THEN R ELSE 0)
              /\ SumFunctionOnSet(StockHeld(new, c, i), DOMAIN new) =
                    SumFunctionOnSet(StockHeld(os, c, i), DOMAIN os)
                       - (IF os[s].company = c /\ os[s].item = i THEN n ELSE 0)

\* Paid moves cash; V is Nat for balances, Int for the ledger.
LEMMA PaidMovesCash ==
    ASSUME NEW V, \A v \in V : v \in Int,
           NEW cs \in [Companies -> [cash : V, reserved : V]],
           NEW b \in Companies, NEW s \in Companies, NEW N \in Nat, NEW R \in Nat,
           cs[b].cash - N \in V, cs[b].reserved - R \in V, \A v \in V : v + N \in V
    PROVE  /\ Paid(cs, b, s, N, R) \in [Companies -> [cash : V, reserved : V]]
           /\ PaymentMoved(Paid(cs, b, s, N, R), cs, b, s, N, R)
<1> DEFINE debited == [cs EXCEPT ![b].cash = cs[b].cash - N]
           paid    == [debited EXCEPT ![b].reserved = cs[b].reserved - R]
           new     == [paid EXCEPT ![s].cash = paid[s].cash + N]
<1>1. \A d \in Companies : cs[d].cash \in Int /\ cs[d].reserved \in Int
  OBVIOUS
<1>2. /\ debited \in [Companies -> [cash : V, reserved : V]]
      /\ \A d \in Companies : /\ debited[d].reserved = cs[d].reserved
                              /\ debited[d].cash = IF d = b THEN cs[b].cash - N ELSE cs[d].cash
  BY CashWritten
<1>3. [cs EXCEPT ![b].cash = @ - N, ![b].reserved = @ - R] = paid
  BY <1>2
<1>4. Paid(cs, b, s, N, R) = new
  BY <1>3 DEF Paid
<1> HIDE DEF debited
<1>5. /\ paid \in [Companies -> [cash : V, reserved : V]]
      /\ \A d \in Companies :
            /\ paid[d].cash = debited[d].cash
            /\ paid[d].reserved = IF d = b THEN cs[b].reserved - R ELSE debited[d].reserved
  BY <1>2, ReserveWritten
<1> HIDE DEF paid
<1>6. paid[s].cash \in V
  BY <1>5
<1>7. paid[s].cash + N \in V
  BY <1>6
<1>8. /\ new \in [Companies -> [cash : V, reserved : V]]
      /\ \A d \in Companies : /\ new[d].reserved = paid[d].reserved
                              /\ new[d].cash = IF d = s THEN paid[s].cash + N ELSE paid[d].cash
  BY <1>5, <1>7, CashWritten
<1> HIDE DEF new
<1>9. \A d \in Companies :
         /\ new[d].cash = cs[d].cash - (IF d = b THEN N ELSE 0) + (IF d = s THEN N ELSE 0)
         /\ new[d].reserved = cs[d].reserved - (IF d = b THEN R ELSE 0)
  BY <1>1, <1>2, <1>5, <1>8
<1> QED
  BY <1>4, <1>8, <1>9 DEF PaymentMoved

\* The goods of a match move from the seller's reserve to the buyer's stock.
LEMMA DeliveredMovesGoods ==
    ASSUME NEW st \in [Companies -> [Items -> [quantity : Nat, reserved : Nat]]],
           NEW b \in Companies, NEW s \in Companies, NEW i \in Items, NEW n \in Nat,
           st[s][i].quantity >= n, st[s][i].reserved >= n
    PROVE  /\ Delivered(st, b, s, i, n) \in [Companies -> [Items -> [quantity : Nat, reserved : Nat]]]
           /\ GoodsMoved(Delivered(st, b, s, i, n), st, b, s, i, n)
<1> DEFINE sold == SoldStock(st[s][i], n)
           sent == [st EXCEPT ![s][i] = sold]
           kept == [sent[b][i] EXCEPT !.quantity = sent[b][i].quantity + n]
           new  == [sent EXCEPT ![b][i] = kept]
<1>1. \A d \in Companies, j \in Items : /\ st[d][j] \in [quantity : Nat, reserved : Nat]
                                        /\ st[d][j].quantity \in Nat /\ st[d][j].reserved \in Nat
  BY Fields
<1>2. /\ sold \in [quantity : Nat, reserved : Nat]
      /\ sold.quantity = st[s][i].quantity - n /\ sold.reserved = st[s][i].reserved - n
  <2>1. ASSUME NEW row \in [quantity : Nat, reserved : Nat], row.quantity - n \in Nat,
               row.reserved - n \in Nat
        PROVE  /\ SoldStock(row, n) \in [quantity : Nat, reserved : Nat]
               /\ SoldStock(row, n).quantity = row.quantity - n
               /\ SoldStock(row, n).reserved = row.reserved - n
    BY <2>1 DEF SoldStock
  <2>2. st[s][i].quantity - n \in Nat /\ st[s][i].reserved - n \in Nat
    BY <1>1
  <2>3. st[s][i] \in [quantity : Nat, reserved : Nat]
    BY <1>1
  <2> QED
    BY <2>1, <2>2, <2>3
<1> HIDE DEF sold
<1>3. /\ sent \in [Companies -> [Items -> [quantity : Nat, reserved : Nat]]]
      /\ \A d \in Companies, j \in Items : sent[d][j] = IF d = s /\ j = i THEN sold ELSE st[d][j]
  BY <1>2, StockWritten
<1>4. [st EXCEPT ![s][i] = SoldStock(@, n)] = sent
  BY DEF sold
<1>5. Delivered(st, b, s, i, n) = new
  BY <1>4 DEF Delivered
<1> HIDE DEF sent
<1>6. sent[b][i] \in [quantity : Nat, reserved : Nat] /\ sent[b][i].quantity \in Nat
  BY <1>3, Fields
<1>7. /\ kept \in [quantity : Nat, reserved : Nat]
      /\ kept.quantity = sent[b][i].quantity + n /\ kept.reserved = sent[b][i].reserved
  <2>1. ASSUME NEW row \in [quantity : Nat, reserved : Nat], NEW k \in Nat
        PROVE  /\ [row EXCEPT !.quantity = k] \in [quantity : Nat, reserved : Nat]
               /\ [row EXCEPT !.quantity = k].quantity = k
               /\ [row EXCEPT !.quantity = k].reserved = row.reserved
    BY <2>1
  <2> QED
    BY <1>6, <2>1, SMTT(30)
<1> HIDE DEF kept
<1>8. /\ new \in [Companies -> [Items -> [quantity : Nat, reserved : Nat]]]
      /\ \A d \in Companies, j \in Items : new[d][j] = IF d = b /\ j = i THEN kept ELSE sent[d][j]
  BY <1>3, <1>7, StockWritten
<1> HIDE DEF new
<1>9. ASSUME NEW d \in Companies, NEW j \in Items
      PROVE  /\ new[d][j].quantity = st[d][j].quantity
                   - (IF d = s /\ j = i THEN n ELSE 0) + (IF d = b /\ j = i THEN n ELSE 0)
             /\ new[d][j].reserved = st[d][j].reserved - (IF d = s /\ j = i THEN n ELSE 0)
  <2>1. /\ new[d][j].quantity = sent[d][j].quantity + (IF d = b /\ j = i THEN n ELSE 0)
        /\ new[d][j].reserved = sent[d][j].reserved
    <3>1. sent[d][j].quantity \in Nat
      BY <1>3, Fields
    <3> QED
      BY <1>7, <1>8, <3>1
  <2>2. /\ sent[d][j].quantity = st[d][j].quantity - (IF d = s /\ j = i THEN n ELSE 0)
        /\ sent[d][j].reserved = st[d][j].reserved - (IF d = s /\ j = i THEN n ELSE 0)
    BY <1>1, <1>2, <1>3
  <2> QED
    BY <2>1, <2>2
<1> QED
  BY <1>5, <1>8, <1>9 DEF GoodsMoved

-----------------------------------------------------------------------------
(* The checks of settleMatch.                                              *)

\* The first match of a plan that fits the book finds its orders open and both
\* parties with what they reserved, so settleMatch has nothing to object to.
LEMMA FirstMatchHolds ==
    ASSUME SoundRows(cash, stock, orders, ledger), NEW m \in Match, NEW item, NEW left,
           \A o \in DOMAIN orders : left[o] = orders[o].remaining, Fits(orders, item, left, m)
    PROVE  /\ StillOpen(m) /\ MatchHolds(m)
           /\ m.buy \in DOMAIN orders /\ m.sell \in DOMAIN orders /\ m.buy # m.sell
           /\ orders[m.buy].item = item /\ orders[m.sell].item = item
           /\ Notional(m) \in Nat /\ Reduction(m) \in Nat
<1> DEFINE buy == orders[m.buy]
           sell == orders[m.sell]
           n == m.quantity
<1>1. TypedRows(cash, stock, orders, ledger) /\ HonestOrders(orders)
      /\ CashBacked(cash, orders) /\ StockBacked(stock, orders)
  BY DEF SoundRows
<1>2. /\ m.buy \in DOMAIN orders /\ m.sell \in DOMAIN orders
      /\ buy.status = "OPEN" /\ sell.status = "OPEN"
      /\ buy.side = "BUY" /\ sell.side = "SELL"
      /\ buy.item = item /\ sell.item = item
  BY DEF Fits, Bids, Asks, OpenOrders
<1>3. /\ n \in Nat \ {0} /\ n <= buy.remaining /\ n <= sell.remaining
      /\ m.price \in Prices /\ m.price <= buy.price
  BY <1>2 DEF Fits
<1>4. /\ buy.remaining \in Nat /\ sell.remaining \in Nat
      /\ buy.price \in Nat /\ m.price \in Nat
      /\ buy.company \in Companies /\ sell.company \in Companies /\ sell.item \in Items
  BY <1>1, <1>2, <1>3, RowsOf, Amounts
<1>5. buy.reservedCash = buy.remaining * buy.price /\ sell.reservedQuantity = sell.remaining
  <2>1. HonestOrder(buy) /\ HonestOrder(sell)
    BY <1>1, <1>2 DEF HonestOrders
  <2> QED
    BY <1>2, <2>1 DEF HonestOrder
<1>6. /\ buy.reservedCash <= cash[buy.company].reserved
      /\ sell.reservedQuantity <= stock[sell.company][sell.item].reserved
  BY <1>2, OrderWithinReserve
<1>7. /\ cash[buy.company].reserved <= cash[buy.company].cash
      /\ stock[sell.company][sell.item].reserved <= stock[sell.company][sell.item].quantity
  BY <1>1, <1>4 DEF CashBacked, StockBacked
<1>8. /\ cash[buy.company].reserved \in Nat /\ cash[buy.company].cash \in Nat
      /\ stock[sell.company][sell.item].reserved \in Nat
      /\ stock[sell.company][sell.item].quantity \in Nat
      /\ buy.reservedCash \in Nat
  BY <1>1, <1>2, <1>4, RowsOf
<1> HIDE DEF buy, sell, n
<1>9. /\ n * m.price \in Nat /\ n * buy.price \in Nat /\ buy.remaining * buy.price \in Nat
      /\ n * m.price <= n * buy.price
      /\ n * buy.price <= buy.remaining * buy.price
  BY <1>3, <1>4, Products
<1>10. /\ sell.reservedQuantity >= n
       /\ stock[sell.company][sell.item].reserved >= n
       /\ stock[sell.company][sell.item].quantity >= n
  BY <1>3, <1>4, <1>5, <1>6, <1>7, <1>8
<1>11. /\ buy.reservedCash >= n * buy.price
       /\ cash[buy.company].reserved >= n * buy.price
       /\ cash[buy.company].cash >= n * m.price
       /\ cash[buy.company].reserved - n * buy.price <= cash[buy.company].cash - n * m.price
  <2> DEFINE N == n * m.price
             R == n * buy.price
             T == buy.remaining * buy.price
  <2>1. N \in Nat /\ R \in Nat /\ T \in Nat /\ N <= R /\ R <= T /\ buy.reservedCash = T
    BY <1>5, <1>9
  <2> HIDE DEF N, R, T
  <2>2. /\ buy.reservedCash >= R
        /\ cash[buy.company].reserved >= R
        /\ cash[buy.company].cash >= N
        /\ cash[buy.company].reserved - R <= cash[buy.company].cash - N
    BY <1>6, <1>7, <1>8, <2>1
  <2> QED
    BY <2>2 DEF N, R
<1>12. buy.remaining >= n /\ sell.remaining >= n
  BY <1>3, <1>4
<1>13. MatchHolds(m)
  BY <1>2, <1>10, <1>11, <1>12 DEF MatchHolds, buy, sell, n
<1>14. StillOpen(m)
  BY <1>2 DEF StillOpen, buy, sell
<1>15. Notional(m) \in Nat /\ Reduction(m) \in Nat
  BY <1>9 DEF Notional, Reduction, n, buy
<1>16. m.buy # m.sell
  BY <1>2 DEF buy, sell
<1> QED
  BY <1>2, <1>13, <1>14, <1>15, <1>16 DEF buy, sell


-----------------------------------------------------------------------------
(* What settling a match does to the rows.                                 *)

\* The two orders of a match lose what has traded and what they had reserved
\* for it; all other orders stay.
LEMMA BothOrdersFilled ==
    ASSUME NEW os \in Books, NEW b \in DOMAIN os, NEW s \in DOMAIN os, b # s,
           NEW n \in Nat, NEW R \in Nat,
           os[b].remaining >= n, os[b].reservedCash >= R,
           os[s].remaining >= n, os[s].reservedQuantity >= n
    PROVE  OrdersFilled(BothFilled(os, b, s, n, R), os, b, s, n, R)
<1> DEFINE bought == Filled(os[b], n, R, 0)
           sold == Filled(os[s], n, 0, n)
           half == [os EXCEPT ![b] = bought]
           new == [half EXCEPT ![s] = sold]
<1>1. /\ os[b] \in OrderRow /\ os[s] \in OrderRow
      /\ \A o \in DOMAIN os : /\ os[o].remaining \in Nat
                              /\ os[o].reservedCash \in Nat /\ os[o].reservedQuantity \in Nat
  BY BookRows, Fields
<1>2. /\ bought \in OrderRow
      /\ bought.company = os[b].company /\ bought.item = os[b].item
      /\ bought.reservedCash = os[b].reservedCash - R
      /\ bought.reservedQuantity = os[b].reservedQuantity - 0
  <2>1. os[b].remaining - n \in Nat /\ os[b].reservedCash - R \in Nat
        /\ os[b].reservedQuantity - 0 \in Nat
    BY <1>1
  <2> QED
    BY <1>1, <2>1, FilledRow
<1>3. /\ sold \in OrderRow
      /\ sold.company = os[s].company /\ sold.item = os[s].item
      /\ sold.reservedCash = os[s].reservedCash - 0
      /\ sold.reservedQuantity = os[s].reservedQuantity - n
  <2>1. os[s].remaining - n \in Nat /\ os[s].reservedCash - 0 \in Nat
        /\ os[s].reservedQuantity - n \in Nat
    BY <1>1
  <2> QED
    BY <1>1, <2>1, FilledRow
<1> HIDE DEF bought, sold
<1>4. /\ half \in Books /\ DOMAIN half = DOMAIN os /\ half[b] = bought
      /\ \A o \in DOMAIN os \ {b} : half[o] = os[o]
  BY <1>2, ExceptSeq, BookRows DEF Books
<1>5. ASSUME NEW c, NEW i
      PROVE  /\ SumFunctionOnSet(CashHeld(half, c), DOMAIN half) =
                   SumFunctionOnSet(CashHeld(os, c), DOMAIN os)
                      + (IF bought.company = c THEN bought.reservedCash - os[b].reservedCash ELSE 0)
             /\ SumFunctionOnSet(StockHeld(half, c, i), DOMAIN half) =
                   SumFunctionOnSet(StockHeld(os, c, i), DOMAIN os)
                      + (IF bought.company = c /\ bought.item = i
                         THEN bought.reservedQuantity - os[b].reservedQuantity ELSE 0)
  BY <1>2, ChangedOrderHeld
<1> HIDE DEF half
<1>6. s \in DOMAIN half /\ half[s] = os[s]
  BY <1>4
<1>7. /\ new \in Books /\ DOMAIN new = DOMAIN half /\ new[s] = sold
      /\ \A o \in DOMAIN half \ {s} : new[o] = half[o]
  BY <1>3, <1>4, <1>6, ExceptSeq, BookRows DEF Books
<1>8. ASSUME NEW c, NEW i
      PROVE  /\ SumFunctionOnSet(CashHeld(new, c), DOMAIN new) =
                   SumFunctionOnSet(CashHeld(half, c), DOMAIN half)
                      + (IF sold.company = c THEN sold.reservedCash - half[s].reservedCash ELSE 0)
             /\ SumFunctionOnSet(StockHeld(new, c, i), DOMAIN new) =
                   SumFunctionOnSet(StockHeld(half, c, i), DOMAIN half)
                      + (IF sold.company = c /\ sold.item = i
                         THEN sold.reservedQuantity - half[s].reservedQuantity ELSE 0)
  <2>1. sold.company = half[s].company /\ sold.item = half[s].item
    BY <1>3, <1>6
  <2>2. half \in Books /\ s \in DOMAIN half /\ sold \in OrderRow
    BY <1>3, <1>4, <1>6
  <2> HIDE DEF new
  <2>3. LET after == [half EXCEPT ![s] = sold] IN
        /\ SumFunctionOnSet(CashHeld(after, c), DOMAIN after) =
              SumFunctionOnSet(CashHeld(half, c), DOMAIN half)
                 + (IF sold.company = c THEN sold.reservedCash - half[s].reservedCash ELSE 0)
        /\ SumFunctionOnSet(StockHeld(after, c, i), DOMAIN after) =
              SumFunctionOnSet(StockHeld(half, c, i), DOMAIN half)
                 + (IF sold.company = c /\ sold.item = i
                    THEN sold.reservedQuantity - half[s].reservedQuantity ELSE 0)
    BY <2>1, <2>2, ChangedOrderHeld
  <2> QED
    BY <2>3 DEF new
<1>9. BothFilled(os, b, s, n, R) = new
  <2>1. new = [half EXCEPT ![s] = Filled(half[s], n, 0, n)]
    BY <1>6 DEF sold
  <2> QED
    BY <2>1 DEF BothFilled, half, bought
<1>10. \A o \in DOMAIN os : new[o] = IF o = b THEN bought ELSE IF o = s THEN sold ELSE os[o]
  BY <1>4, <1>6, <1>7
<1> HIDE DEF new
<1>11. ASSUME NEW c, NEW i
       PROVE  /\ SumFunctionOnSet(CashHeld(new, c), DOMAIN new) =
                    SumFunctionOnSet(CashHeld(os, c), DOMAIN os)
                       - (IF os[b].company = c THEN R ELSE 0)
              /\ SumFunctionOnSet(StockHeld(new, c, i), DOMAIN new) =
                    SumFunctionOnSet(StockHeld(os, c, i), DOMAIN os)
                       - (IF os[s].company = c /\ os[s].item = i THEN n ELSE 0)
  <2>1. /\ SumFunctionOnSet(CashHeld(os, c), DOMAIN os) \in Int
        /\ SumFunctionOnSet(StockHeld(os, c, i), DOMAIN os) \in Int
    <3>1. \A o \in DOMAIN os : CashHeld(os, c)[o] \in Int /\ StockHeld(os, c, i)[o] \in Int
      BY HeldNat
    <3> QED
      BY <3>1, BookFinite, SumInt
  <2>2. /\ bought.reservedCash - os[b].reservedCash = -R
        /\ bought.reservedQuantity - os[b].reservedQuantity = 0
        /\ sold.reservedCash - os[s].reservedCash = 0
        /\ sold.reservedQuantity - os[s].reservedQuantity = -n
    BY <1>1, <1>2, <1>3
  <2>3. SumFunctionOnSet(CashHeld(new, c), DOMAIN new) =
           SumFunctionOnSet(CashHeld(os, c), DOMAIN os) - (IF os[b].company = c THEN R ELSE 0)
    BY <1>2, <1>3, <1>5, <1>6, <1>8, <2>1, <2>2
  <2>4. SumFunctionOnSet(StockHeld(new, c, i), DOMAIN new) =
           SumFunctionOnSet(StockHeld(os, c, i), DOMAIN os)
              - (IF os[s].company = c /\ os[s].item = i THEN n ELSE 0)
    BY <1>2, <1>3, <1>5, <1>6, <1>8, <2>1, <2>2
  <2> QED
    BY <2>3, <2>4
<1>12. new \in Books /\ DOMAIN new = DOMAIN os
  BY <1>4, <1>7
<1> QED
  BY <1>2, <1>3, <1>9, <1>10, <1>11, <1>12 DEF OrdersFilled, bought, sold

\* A filled order reserves what remains of it.
LEMMA FilledIsHonest ==
    ASSUME NEW order \in OrderRow, HonestOrder(order), order.status = "OPEN",
           NEW n \in Nat, n <= order.remaining,
           NEW a \in Nat, a = IF order.side = "BUY" THEN n * order.price ELSE 0,
           NEW q \in Nat, q = IF order.side = "SELL" THEN n ELSE 0
    PROVE  HonestOrder(Filled(order, n, a, q))
<1> DEFINE row == Filled(order, n, a, q)
           left == order.remaining - n
<1>1. /\ order.remaining \in Nat /\ order.price \in Nat
      /\ order.reservedCash \in Nat /\ order.reservedQuantity \in Nat
      /\ order.side \in {"BUY", "SELL"}
  BY Fields, Amounts
<1>2. /\ order.reservedCash = IF order.side = "BUY" THEN order.remaining * order.price ELSE 0
      /\ order.reservedQuantity = IF order.side = "SELL" THEN order.remaining ELSE 0
  BY DEF HonestOrder
<1>3. /\ left \in Nat
      /\ left * order.price = order.remaining * order.price - n * order.price
      /\ n * order.price <= order.remaining * order.price
      /\ left * order.price \in Nat /\ 0 * order.price = 0
  BY <1>1, Products
<1>4. order.reservedCash - a = IF order.side = "BUY" THEN left * order.price ELSE 0
  BY <1>2, <1>3
<1>5. order.reservedQuantity - q = IF order.side = "SELL" THEN left ELSE 0
  BY <1>1, <1>2
<1>6. order.reservedCash - a \in Nat /\ order.reservedQuantity - q \in Nat
  BY <1>3, <1>4, <1>5
<1>7. /\ row.side = order.side /\ row.remaining = left /\ row.price = order.price
      /\ row.reservedCash = order.reservedCash - a
      /\ row.reservedQuantity = order.reservedQuantity - q
      /\ row.status = IF order.remaining = n THEN "FILLED" ELSE "OPEN"
  BY <1>3, <1>6, FilledRow
<1>8. order.remaining = n <=> left = 0
  BY <1>1
<1> HIDE DEF row, left
<1>9. row.reservedCash = IF row.side = "BUY" THEN left * row.price ELSE 0
  BY <1>4, <1>7
<1>10. row.reservedQuantity = IF row.side = "SELL" THEN left ELSE 0
  BY <1>5, <1>7
<1>11. ASSUME left = 0 PROVE HonestOrder(row)
  <2>1. row.status = "FILLED" /\ row.remaining = 0
    BY <1>7, <1>8, <1>11
  <2>2. row.reservedCash = 0 /\ row.reservedQuantity = 0 /\ 0 * row.price = 0
    BY <1>3, <1>7, <1>9, <1>10, <1>11
  <2> QED
    BY <2>1, <2>2 DEF HonestOrder
<1>12. ASSUME left # 0 PROVE HonestOrder(row)
  <2>1. row.status = "OPEN" /\ row.remaining = left
    BY <1>7, <1>8, <1>12
  <2> QED
    BY <1>9, <1>10, <1>12, <2>1 DEF HonestOrder
<1> QED
  BY <1>11, <1>12 DEF row

\* Settling a match keeps the rows sound, also when a company trades with itself.
LEMMA SettleRowsSound ==
    ASSUME SoundRows(cash, stock, orders, ledger), NEW m \in Match,
           m.buy \in DOMAIN orders, m.sell \in DOMAIN orders, m.buy # m.sell,
           Notional(m) \in Nat, Reduction(m) \in Nat,
           StillOpen(m), MatchHolds(m), SettleRows(m)
    PROVE  SoundRows(cash', stock', orders', ledger')
<1> DEFINE buy == orders[m.buy]
           sell == orders[m.sell]
           b == buy.company
           s == sell.company
           i == buy.item
           n == m.quantity
           N == Notional(m)
           R == Reduction(m)
           bought == Filled(buy, n, R, 0)
           sold == Filled(sell, n, 0, n)
<1>1. TypedRows(cash, stock, orders, ledger) /\ HonestOrders(orders)
      /\ CashBacked(cash, orders) /\ StockBacked(stock, orders)
      /\ Conserved(cash, stock) /\ Explained(cash, ledger)
  BY DEF SoundRows
<1>2. /\ n \in Nat \ {0} /\ orders \in Books
      /\ buy \in OrderRow /\ sell \in OrderRow
      /\ b \in Companies /\ s \in Companies /\ i \in Items
      /\ buy.remaining \in Nat /\ sell.remaining \in Nat
      /\ buy.price \in Nat /\ sell.price \in Nat
      /\ buy.reservedCash \in Nat /\ sell.reservedQuantity \in Nat
  BY <1>1, RowsOf DEF Match
<1>3. /\ buy.side = "BUY" /\ sell.side = "SELL" /\ sell.item = i
      /\ buy.remaining >= n /\ sell.remaining >= n
      /\ buy.reservedCash >= R /\ sell.reservedQuantity >= n
      /\ stock[s][i].quantity >= n /\ stock[s][i].reserved >= n
      /\ cash[b].reserved >= R /\ cash[b].cash >= N
      /\ cash[b].reserved - R <= cash[b].cash - N
  BY DEF MatchHolds, Notional, Reduction
<1>4. buy.status = "OPEN" /\ sell.status = "OPEN" /\ HonestOrder(buy) /\ HonestOrder(sell)
  BY <1>1 DEF StillOpen, HonestOrders
<1>5. R = n * buy.price
  BY DEF Reduction
<1>6. /\ N \in Nat /\ R \in Nat
      /\ m.buy \in DOMAIN orders /\ m.sell \in DOMAIN orders /\ m.buy # m.sell
  OBVIOUS
<1>7. /\ cash' = Paid(cash, b, s, N, R)
      /\ stock' = Delivered(stock, b, s, i, n)
      /\ orders' = BothFilled(orders, m.buy, m.sell, n, R)
      /\ ledger' = Paid(ledger, b, s, N, R)
  BY DEF SettleRows, CreditedRow, Paid, Delivered, BothFilled
<1> HIDE DEF buy, sell, b, s, i, n, N, R
<1>8. /\ \A c \in Companies : cash[c].cash \in Nat /\ cash[c].reserved \in Nat
      /\ \A c \in Companies, j \in Items : stock[c][j].quantity \in Nat /\ stock[c][j].reserved \in Nat
      /\ \A c \in Companies : ledger[c].cash \in Int /\ ledger[c].reserved \in Int
  BY <1>1, RowsOf
<1>9. /\ cash' \in [Companies -> [cash : Nat, reserved : Nat]]
      /\ \A d \in Companies :
            /\ cash'[d].cash = cash[d].cash - (IF d = b THEN N ELSE 0) + (IF d = s THEN N ELSE 0)
            /\ cash'[d].reserved = cash[d].reserved - (IF d = b THEN R ELSE 0)
  <2>1. cash[b].cash - N \in Nat /\ cash[b].reserved - R \in Nat
    BY <1>2, <1>3, <1>6, <1>8
  <2>2. \A v \in Nat : v \in Int /\ v + N \in Nat
    BY <1>6
  <2>3. cash \in [Companies -> [cash : Nat, reserved : Nat]]
    BY <1>1 DEF TypedRows
  <2>4. /\ cash' \in [Companies -> [cash : Nat, reserved : Nat]]
        /\ PaymentMoved(cash', cash, b, s, N, R)
    BY <1>2, <1>6, <1>7, <2>1, <2>2, <2>3, PaidMovesCash
  <2> QED
    BY <2>4 DEF PaymentMoved
<1>10. /\ ledger' \in [Companies -> [cash : Int, reserved : Int]]
       /\ \A d \in Companies :
            /\ ledger'[d].cash = ledger[d].cash - (IF d = b THEN N ELSE 0) + (IF d = s THEN N ELSE 0)
            /\ ledger'[d].reserved = ledger[d].reserved - (IF d = b THEN R ELSE 0)
  <2>1. ledger[b].cash - N \in Int /\ ledger[b].reserved - R \in Int
    BY <1>2, <1>6, <1>8
  <2>2. \A v \in Int : v \in Int /\ v + N \in Int
    BY <1>6
  <2>3. ledger \in [Companies -> [cash : Int, reserved : Int]]
    BY <1>1 DEF TypedRows
  <2>4. /\ ledger' \in [Companies -> [cash : Int, reserved : Int]]
        /\ PaymentMoved(ledger', ledger, b, s, N, R)
    BY <1>2, <1>6, <1>7, <2>1, <2>2, <2>3, PaidMovesCash
  <2> QED
    BY <2>4 DEF PaymentMoved
<1>11. /\ stock' \in [Companies -> [Items -> [quantity : Nat, reserved : Nat]]]
       /\ \A d \in Companies, j \in Items :
             /\ stock'[d][j].quantity = stock[d][j].quantity
                   - (IF d = s /\ j = i THEN n ELSE 0) + (IF d = b /\ j = i THEN n ELSE 0)
             /\ stock'[d][j].reserved = stock[d][j].reserved - (IF d = s /\ j = i THEN n ELSE 0)
  <2>1. stock \in [Companies -> [Items -> [quantity : Nat, reserved : Nat]]]
    BY <1>1 DEF TypedRows
  <2>2. n \in Nat
    BY <1>2
  <2>3. /\ stock' \in [Companies -> [Items -> [quantity : Nat, reserved : Nat]]]
        /\ GoodsMoved(stock', stock, b, s, i, n)
    BY <1>2, <1>3, <1>7, <2>1, <2>2, DeliveredMovesGoods
  <2> QED
    BY <2>3 DEF GoodsMoved
<1>12. /\ bought \in OrderRow /\ sold \in OrderRow
       /\ orders' \in Books /\ DOMAIN orders' = DOMAIN orders
       /\ \A o \in DOMAIN orders :
             orders'[o] = IF o = m.buy THEN bought ELSE IF o = m.sell THEN sold ELSE orders[o]
       /\ \A c, j :
             /\ SumFunctionOnSet(CashHeld(orders', c), DOMAIN orders') =
                   SumFunctionOnSet(CashHeld(orders, c), DOMAIN orders)
                      - (IF b = c THEN R ELSE 0)
             /\ SumFunctionOnSet(StockHeld(orders', c, j), DOMAIN orders') =
                   SumFunctionOnSet(StockHeld(orders, c, j), DOMAIN orders)
                      - (IF s = c /\ i = j THEN n ELSE 0)
  <2>1. n \in Nat /\ R \in Nat
    BY <1>2, <1>6
  <2>2. /\ orders[m.buy].remaining >= n /\ orders[m.buy].reservedCash >= R
        /\ orders[m.sell].remaining >= n /\ orders[m.sell].reservedQuantity >= n
        /\ orders[m.buy].company = b /\ orders[m.sell].company = s /\ orders[m.sell].item = i
    BY <1>3 DEF buy, sell, b, s
  <2>3. /\ Filled(orders[m.buy], n, R, 0) = bought
        /\ Filled(orders[m.sell], n, 0, n) = sold
    BY DEF buy, sell
  <2>4. OrdersFilled(orders', orders, m.buy, m.sell, n, R)
    BY <1>2, <1>6, <1>7, <2>1, <2>2, BothOrdersFilled
  <2> HIDE DEF bought, sold
  <2> QED
    BY <2>2, <2>3, <2>4 DEF OrdersFilled
<1>13. HonestOrder(bought) /\ HonestOrder(sold)
  <2>1. n \in Nat /\ R \in Nat /\ 0 \in Nat /\ n <= buy.remaining /\ n <= sell.remaining
    BY <1>2, <1>3, <1>6
  <2>2. HonestOrder(bought)
    BY <1>2, <1>3, <1>4, <1>5, <2>1, FilledIsHonest
  <2>3. HonestOrder(sold)
    BY <1>2, <1>3, <1>4, <2>1, FilledIsHonest
  <2> QED
    BY <2>2, <2>3
<1> HIDE DEF bought, sold
<1>14. TypedRows(cash', stock', orders', ledger')
  BY <1>9, <1>10, <1>11, <1>12 DEF TypedRows
<1>15. HonestOrders(orders')
  BY <1>1, <1>12, <1>13 DEF HonestOrders
<1>16. CashBacked(cash', orders')
  <2> SUFFICES ASSUME NEW d \in Companies
               PROVE  /\ cash'[d].reserved = SumFunctionOnSet(CashHeld(orders', d), DOMAIN orders')
                      /\ cash'[d].reserved <= cash'[d].cash
    BY DEF CashBacked
  <2>1. SumFunctionOnSet(CashHeld(orders', d), DOMAIN orders') =
           SumFunctionOnSet(CashHeld(orders, d), DOMAIN orders) - (IF b = d THEN R ELSE 0)
    BY <1>12
  <2>2. cash[d].reserved = SumFunctionOnSet(CashHeld(orders, d), DOMAIN orders)
        /\ cash[d].reserved <= cash[d].cash
    BY <1>1 DEF CashBacked
  <2>3. cash[d].reserved \in Nat /\ cash[d].cash \in Nat
    BY <1>8
  <2>4. /\ cash'[d].cash = cash[d].cash - (IF d = b THEN N ELSE 0) + (IF d = s THEN N ELSE 0)
        /\ cash'[d].reserved = cash[d].reserved - (IF d = b THEN R ELSE 0)
    BY <1>9
  <2> QED
    BY <1>3, <1>6, <2>1, <2>2, <2>3, <2>4
<1>17. StockBacked(stock', orders')
  <2> SUFFICES ASSUME NEW d \in Companies, NEW j \in Items
               PROVE  /\ stock'[d][j].reserved =
                            SumFunctionOnSet(StockHeld(orders', d, j), DOMAIN orders')
                      /\ stock'[d][j].reserved <= stock'[d][j].quantity
    BY DEF StockBacked
  <2>1. SumFunctionOnSet(StockHeld(orders', d, j), DOMAIN orders') =
           SumFunctionOnSet(StockHeld(orders, d, j), DOMAIN orders)
              - (IF s = d /\ i = j THEN n ELSE 0)
    BY <1>12
  <2>2. stock[d][j].reserved = SumFunctionOnSet(StockHeld(orders, d, j), DOMAIN orders)
        /\ stock[d][j].reserved <= stock[d][j].quantity
    BY <1>1 DEF StockBacked
  <2>3. stock[d][j].reserved \in Nat /\ stock[d][j].quantity \in Nat
    BY <1>8
  <2>4. /\ stock'[d][j].quantity = stock[d][j].quantity
             - (IF d = s /\ j = i THEN n ELSE 0) + (IF d = b /\ j = i THEN n ELSE 0)
        /\ stock'[d][j].reserved = stock[d][j].reserved - (IF d = s /\ j = i THEN n ELSE 0)
    BY <1>11
  <2> QED
    BY <1>2, <2>1, <2>2, <2>3, <2>4
<1>18. Conserved(cash', stock')
  <2>1. IsFiniteSet(Companies)
    BY Amounts
  <2>2. SumFunctionOnSet([d \in Companies |-> cash'[d].cash], Companies)
           = SumFunctionOnSet([d \in Companies |-> cash[d].cash], Companies)
    <3> DEFINE f == [d \in Companies |-> cash[d].cash]
               g == [d \in Companies |-> cash'[d].cash]
    <3>1. \A d \in Companies : f[d] \in Int
      BY <1>8
    <3>2. \A d \in Companies :
             g[d] = f[d] - (IF d = b THEN N ELSE 0) + (IF d = s THEN N ELSE 0)
      BY <1>9
    <3>3. N \in Int
      BY <1>6
    <3> HIDE DEF f, g
    <3>4. SumFunctionOnSet(g, Companies) = SumFunctionOnSet(f, Companies)
      BY <1>2, <2>1, <3>1, <3>2, <3>3, SumMoved
    <3> QED
      BY <3>4 DEF f, g
  <2>3. ASSUME NEW j \in Items
        PROVE  SumFunctionOnSet([d \in Companies |-> stock'[d][j].quantity], Companies)
                  = SumFunctionOnSet([d \in Companies |-> stock[d][j].quantity], Companies)
    <3> DEFINE f == [d \in Companies |-> stock[d][j].quantity]
               g == [d \in Companies |-> stock'[d][j].quantity]
               k == IF j = i THEN n ELSE 0
    <3>1. \A d \in Companies : f[d] \in Int
      BY <1>8
    <3>2. \A d \in Companies :
             g[d] = f[d] - (IF d = s THEN k ELSE 0) + (IF d = b THEN k ELSE 0)
      BY <1>2, <1>8, <1>11
    <3>3. k \in Int
      BY <1>2
    <3> HIDE DEF f, g, k
    <3>4. SumFunctionOnSet(g, Companies) = SumFunctionOnSet(f, Companies)
      BY <1>2, <2>1, <3>1, <3>2, <3>3, SumMoved
    <3> QED
      BY <3>4 DEF f, g
  <2> QED
    BY <1>1, <2>2, <2>3 DEF Conserved
<1>19. Explained(cash', ledger')
  <2> SUFFICES ASSUME NEW d \in Companies
               PROVE  /\ cash'[d].cash = StartCash + ledger'[d].cash
                      /\ cash'[d].reserved = ledger'[d].reserved
    BY DEF Explained
  <2>1. cash[d].cash = StartCash + ledger[d].cash /\ cash[d].reserved = ledger[d].reserved
    BY <1>1 DEF Explained
  <2>2. /\ cash'[d].cash = cash[d].cash - (IF d = b THEN N ELSE 0) + (IF d = s THEN N ELSE 0)
        /\ cash'[d].reserved = cash[d].reserved - (IF d = b THEN R ELSE 0)
        /\ ledger'[d].cash = ledger[d].cash - (IF d = b THEN N ELSE 0) + (IF d = s THEN N ELSE 0)
        /\ ledger'[d].reserved = ledger[d].reserved - (IF d = b THEN R ELSE 0)
    BY <1>9, <1>10
  <2>3. ledger[d].cash \in Int /\ StartCash \in Int
    BY <1>8, Amounts
  <2> QED
    BY <1>6, <2>1, <2>2, <2>3
<1> QED
  BY <1>14, <1>15, <1>16, <1>17, <1>18, <1>19 DEF SoundRows

-----------------------------------------------------------------------------
(* The plan of a tick in progress.                                         *)

\* A match has been settled: what remains of the orders is what the schedule
\* leaves, and an order is still open when something remains of it.
MatchSettled(new, os, m, left) ==
    /\ new \in Books /\ DOMAIN new = DOMAIN os
    /\ \A o \in DOMAIN os :
          /\ new[o].item = os[o].item /\ new[o].side = os[o].side /\ new[o].price = os[o].price
          /\ new[o].remaining = After(left, m)[o]
          /\ new[o].status = "OPEN" => os[o].status = "OPEN"
          /\ os[o].status = "OPEN" /\ new[o].remaining > 0 => new[o].status = "OPEN"

\* Settling the first match leaves the rest of the plan as it should be.
LEMMA PlanAdvances ==
    ASSUME NEW os \in Books, NEW ms, NEW L, Schedule(os, ms, L), ms # <<>>,
           \A i \in Items : NothingCrosses(os, i, LastOf(ms, L)),
           NEW new, MatchSettled(new, os, Head(ms), L[1])
    PROVE  \E M : /\ Schedule(new, Tail(ms), M)
                  /\ \A i \in Items : NothingCrosses(new, i, LastOf(Tail(ms), M))
<1> DEFINE n == Len(ms)
           rest == Tail(ms)
           M == [k \in 1 .. n |-> L[k + 1]]
<1>1. /\ ms \in Seq(Match) /\ n \in Nat \ {0} /\ Head(ms) = ms[1]
      /\ rest \in Seq(Match) /\ Len(rest) = n - 1
      /\ \A k \in 1 .. n - 1 : rest[k] = ms[k + 1]
  <2>1. ms \in Seq(Match)
    BY DEF Schedule
  <2> QED
    BY <2>1, EmptySeq, HeadTailProperties
<1>2. L \in [1 .. n + 1 -> [DOMAIN os -> Nat]]
  BY DEF Schedule
<1>3. /\ \A j, k \in 1 .. n + 1 : j <= k => \A o \in DOMAIN os : L[k][o] <= L[j][o]
      /\ \A k \in 1 .. n : /\ Fits(os, os[ms[k].buy].item, L[k], ms[k])
                           /\ L[k + 1] = After(L[k], ms[k])
      /\ L[1] = Start(os).left
  BY DEF Schedule
<1>4. /\ new \in Books /\ DOMAIN new = DOMAIN os
      /\ \A o \in DOMAIN os :
            /\ new[o].item = os[o].item /\ new[o].side = os[o].side /\ new[o].price = os[o].price
            /\ new[o].remaining = L[2][o]
            /\ new[o].status = "OPEN" => os[o].status = "OPEN"
            /\ os[o].status = "OPEN" /\ new[o].remaining > 0 => new[o].status = "OPEN"
  <2>1. L[2] = After(L[1], Head(ms))
    BY <1>1, <1>3
  <2> QED
    BY <2>1 DEF MatchSettled
<1>5. \A o \in DOMAIN os : /\ L[1][o] = os[o].remaining
                           /\ L[1][o] \in Nat /\ L[2][o] \in Nat /\ L[2][o] <= L[1][o]
  <2>1. \A o \in DOMAIN os : L[1][o] = os[o].remaining
    BY <1>3 DEF Start
  <2>2. 1 \in 1 .. n + 1 /\ 2 \in 1 .. n + 1
    BY <1>1
  <2>3. L[1] \in [DOMAIN os -> Nat] /\ L[2] \in [DOMAIN os -> Nat]
    BY <1>2, <2>2
  <2>4. \A o \in DOMAIN os : L[2][o] <= L[1][o]
    BY <1>3, <2>2
  <2> QED
    BY <2>1, <2>3, <2>4
<1>6. \A k \in 1 .. n : M[k] = L[k + 1] /\ k + 1 \in 1 .. n + 1
  BY <1>1
<1>7. M \in [1 .. n -> [DOMAIN new -> Nat]]
  BY <1>2, <1>4, <1>6
<1>8. ASSUME NEW item
      PROVE  /\ Bids(new, item) \subseteq Bids(os, item)
             /\ Asks(new, item) \subseteq Asks(os, item)
             /\ \A o \in Bids(os, item) : new[o].remaining > 0 => o \in Bids(new, item)
             /\ \A o \in Asks(os, item) : new[o].remaining > 0 => o \in Asks(new, item)
  <2>1. ASSUME NEW side
        PROVE  /\ OpenOrders(new, item, side) \subseteq OpenOrders(os, item, side)
               /\ \A o \in OpenOrders(os, item, side) :
                     new[o].remaining > 0 => o \in OpenOrders(new, item, side)
    BY <1>4, <1>5 DEF OpenOrders
  <2> QED
    BY <2>1 DEF Bids, Asks
<1> HIDE DEF M
<1>9. Schedule(new, rest, M)
  <2>1. M \in [1 .. Len(rest) + 1 -> [DOMAIN new -> Nat]]
    BY <1>1, <1>7
  <2>2. M[1] = Start(new).left
    <3>1. M[1] = L[2]
      BY <1>1, <1>6
    <3>2. L[2] = [o \in DOMAIN new |-> new[o].remaining]
      <4>1. L[2] \in [DOMAIN os -> Nat]
        BY <1>1, <1>2
      <4> QED
        BY <1>4, <4>1
    <3> QED
      BY <3>1, <3>2 DEF Start
  <2>3. ASSUME NEW j \in 1 .. Len(rest) + 1, NEW k \in 1 .. Len(rest) + 1, j <= k,
               NEW o \in DOMAIN new
        PROVE  M[k][o] <= M[j][o]
    <3>1. j \in 1 .. n /\ k \in 1 .. n /\ j + 1 \in 1 .. n + 1 /\ k + 1 \in 1 .. n + 1
          /\ j + 1 <= k + 1
      BY <1>1, <2>3
    <3> QED
      BY <1>3, <1>4, <1>6, <3>1
  <2>4. ASSUME NEW k \in 1 .. Len(rest)
        PROVE  /\ Fits(new, new[rest[k].buy].item, M[k], rest[k])
               /\ M[k + 1] = After(M[k], rest[k])
    <3> DEFINE m == rest[k]
               item == os[m.buy].item
    <3>1. k \in 1 .. n - 1 /\ k \in 1 .. n /\ k + 1 \in 1 .. n /\ k + 1 \in 1 .. n + 1
          /\ 2 \in 1 .. n + 1 /\ 2 <= k + 1
      BY <1>1
    <3>2. m = ms[k + 1] /\ M[k] = L[k + 1] /\ M[k + 1] = L[(k + 1) + 1]
      BY <1>1, <1>6, <3>1
    <3>3. /\ Fits(os, item, L[k + 1], m)
          /\ L[(k + 1) + 1] = After(L[k + 1], m)
      BY <1>3, <3>1, <3>2
    <3> HIDE DEF m
    <3>4. /\ m.buy \in Bids(os, item) /\ m.sell \in Asks(os, item)
          /\ m.quantity \in Nat \ {0}
          /\ m.quantity <= L[k + 1][m.buy] /\ m.quantity <= L[k + 1][m.sell]
          /\ m.price \in Prices /\ m.price <= os[m.buy].price
      BY <3>3 DEF Fits
    <3>5. m.buy \in DOMAIN os /\ m.sell \in DOMAIN os
      BY <3>4, BidsAndAsks
    <3>6. /\ L[k + 1][m.buy] <= L[2][m.buy] /\ L[k + 1][m.sell] <= L[2][m.sell]
          /\ L[k + 1][m.buy] \in Nat /\ L[k + 1][m.sell] \in Nat
      <4>1. \A o \in DOMAIN os : L[k + 1][o] <= L[2][o]
        BY <1>3, <3>1
      <4>2. L[k + 1] \in [DOMAIN os -> Nat]
        BY <1>2, <3>1
      <4> QED
        BY <3>5, <4>1, <4>2
    <3>7. new[m.buy].remaining > 0 /\ new[m.sell].remaining > 0
      <4>1. /\ new[m.buy].remaining = L[2][m.buy] /\ new[m.sell].remaining = L[2][m.sell]
            /\ L[2][m.buy] \in Nat /\ L[2][m.sell] \in Nat
        BY <1>4, <1>5, <3>5
      <4> QED
        BY <3>4, <3>6, <4>1
    <3>8. m.buy \in Bids(new, item) /\ m.sell \in Asks(new, item)
      BY <1>8, <3>4, <3>7
    <3>9. new[m.buy].item = item /\ new[m.buy].price = os[m.buy].price
      BY <1>4, <3>5
    <3>10. Fits(new, new[m.buy].item, M[k], m)
      BY <3>2, <3>4, <3>8, <3>9 DEF Fits
    <3>11. M[k + 1] = After(M[k], m)
      BY <3>2, <3>3
    <3> QED
      BY <3>10, <3>11 DEF m
  <2>5. rest \in Seq(Match)
    BY <1>1
  <2> HIDE DEF rest
  <2> QED
    BY <2>1, <2>2, <2>3, <2>4, <2>5 DEF Schedule
<1>10. ASSUME NEW i \in Items PROVE NothingCrosses(new, i, LastOf(rest, M))
  <2>1. LastOf(rest, M) = LastOf(ms, L)
    <3>1. Len(rest) + 1 = n /\ n \in 1 .. n
      BY <1>1
    <3> QED
      BY <1>6, <3>1 DEF LastOf
  <2>2. NothingCrosses(os, i, LastOf(ms, L))
    OBVIOUS
  <2>3. \A b \in Bids(new, i), s \in Asks(new, i) :
           new[b].price = os[b].price /\ new[s].price = os[s].price
    BY <1>4, <1>8, BidsAndAsks
  <2> QED
    BY <1>8, <2>1, <2>2, <2>3 DEF NothingCrosses
<1> QED
  BY <1>9, <1>10

\* What settleMatch does to the orders is what the plan expects of it.
LEMMA SettledAsPlanned ==
    ASSUME SoundRows(cash, stock, orders, ledger), NEW m \in Match, NEW left,
           m.buy \in DOMAIN orders, m.sell \in DOMAIN orders, m.buy # m.sell,
           Notional(m) \in Nat, Reduction(m) \in Nat,
           StillOpen(m), MatchHolds(m), SettleRows(m),
           DOMAIN left = DOMAIN orders, \A o \in DOMAIN orders : left[o] = orders[o].remaining
    PROVE  MatchSettled(orders', orders, m, left)
<1> DEFINE buy == orders[m.buy]
           sell == orders[m.sell]
           n == m.quantity
           R == Reduction(m)
           bought == Filled(buy, n, R, 0)
           sold == Filled(sell, n, 0, n)
<1>1. TypedRows(cash, stock, orders, ledger)
  BY DEF SoundRows
<1>2. /\ n \in Nat \ {0} /\ orders \in Books
      /\ buy \in OrderRow /\ sell \in OrderRow
      /\ \A o \in DOMAIN orders : /\ orders[o].remaining \in Nat
                                  /\ orders[o].reservedCash \in Nat
                                  /\ orders[o].reservedQuantity \in Nat
  BY <1>1, RowsOf DEF Match
<1>3. /\ buy.remaining >= n /\ sell.remaining >= n
      /\ buy.reservedCash >= R /\ sell.reservedQuantity >= n
      /\ buy.status = "OPEN" /\ sell.status = "OPEN"
  BY DEF MatchHolds, StillOpen, Reduction
<1>4. orders' = BothFilled(orders, m.buy, m.sell, n, R) /\ R \in Nat
  BY DEF SettleRows, BothFilled
<1> HIDE DEF buy, sell, n, R
<1>5. OrdersFilled(orders', orders, m.buy, m.sell, n, R)
  <2>1. n \in Nat
    BY <1>2
  <2>2. /\ orders[m.buy].remaining >= n /\ orders[m.buy].reservedCash >= R
        /\ orders[m.sell].remaining >= n /\ orders[m.sell].reservedQuantity >= n
    BY <1>3 DEF buy, sell
  <2> QED
    BY <1>2, <1>4, <2>1, <2>2, BothOrdersFilled
<1>6. /\ orders' \in Books /\ DOMAIN orders' = DOMAIN orders
      /\ \A o \in DOMAIN orders :
            orders'[o] = IF o = m.buy THEN bought ELSE IF o = m.sell THEN sold ELSE orders[o]
  BY <1>5 DEF OrdersFilled, buy, sell
<1>7. /\ bought.item = buy.item /\ bought.side = buy.side /\ bought.price = buy.price
      /\ bought.remaining = buy.remaining - n
      /\ bought.status = IF buy.remaining = n THEN "FILLED" ELSE "OPEN"
  <2>1. /\ n \in Nat /\ R \in Nat /\ 0 \in Nat
        /\ buy.remaining - n \in Nat /\ buy.reservedCash - R \in Nat /\ buy.reservedQuantity - 0 \in Nat
    BY <1>2, <1>3, <1>4 DEF buy
  <2> QED
    BY <1>2, <2>1, FilledRow
<1>8. /\ sold.item = sell.item /\ sold.side = sell.side /\ sold.price = sell.price
      /\ sold.remaining = sell.remaining - n
      /\ sold.status = IF sell.remaining = n THEN "FILLED" ELSE "OPEN"
  <2>1. /\ n \in Nat /\ 0 \in Nat
        /\ sell.remaining - n \in Nat /\ sell.reservedCash - 0 \in Nat /\ sell.reservedQuantity - n \in Nat
    BY <1>2, <1>3 DEF sell
  <2> QED
    BY <1>2, <2>1, FilledRow
<1> HIDE DEF bought, sold
<1>9. ASSUME NEW o \in DOMAIN orders
      PROVE  /\ orders'[o].item = orders[o].item /\ orders'[o].side = orders[o].side
             /\ orders'[o].price = orders[o].price
             /\ orders'[o].remaining = After(left, m)[o]
             /\ orders'[o].status = "OPEN" => orders[o].status = "OPEN"
             /\ orders[o].status = "OPEN" /\ orders'[o].remaining > 0 => orders'[o].status = "OPEN"
  <2>1. After(left, m)[o] = IF o \in {m.buy, m.sell} THEN orders[o].remaining - n
                                                     ELSE orders[o].remaining
    BY DEF After, n
  <2>2. CASE o = m.buy
    <3>1. orders'[o] = bought /\ orders[o] = buy
      BY <1>6, <2>2 DEF buy
    <3>2. buy.remaining - n > 0 => buy.remaining # n
      BY <1>2 DEF buy
    <3> QED
      BY <1>3, <1>7, <2>1, <2>2, <3>1, <3>2
  <2>3. CASE o = m.sell
    <3>1. orders'[o] = sold /\ orders[o] = sell
      BY <1>6, <2>3 DEF sell
    <3>2. sell.remaining - n > 0 => sell.remaining # n
      BY <1>2 DEF sell
    <3> QED
      BY <1>3, <1>8, <2>1, <2>3, <3>1, <3>2
  <2>4. CASE o # m.buy /\ o # m.sell
    BY <1>6, <2>1, <2>4
  <2> QED
    BY <2>2, <2>3, <2>4
<1> QED
  BY <1>6, <1>9 DEF MatchSettled

\* The first match of the plan, as the inductive invariant sees it.
LEMMA PlannedMatchHolds ==
    ASSUME SoundRows(cash, stock, orders, ledger), plan # <<>>,
           NEW L, Schedule(orders, plan, L)
    PROVE  LET m == Head(plan) IN
           /\ m \in Match
           /\ m.buy \in DOMAIN orders /\ m.sell \in DOMAIN orders /\ m.buy # m.sell
           /\ Notional(m) \in Nat /\ Reduction(m) \in Nat
           /\ StillOpen(m) /\ MatchHolds(m)
           /\ DOMAIN L[1] = DOMAIN orders
           /\ \A o \in DOMAIN orders : L[1][o] = orders[o].remaining
<1> DEFINE m == Head(plan)
<1>1. plan \in Seq(Match)
  BY DEF Schedule
<1>2. m = plan[1] /\ m \in Match /\ 1 \in 1 .. Len(plan)
  BY <1>1, EmptySeq, HeadTailProperties
<1>3. Fits(orders, orders[plan[1].buy].item, L[1], plan[1]) /\ L[1] = Start(orders).left
  BY <1>2 DEF Schedule
<1>4. DOMAIN L[1] = DOMAIN orders /\ \A o \in DOMAIN orders : L[1][o] = orders[o].remaining
  BY <1>3 DEF Start
<1>5. Fits(orders, orders[m.buy].item, L[1], m)
  BY <1>2, <1>3
<1> HIDE DEF m
<1>6. /\ StillOpen(m) /\ MatchHolds(m)
      /\ m.buy \in DOMAIN orders /\ m.sell \in DOMAIN orders /\ m.buy # m.sell
      /\ Notional(m) \in Nat /\ Reduction(m) \in Nat
  BY <1>2, <1>4, <1>5, FirstMatchHolds
<1> QED
  BY <1>2, <1>4, <1>6 DEF m

-----------------------------------------------------------------------------
(* The induction.                                                          *)

\* Companies start with sound rows.
LEMMA StartingRowsSound ==
    ASSUME StartingRows
    PROVE  SoundRows(cash, stock, orders, ledger)
<1>1. /\ orders = <<>> /\ DOMAIN orders = {} /\ orders \in Books
  BY EmptySeq DEF StartingRows, Books
<1>2. /\ \A c \in Companies : cash[c] = [cash |-> StartCash, reserved |-> 0]
      /\ \A c \in Companies, i \in Items : stock[c][i] = [quantity |-> StartStock, reserved |-> 0]
      /\ \A c \in Companies : ledger[c] = [cash |-> 0, reserved |-> 0]
  BY DEF StartingRows
<1>3. TypedRows(cash, stock, orders, ledger)
  <2>1. /\ [cash |-> StartCash, reserved |-> 0] \in [cash : Nat, reserved : Nat]
        /\ [quantity |-> StartStock, reserved |-> 0] \in [quantity : Nat, reserved : Nat]
        /\ [cash |-> 0, reserved |-> 0] \in [cash : Int, reserved : Int]
    BY Amounts
  <2>2. cash \in [Companies -> [cash : Nat, reserved : Nat]]
    BY <2>1 DEF StartingRows
  <2>3. stock \in [Companies -> [Items -> [quantity : Nat, reserved : Nat]]]
    BY <2>1 DEF StartingRows
  <2>4. ledger \in [Companies -> [cash : Int, reserved : Int]]
    BY <2>1 DEF StartingRows
  <2> QED
    BY <1>1, <2>2, <2>3, <2>4 DEF TypedRows
<1>4. HonestOrders(orders)
  BY <1>1 DEF HonestOrders
<1>5. CashBacked(cash, orders)
  <2> SUFFICES ASSUME NEW c \in Companies
               PROVE  /\ cash[c].reserved = SumFunctionOnSet(CashHeld(orders, c), DOMAIN orders)
                      /\ cash[c].reserved <= cash[c].cash
    BY DEF CashBacked
  <2>1. SumFunctionOnSet(CashHeld(orders, c), {}) = 0
    BY SumEmpty
  <2>2. cash[c].reserved = 0 /\ cash[c].cash = StartCash
    BY <1>2
  <2> QED
    BY <1>1, <2>1, <2>2, Amounts
<1>6. StockBacked(stock, orders)
  <2> SUFFICES ASSUME NEW c \in Companies, NEW i \in Items
               PROVE  /\ stock[c][i].reserved =
                            SumFunctionOnSet(StockHeld(orders, c, i), DOMAIN orders)
                      /\ stock[c][i].reserved <= stock[c][i].quantity
    BY DEF StockBacked
  <2>1. SumFunctionOnSet(StockHeld(orders, c, i), {}) = 0
    BY SumEmpty
  <2>2. stock[c][i].reserved = 0 /\ stock[c][i].quantity = StartStock
    BY <1>2
  <2> QED
    BY <1>1, <2>1, <2>2, Amounts
<1>7. Conserved(cash, stock)
  <2>1. SumFunctionOnSet([c \in Companies |-> cash[c].cash], Companies)
           = StartCash * Cardinality(Companies)
    <3> DEFINE f == [c \in Companies |-> cash[c].cash]
    <3>1. \A c \in Companies : f[c] = StartCash
      BY <1>2
    <3> HIDE DEF f
    <3>2. SumFunctionOnSet(f, Companies) = StartCash * Cardinality(Companies)
      BY <3>1, Amounts, SumConstant
    <3> QED
      BY <3>2 DEF f
  <2>2. ASSUME NEW i \in Items
        PROVE  SumFunctionOnSet([c \in Companies |-> stock[c][i].quantity], Companies)
                  = StartStock * Cardinality(Companies)
    <3> DEFINE f == [c \in Companies |-> stock[c][i].quantity]
    <3>1. \A c \in Companies : f[c] = StartStock
      BY <1>2
    <3> HIDE DEF f
    <3>2. SumFunctionOnSet(f, Companies) = StartStock * Cardinality(Companies)
      BY <3>1, Amounts, SumConstant
    <3> QED
      BY <3>2 DEF f
  <2> QED
    BY <2>1, <2>2 DEF Conserved
<1>8. Explained(cash, ledger)
  <2> SUFFICES ASSUME NEW c \in Companies
               PROVE  /\ cash[c].cash = StartCash + ledger[c].cash
                      /\ cash[c].reserved = ledger[c].reserved
    BY DEF Explained
  <2>1. /\ cash[c].cash = StartCash /\ cash[c].reserved = 0
        /\ ledger[c].cash = 0 /\ ledger[c].reserved = 0
    BY <1>2
  <2> QED
    BY <2>1, Amounts
<1> QED
  BY <1>3, <1>4, <1>5, <1>6, <1>7, <1>8 DEF SoundRows

\* A request between two ticks keeps the inductive invariant.
LEMMA RequestKeepsInv ==
    ASSUME ExchangeInv, Request
    PROVE  ExchangeInv'
<1>1. SoundRows(cash, stock, orders, ledger) /\ plan \in Seq(Match) /\ (plan # <<>> => Ticking)
  BY DEF ExchangeInv
<1>2. /\ ~Ticking /\ plan' = plan /\ saved' = saved
      /\ SoundRows(cash', stock', orders', ledger')
  <2>1. ASSUME NEW c \in Companies, NEW i \in Items, NEW n \in Quantities, NEW price \in Prices,
               PlaceBuyOrder(c, i, n, price)
        PROVE  /\ ~Ticking /\ plan' = plan /\ saved' = saved
               /\ SoundRows(cash', stock', orders', ledger')
    <3>1. ~Ticking /\ AddBuyOrder(c, i, n, price) /\ plan' = plan /\ saved' = saved
      BY <2>1 DEF PlaceBuyOrder
    <3> QED
      BY <1>1, <3>1, AddBuyOrderSound
  <2>2. ASSUME NEW c \in Companies, NEW i \in Items, NEW n \in Quantities, NEW price \in Prices,
               PlaceSellOrder(c, i, n, price)
        PROVE  /\ ~Ticking /\ plan' = plan /\ saved' = saved
               /\ SoundRows(cash', stock', orders', ledger')
    <3>1. ~Ticking /\ AddSellOrder(c, i, n, price) /\ plan' = plan /\ saved' = saved
      BY <2>2 DEF PlaceSellOrder
    <3> QED
      BY <1>1, <3>1, AddSellOrderSound
  <2>3. ASSUME NEW o \in DOMAIN orders, CancelOrder(o)
        PROVE  /\ ~Ticking /\ plan' = plan /\ saved' = saved
               /\ SoundRows(cash', stock', orders', ledger')
    <3>1. ~Ticking /\ WithdrawOrder(o) /\ plan' = plan /\ saved' = saved
      BY <2>3 DEF CancelOrder
    <3> QED
      BY <1>1, <3>1, WithdrawOrderSound
  <2> QED
    BY <2>1, <2>2, <2>3 DEF Request
<1>3. plan' = <<>> /\ ~(Ticking')
  BY <1>1, <1>2 DEF Ticking
<1> QED
  BY <1>1, <1>2, <1>3 DEF ExchangeInv

\* The market stage begins: the plan is made from the rows a rollback restores.
LEMMA StartKeepsInv ==
    ASSUME ExchangeInv, StartMatching
    PROVE  ExchangeInv'
<1>1. SoundRows(cash, stock, orders, ledger)
  BY DEF ExchangeInv
<1>2. /\ cash' = cash /\ stock' = stock /\ orders' = orders /\ ledger' = ledger
      /\ plan' = PlanMatches
      /\ saved' = [cash |-> cash, stock |-> stock, orders |-> orders, ledger |-> ledger]
  BY DEF StartMatching, economy
<1>3. orders \in Books
  BY <1>1 DEF SoundRows, TypedRows
<1>4. PICK L : /\ Schedule(orders, PlanMatches, L)
               /\ \A i \in Items : NothingCrosses(orders, i, LastOf(PlanMatches, L))
  BY <1>3, PlanIsScheduled
<1>5. PlanGoesThrough'
  <2>1. /\ Schedule(orders', plan', L)
        /\ \A i \in Items : NothingCrosses(orders', i, LastOf(plan', L))
    BY <1>2, <1>4
  <2> QED
    BY <2>1 DEF PlanGoesThrough
<1>6. plan' \in Seq(Match)
  BY <1>2, <1>4 DEF Schedule
<1>7. /\ saved'.cash = cash /\ saved'.stock = stock
      /\ saved'.orders = orders /\ saved'.ledger = ledger
  BY <1>2
<1>8. SoundRows(saved'.cash, saved'.stock, saved'.orders, saved'.ledger)
  BY <1>1, <1>7
<1>9. ASSUME plan' # <<>> PROVE Ticking'
  <2>1. Len(PlanMatches) \in Nat \ {0} /\ 1 \in 1 .. Len(PlanMatches)
    BY <1>2, <1>6, <1>9, EmptySeq
  <2>2. Fits(orders, orders[PlanMatches[1].buy].item, L[1], PlanMatches[1])
    BY <1>4, <2>1 DEF Schedule
  <2>3. PlanMatches[1].buy \in DOMAIN orders
    BY <1>3, <2>2, BidsAndAsks DEF Fits
  <2>4. orders # <<>>
    BY <2>3, EmptySeq
  <2>5. NoTick.orders = <<>>
    BY DEF NoTick
  <2>6. saved' # NoTick
    BY <1>7, <2>4, <2>5
  <2> QED
    BY <2>6 DEF Ticking, NoTick
<1> QED
  BY <1>1, <1>2, <1>5, <1>6, <1>8, <1>9 DEF ExchangeInv

\* A match is settled.
LEMMA SettleKeepsInv ==
    ASSUME ExchangeInv, SettleMatch
    PROVE  ExchangeInv'
<1> DEFINE m == Head(plan)
<1>1. /\ SoundRows(cash, stock, orders, ledger) /\ plan \in Seq(Match)
      /\ plan # <<>> /\ Ticking /\ PlanGoesThrough
      /\ SoundRows(saved.cash, saved.stock, saved.orders, saved.ledger)
      /\ plan' = Tail(plan) /\ saved' = saved
  BY DEF ExchangeInv, SettleMatch
<1>2. PICK L : /\ Schedule(orders, plan, L)
               /\ \A i \in Items : NothingCrosses(orders, i, LastOf(plan, L))
  BY <1>1 DEF PlanGoesThrough
<1>3. /\ m \in Match
      /\ m.buy \in DOMAIN orders /\ m.sell \in DOMAIN orders /\ m.buy # m.sell
      /\ Notional(m) \in Nat /\ Reduction(m) \in Nat
      /\ StillOpen(m) /\ MatchHolds(m)
      /\ DOMAIN L[1] = DOMAIN orders
      /\ \A o \in DOMAIN orders : L[1][o] = orders[o].remaining
  BY <1>1, <1>2, PlannedMatchHolds
<1>4. SettleRows(m)
  BY <1>3 DEF SettleMatch
<1> HIDE DEF m
<1>5. SoundRows(cash', stock', orders', ledger')
  BY <1>1, <1>3, <1>4, SettleRowsSound
<1>6. MatchSettled(orders', orders, m, L[1])
  BY <1>1, <1>3, <1>4, SettledAsPlanned
<1>7. orders \in Books
  BY <1>1 DEF SoundRows, TypedRows
<1>8. \E M : /\ Schedule(orders', Tail(plan), M)
             /\ \A i \in Items : NothingCrosses(orders', i, LastOf(Tail(plan), M))
  <2>1. MatchSettled(orders', orders, Head(plan), L[1])
    BY <1>6 DEF m
  <2> QED
    BY <1>1, <1>2, <1>7, <2>1, PlanAdvances
<1>9. PlanGoesThrough'
  BY <1>1, <1>8 DEF PlanGoesThrough
<1>10. plan' \in Seq(Match)
  BY <1>1, HeadTailProperties
<1>11. Ticking'
  BY <1>1 DEF Ticking, NoTick
<1> QED
  BY <1>1, <1>5, <1>9, <1>10, <1>11 DEF ExchangeInv

\* A settlement throws: the rows from before the tick come back.
LEMMA ThrowKeepsInv ==
    ASSUME ExchangeInv, SettlementThrows
    PROVE  ExchangeInv'
<1>1. SoundRows(saved.cash, saved.stock, saved.orders, saved.ledger)
  BY DEF ExchangeInv, SettlementThrows
<1>2. /\ cash' = saved.cash /\ stock' = saved.stock
      /\ orders' = saved.orders /\ ledger' = saved.ledger
      /\ plan' = <<>> /\ ~(Ticking')
  BY DEF SettlementThrows, Ticking, NoTick
<1>3. plan' \in Seq(Match)
  BY <1>2, EmptySeq
<1> QED
  BY <1>1, <1>2, <1>3 DEF ExchangeInv

\* The tick's transaction commits.
LEMMA FinishKeepsInv ==
    ASSUME ExchangeInv, FinishMatching
    PROVE  ExchangeInv'
<1>1. /\ SoundRows(cash, stock, orders, ledger) /\ plan \in Seq(Match) /\ plan = <<>>
      /\ cash' = cash /\ stock' = stock /\ orders' = orders /\ ledger' = ledger
      /\ plan' = plan /\ ~(Ticking')
  BY DEF ExchangeInv, FinishMatching, Ticking, NoTick
<1> QED
  BY <1>1 DEF ExchangeInv

\* The inductive invariant holds of every state of the exchange: the rows, and
\* those a rollback would restore, are sound, and a tick in progress can settle
\* the rest of its plan.
THEOREM ExchangeIsSound == Spec => []ExchangeInv
<1>1. ASSUME Init PROVE ExchangeInv
  <2>1. SoundRows(cash, stock, orders, ledger) /\ plan = <<>> /\ ~Ticking
    BY <1>1, StartingRowsSound DEF Init, Ticking
  <2>2. plan \in Seq(Match)
    BY <2>1, EmptySeq
  <2> QED
    BY <2>1, <2>2 DEF ExchangeInv
<1>2. ASSUME ExchangeInv, [Next]_vars PROVE ExchangeInv'
  <2>1. CASE Request
    BY <1>2, <2>1, RequestKeepsInv
  <2>2. CASE StartMatching
    BY <1>2, <2>2, StartKeepsInv
  <2>3. CASE SettleMatch
    BY <1>2, <2>3, SettleKeepsInv
  <2>4. CASE SettlementThrows
    BY <1>2, <2>4, ThrowKeepsInv
  <2>5. CASE FinishMatching
    BY <1>2, <2>5, FinishKeepsInv
  <2>6. CASE UNCHANGED vars
    BY <1>2, <2>6 DEF vars, ExchangeInv, PlanGoesThrough, Ticking, NoTick
  <2> QED
    BY <1>2, <2>1, <2>2, <2>3, <2>4, <2>5, <2>6 DEF Next, Tick
<1> QED
  BY <1>1, <1>2, PTL DEF Spec

-----------------------------------------------------------------------------
(* What follows from it.                                                   *)

\* Every row has its type, an order is filled when nothing remains of it.
THEOREM RowsAreTyped == Spec => []TypeOK
<1>1. ASSUME ExchangeInv PROVE TypeOK
  <2>1. TypedRows(cash, stock, orders, ledger) /\ HonestOrders(orders) /\ plan \in Seq(Match)
    BY <1>1 DEF ExchangeInv, SoundRows
  <2>2. \A o \in DOMAIN orders : orders[o].status = "FILLED" <=> orders[o].remaining = 0
    BY <2>1 DEF HonestOrders, HonestOrder
  <2> QED
    BY <2>1, <2>2 DEF TypedRows, Books, TypeOK
<1> QED
  BY <1>1, ExchangeIsSound, PTL

\* A company has reserved exactly what its open orders reserve, and has it
\* (reservations.ts, market-orders.ts, market-matching.ts).
THEOREM ReservesMatchOrders == Spec => []ReservesAreOpenOrders
<1>1. ASSUME ExchangeInv PROVE ReservesAreOpenOrders
  <2> DEFINE reservedCash == [o \in DOMAIN orders |-> orders[o].reservedCash]
             reservedQuantity == [o \in DOMAIN orders |-> orders[o].reservedQuantity]
             OpenFor(c, i) == {o \in OpenOrdersOf(c) : orders[o].item = i}
  <2>1. /\ TypedRows(cash, stock, orders, ledger) /\ HonestOrders(orders)
        /\ CashBacked(cash, orders) /\ StockBacked(stock, orders)
    BY <1>1 DEF ExchangeInv, SoundRows
  <2>2. IsFiniteSet(DOMAIN orders)
    BY <2>1, BookFinite DEF TypedRows
  <2>3. \A o \in DOMAIN orders : /\ orders[o].reservedCash \in Nat
                                 /\ orders[o].reservedQuantity \in Nat
                                 /\ orders[o].price \in Nat
    BY <2>1, RowsOf
  <2>4. ASSUME NEW o \in DOMAIN orders, orders[o].status # "OPEN"
        PROVE  orders[o].reservedCash = 0 /\ orders[o].reservedQuantity = 0
    <3>1. HonestOrder(orders[o])
      BY <2>1 DEF HonestOrders
    <3>2. 0 * orders[o].price = 0
      BY <2>3, Products
    <3> QED
      BY <2>4, <3>1, <3>2 DEF HonestOrder
  <2>5. ASSUME NEW c \in Companies
        PROVE  /\ cash[c].reserved = SumFunctionOnSet(reservedCash, OpenOrdersOf(c))
               /\ cash[c].reserved <= cash[c].cash
    <3>1. OpenOrdersOf(c) \subseteq DOMAIN orders
      BY DEF OpenOrdersOf
    <3>2. \A o \in OpenOrdersOf(c) : /\ reservedCash[o] \in Int
                                     /\ CashHeld(orders, c)[o] = reservedCash[o]
      BY <2>3 DEF OpenOrdersOf, CashHeld
    <3>3. \A o \in DOMAIN orders \ OpenOrdersOf(c) : CashHeld(orders, c)[o] = 0
      BY <2>4 DEF OpenOrdersOf, CashHeld
    <3> HIDE DEF reservedCash
    <3>4. SumFunctionOnSet(CashHeld(orders, c), DOMAIN orders)
             = SumFunctionOnSet(reservedCash, OpenOrdersOf(c))
      BY <2>2, <3>1, <3>2, <3>3, SumOverPart
    <3> QED
      BY <2>1, <3>4 DEF CashBacked
  <2>6. ASSUME NEW c \in Companies, NEW i \in Items
        PROVE  /\ stock[c][i].reserved <= stock[c][i].quantity
               /\ stock[c][i].reserved = SumFunctionOnSet(reservedQuantity, OpenFor(c, i))
    <3>1. OpenFor(c, i) \subseteq DOMAIN orders
      BY DEF OpenOrdersOf
    <3>2. \A o \in OpenFor(c, i) : /\ reservedQuantity[o] \in Int
                                   /\ StockHeld(orders, c, i)[o] = reservedQuantity[o]
      BY <2>3 DEF OpenOrdersOf, StockHeld
    <3>3. \A o \in DOMAIN orders \ OpenFor(c, i) : StockHeld(orders, c, i)[o] = 0
      BY <2>4 DEF OpenOrdersOf, StockHeld
    <3> HIDE DEF reservedQuantity, OpenFor
    <3>4. SumFunctionOnSet(StockHeld(orders, c, i), DOMAIN orders)
             = SumFunctionOnSet(reservedQuantity, OpenFor(c, i))
      BY <2>2, <3>1, <3>2, <3>3, SumOverPart
    <3> QED
      BY <2>1, <3>4 DEF StockBacked
  <2>7. ASSUME NEW o \in DOMAIN orders
        PROVE  LET order == orders[o]
                   held  == IF order.status = "OPEN" THEN order.remaining ELSE 0
               IN  /\ order.reservedCash = IF order.side = "BUY" THEN held * order.price ELSE 0
                   /\ order.reservedQuantity = IF order.side = "SELL" THEN held ELSE 0
    BY <2>1 DEF HonestOrders, HonestOrder
  <2> QED
    BY <2>5, <2>6, <2>7 DEF ReservesAreOpenOrders
<1> QED
  BY <1>1, ExchangeIsSound, PTL

\* Trading moves cash and goods, it makes and destroys none.
THEOREM TradingConserves == Spec => []CashAndGoodsConserved
<1>1. ASSUME ExchangeInv PROVE CashAndGoodsConserved
  <2>1. Conserved(cash, stock)
    BY <1>1 DEF ExchangeInv, SoundRows
  <2>2. SumFunction([c \in Companies |-> cash[c].cash])
           = SumFunctionOnSet([c \in Companies |-> cash[c].cash], Companies)
    BY DEF SumFunction
  <2>3. \A i \in Items : SumFunction([c \in Companies |-> stock[c][i].quantity])
           = SumFunctionOnSet([c \in Companies |-> stock[c][i].quantity], Companies)
    BY DEF SumFunction
  <2> QED
    BY <2>1, <2>2, <2>3 DEF Conserved, CashAndGoodsConserved
<1> QED
  BY <1>1, ExchangeIsSound, PTL

\* The ledger explains every balance and every reserve.
THEOREM LedgerExplains == Spec => []LedgerExplainsCash
<1>1. ASSUME ExchangeInv PROVE LedgerExplainsCash
  BY <1>1 DEF ExchangeInv, SoundRows, Explained, LedgerExplainsCash
<1> QED
  BY <1>1, ExchangeIsSound, PTL

\* What settleMatch checks of the orders and the parties holds for every planned
\* match when its turn comes.
THEOREM PlannedMatchesHold == Spec => []MatchesHold
<1>1. ASSUME ExchangeInv PROVE MatchesHold
  <2> SUFFICES ASSUME plan # <<>> PROVE StillOpen(Head(plan)) /\ MatchHolds(Head(plan))
    BY DEF MatchesHold
  <2>1. SoundRows(cash, stock, orders, ledger) /\ PlanGoesThrough
    BY <1>1 DEF ExchangeInv
  <2>2. PICK L : Schedule(orders, plan, L)
    BY <2>1 DEF PlanGoesThrough
  <2> QED
    BY <2>1, <2>2, PlannedMatchHolds
<1> QED
  BY <1>1, ExchangeIsSound, PTL

\* After the matches of a tick no open bid meets an open ask.
THEOREM BookIsUncrossed == Spec => []MatchedBookDoesNotCross
<1>1. ASSUME ExchangeInv PROVE MatchedBookDoesNotCross
  <2> SUFFICES ASSUME Ticking, plan = <<>>, NEW i \in Items,
                      NEW b \in OpenOrders(orders, i, "BUY"), NEW s \in OpenOrders(orders, i, "SELL")
               PROVE  orders[b].price < orders[s].price
    BY DEF MatchedBookDoesNotCross
  <2>1. PlanGoesThrough
    BY <1>1 DEF ExchangeInv
  <2>2. PICK L : Schedule(orders, plan, L) /\ NothingCrosses(orders, i, LastOf(plan, L))
    BY <2>1 DEF PlanGoesThrough
  <2>3. LastOf(plan, L) = L[1]
    BY EmptySeq DEF LastOf
  <2>4. \A o \in DOMAIN orders : L[1][o] = orders[o].remaining
    BY <2>2 DEF Schedule, Start
  <2>5. /\ b \in Bids(orders, i) /\ s \in Asks(orders, i)
        /\ b \in DOMAIN orders /\ s \in DOMAIN orders
        /\ orders[b].remaining > 0 /\ orders[s].remaining > 0
    BY DEF Bids, Asks, OpenOrders
  <2>6. L[1][b] > 0 /\ L[1][s] > 0
    BY <2>4, <2>5
  <2> QED
    BY <2>2, <2>3, <2>5, <2>6 DEF NothingCrosses
<1> QED
  BY <1>1, ExchangeIsSound, PTL
=============================================================================
