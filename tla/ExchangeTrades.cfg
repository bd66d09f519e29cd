\* Two companies trade one item with up to four orders.
SPECIFICATION Spec
CONSTANTS
    Companies = {c1, c2}
    Items = {i1}
    Prices = {1, 2}
    Quantities = {1, 2}
    StartCash = 4
    StartStock = 2
    Capacity = 3
    MaxOrders = 4
SYMMETRY Symmetry
INVARIANT TypeOK
INVARIANT ReservesAreOpenOrders
INVARIANT CashAndGoodsConserved
INVARIANT PlansAreFair
INVARIANT MatchedBookDoesNotCross
INVARIANT MatchesHold
