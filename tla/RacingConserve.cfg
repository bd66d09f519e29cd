\* Four concurrent requests and a tick.
SPECIFICATION Spec
CONSTANTS
    Companies = {c1, c2}
    Items = {i1}
    Prices = {1, 2}
    Quantities = {1, 2}
    StartCash = 3
    StartStock = 1
    Capacity = 2
    MaxOrders = 3
    Requests = {r1, r2, r3, r4}
SYMMETRY Symmetry
INVARIANT TypeOK
INVARIANT CashAndGoodsConserved
INVARIANT NoDeadlock
CHECK_DEADLOCK FALSE
