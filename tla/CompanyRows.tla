----------------------------- MODULE CompanyRows -----------------------------
(***************************************************************************)
(* The rows that every part of the economy reads and writes, next to those *)
(* of Exchange: the world clock, the stock a company keeps in the other    *)
(* region, and the staging of a tick.  All companies of the model have the *)
(* same home region, the one whose order book Exchange holds; `stock' is   *)
(* their stock there.  Production, trade and contracts use the home region *)
(* only, shipments lead out of it.                                         *)
(*                                                                         *)
(* A tick is one transaction, taken apart into one step per row of a loop; *)
(* `plan' is what the loop of its present stage has yet to work off.       *)
(* Requests run between ticks; what happens when they run beside them is   *)
(* the subject of ExchangeReadCommitted and OpenClose.                     *)
(***************************************************************************)
EXTENDS Exchange

CONSTANTS
    Npcs,        \* companies with isPlayer = FALSE and no owner
    StartDepot,  \* items of each kind a company has in the other region
    MaxTicks,    \* bounds on ticks and on player requests, for model
    MaxRequests  \* checking only

ASSUME NpcsAssumption ==
    /\ Npcs \subseteq Companies
    /\ StartDepot \in [Companies -> [Items -> Nat]]
    /\ MaxTicks \in Nat /\ MaxRequests \in Nat

VARIABLES
    clock,     \* WorldTickState.currentTick
    depot,     \* Inventory rows of the other region; nothing there is reserved
    consumed,  \* history: items of each kind that the demand sink has taken
    trades,    \* Trade rows, the newest last
    requests,  \* number of requests so far
    stage      \* the stage of the tick's pipeline, "idle" between ticks

Players == Companies \ Npcs
Tables == <<cash, stock, depot, ledger, consumed>>

\* The tick that is being made: the stages are called with nextTick.
ThisTick == clock + 1

\* assertCashInvariant, which availableCash applies to a row before it looks at
\* the amount: a row that reserves more than it has is an error.
Sound(c) == cash[c].reserved <= cash[c].cash

\* Mutant: money leaves the company and no entry is made.
PayOffTheBooks(c, n) == cash' = [cash EXCEPT ![c].cash = @ - n] /\ UNCHANGED ledger

\* An expense: cashCents is set to what was read less the amount, and a ledger
\* entry is made.
Pay(c, n) ==
    /\ cash' = [cash EXCEPT ![c].cash = @ - n]
    /\ ledger' = [ledger EXCEPT ![c].cash = @ - n]

\* issueRefund: a moderator pays money in.
IssueRefund(c, n) ==
    /\ cash' = [cash EXCEPT ![c].cash = @ + n]
    /\ ledger' = [ledger EXCEPT ![c].cash = @ + n]
    /\ UNCHANGED <<stock, depot, consumed>>

\* A set in an order: each element where the number of those before it puts it.
Ranked(S, Before(_, _)) ==
    [k \in 1 .. Cardinality(S) |->
        CHOOSE x \in S : Cardinality({y \in S : Before(y, x)}) = k - 1]

\* Ids of the rows of a table that satisfy a condition, the earlier first: by
\* the tick in question, then by age.
InOrderOf(rows, Wanted(_), TickOf(_)) ==
    Ranked({k \in DOMAIN rows : Wanted(rows[k])},
           LAMBDA a, b : \/ TickOf(rows[a]) < TickOf(rows[b])
                         \/ TickOf(rows[a]) = TickOf(rows[b]) /\ a < b)

\* The elements of a sequence that satisfy a condition, in their order.
Selected(s, Wanted(_)) ==
    LET places == Ranked({k \in DOMAIN s : Wanted(s[k])}, <)
    IN  [k \in DOMAIN places |-> s[places[k]]]

PricesOf(i) == LET his == Selected(trades, LAMBDA t : t.item = i)
               IN  [k \in DOMAIN his |-> his[k].price]

RowsInit ==
    /\ StartingRows /\ plan = <<>> /\ saved = NoTick
    /\ clock = 0
    /\ depot = StartDepot
    /\ consumed = [i \in Items |-> 0]
    /\ trades = <<>>
    /\ requests = 0
    /\ stage = "idle"
=============================================================================
