------------------------------ MODULE Economy ------------------------------
(***************************************************************************)
(* The whole economy: the requests of players, and ticks that run the      *)
(* stages of runTickPipeline (tick-engine.ts) in their order, each a loop  *)
(* over rows of which one is worked off by a step.  A stage that throws    *)
(* rolls the whole tick back, and the next tick meets the same rows again. *)
(***************************************************************************)
EXTENDS Bots, Shipments, Contracts, Candles

CONSTANTS
    DemandBase, DemandVariability,  \* DemandSinkConfig
    DemandItems,                    \* its itemCodes
    DemandSeed,                     \* stableHash of a company and an item
    Refunds,                        \* amounts moderators pay in
    Asked                           \* the kinds of requests players make in an instance

ASSUME EconomyAssumption ==
    /\ DemandBase \in Nat /\ DemandVariability \in Nat
    /\ DemandItems \subseteq Items
    /\ DemandSeed \in [Npcs -> [Items -> Nat]]
    /\ Refunds \subseteq Nat

people == <<staff, hires>>
science == <<research, labs, known>>
allRows == <<cash, stock, orders, ledger, depot, consumed, trades, buildings, people, science, jobs,
             shipments, contracts, candles>>
economyVars == <<allRows, clock, requests, stage, plan, saved>>

\* All rows, as a transaction leaves them or finds them again.
Rows == [cash |-> cash, stock |-> stock, orders |-> orders, ledger |-> ledger, depot |-> depot,
         consumed |-> consumed, trades |-> trades, buildings |-> buildings, staff |-> staff,
         hires |-> hires, research |-> research, labs |-> labs, known |-> known, jobs |-> jobs,
         shipments |-> shipments, contracts |-> contracts, candles |-> candles]

EconomyInit ==
    /\ RowsInit /\ BuildingsInit /\ WorkforceInit /\ ResearchInit
    /\ jobs = <<>> /\ shipments = <<>> /\ contracts = <<>> /\ candles = {}

\* What a step of one part leaves alone in the others.
OfOrders(A) == A /\ UNCHANGED <<depot, consumed, buildings, people, science, jobs, shipments, contracts,
                                 candles>>
OfBuildings(A) == A /\ UNCHANGED <<orders, trades, people, science, jobs, shipments, contracts, candles>>
OfPeople(A) == A /\ UNCHANGED <<orders, trades, buildings, science, jobs, shipments, contracts, candles>>
OfScience(A) == A /\ UNCHANGED <<orders, trades, buildings, people, jobs, shipments, contracts, candles>>
OfJobs(A) == A /\ UNCHANGED <<orders, trades, buildings, people, science, shipments, contracts, candles>>
OfShipments(A) == A /\ UNCHANGED <<orders, trades, buildings, people, science, jobs, contracts, candles>>
OfContracts(A) == A /\ UNCHANGED <<orders, trades, buildings, people, science, jobs, shipments, candles>>
OfCandles(A) == A /\ UNCHANGED <<orders, trades, buildings, people, science, jobs, shipments, contracts>>

-----------------------------------------------------------------------------
(* Requests: between ticks, by players.                                    *)

Requesting(kind) ==
    /\ kind \in Asked
    /\ ~Ticking
    /\ requests < MaxRequests
    /\ requests' = requests + 1
    /\ UNCHANGED <<clock, stage, plan, saved>>

TradeRequest ==
    \/ /\ Requesting("order")
       /\ \E c \in Players, i \in Items, n \in Quantities, price \in Prices :
             OfOrders((AddBuyOrder(c, i, n, price) \/ AddSellOrder(c, i, n, price)) /\ UNCHANGED trades)
    \/ /\ Requesting("cancel")
       /\ \E o \in DOMAIN orders :
             orders[o].company \in Players /\ OfOrders(WithdrawOrder(o) /\ UNCHANGED trades)

BuildingRequest ==
    \/ /\ Requesting("building")
       /\ \E c \in Players, type \in BuildingTypes, region \in {"home", "away"} :
             OfBuildings(AcquireBuilding(c, type, region))
    \/ /\ Requesting("reactivate")
       /\ \E b \in DOMAIN buildings : OfBuildings(ReactivateBuilding(b))

WorkforceRequest ==
    \/ /\ Requesting("allocation")
       /\ \E c \in Players, a \in Allocations : OfPeople(SetAllocation(c, a))
    \/ /\ Requesting("capacity")
       /\ \E c \in Players, n \in Deltas : OfPeople(Hire(c, n) \/ LayOff(c, n))

ResearchRequest ==
    /\ Requesting("research")
    /\ \E c \in Players, n \in Nodes : OfScience(StartResearch(c, n) \/ CancelResearch(c, n))

ProductionRequest ==
    /\ Requesting("production")
    /\ \/ \E c \in Players, r \in Recipes, runs \in Runs : OfJobs(StartJob(c, r, runs, clock))
       \/ \E j \in DOMAIN jobs : jobs[j].company \in Players /\ OfJobs(CancelJob(j))

ShipmentRequest ==
    /\ Requesting("shipment")
    /\ \/ \E c \in Players, i \in Items, n \in Quantities : OfShipments(CreateShipment(c, i, n))
       \/ \E s \in DOMAIN shipments : OfShipments(CancelShipment(s))

ContractRequest ==
    /\ Requesting("contract")
    /\ \E k \in DOMAIN contracts :
          \/ \E c \in Players : OfContracts(AcceptContract(c, k))
          \/ \E n \in Quantities : OfContracts(FulfillContract(k, n))

RefundRequest ==
    /\ Requesting("refund")
    /\ \E c \in Players, n \in Refunds : OfBuildings(IssueRefund(c, n) /\ UNCHANGED buildings)

Requests == \/ TradeRequest \/ BuildingRequest \/ WorkforceRequest \/ ResearchRequest
            \/ ProductionRequest \/ ShipmentRequest \/ ContractRequest \/ RefundRequest

-----------------------------------------------------------------------------
(* The stages of a tick.                                                   *)

\* resolveDemandQuantityForCompanyItem
Demand(c, i) == DemandBase + ((ThisTick + DemandSeed[c][i]) % (DemandVariability + 1))

\* Only what is not reserved is taken.  Bots ship nothing, so they have no
\* stock elsewhere.
Free(c, i) == Clamp(AvailableStock(c, i), 0, stock[c][i].quantity)

\* One round of runDemandSinkForTick.
Consume(c, i) ==
    LET n == Smaller(Free(c, i), Demand(c, i)) IN
    /\ stock' = [stock EXCEPT ![c][i].quantity = @ - n]
    /\ consumed' = [consumed EXCEPT ![i] = @ + n]
    /\ UNCHANGED <<cash, depot, ledger>>

\* What settleMatch demands, with the room that warehouses give.
CanSettle(m) ==
    /\ MatchHolds(m)
    /\ \/ orders[m.buy].company = orders[m.sell].company
       \/ HasRoom(orders[m.buy].company, "home", m.quantity)

\* settleMatch: the trade is entered as well.
Settle(m) ==
    IF StillOpen(m)
    THEN /\ CanSettle(m)
         /\ SettleRows(m)
         /\ trades' = Append(trades, [item |-> orders[m.buy].item, price |-> m.price,
                                        quantity |-> m.quantity, tick |-> ThisTick])
    ELSE UNCHANGED <<cash, stock, orders, ledger, trades>>

\* Mutant: candles are drawn before the market has been matched.
CandlesFirst == <<"withdraw", "bots", "costs", "production", "research", "candles", "market",
                  "shipments", "arrivals", "salaries", "demand", "expire", "offers">>

\* Each stage and what its loop works off; the last one is followed by the
\* commit.
Pipeline == <<"withdraw", "bots", "costs", "production", "research", "market", "shipments",
              "arrivals", "salaries", "demand", "expire", "offers", "candles">>

Loop(s) ==
    CASE s = "withdraw"   -> TraderOrders
      [] s = "bots"       -> PlanBotActions
      [] s = "costs"      -> CostsDue
      [] s = "production" -> JobsDue
      [] s = "research"   -> LabsDue
      [] s = "market"     -> PlanMatches
      [] s = "shipments"  -> ShipmentsDue
      [] s = "arrivals"   -> ArrivalsDue
      [] s = "salaries"   -> SetToSeq(Companies)
      [] s = "demand"     -> SetToSeq(Npcs \X DemandItems)
      [] s = "expire"     -> <<1>>
      [] s = "offers"     -> [k \in 1 .. OffersPerTick |-> k - 1]
      [] s = "candles"    -> <<1>>

\* The step of the stage for one entry of its loop; it is disabled when the
\* code throws.
Round(x) ==
    \/ stage = "withdraw"   /\ OfOrders(WithdrawOrder(x) /\ UNCHANGED trades)
    \/ stage = "bots"       /\ IF IsOrder(x) THEN OfOrders(PlaceBotOrder(x) /\ UNCHANGED trades)
                               ELSE OfJobs(Produce(x))
    \/ stage = "costs"      /\ OfBuildings(ChargeBuilding(x))
    \/ stage = "production" /\ OfJobs(CompleteJob(x))
    \/ stage = "research"   /\ OfScience(CompleteResearch(x))
    \/ stage = "market"     /\ OfOrders(Settle(x))
    \/ stage = "shipments"  /\ OfShipments(Deliver(x))
    \/ stage = "arrivals"   /\ OfPeople(Arrive(x))
    \/ stage = "salaries"   /\ OfPeople(PaySalary(x))
    \/ stage = "demand"     /\ OfContracts(Consume(x[1], x[2]) /\ UNCHANGED contracts)
    \/ stage = "expire"     /\ OfContracts(ExpireContracts)
    \/ stage = "offers"     /\ OfContracts(OfferContract(x))
    \/ stage = "candles"    /\ OfCandles(UpsertCandles)

BeginTick ==
    /\ ~Ticking /\ clock < MaxTicks
    /\ saved' = Rows
    /\ stage' = Pipeline[1] /\ plan' = Loop(Pipeline[1])
    /\ UNCHANGED <<allRows, clock, requests>>

TickRound ==
    /\ plan # <<>>
    /\ Round(Head(plan))
    /\ plan' = Tail(plan)
    /\ UNCHANGED <<clock, requests, stage, saved>>

Place == CHOOSE k \in DOMAIN Pipeline : Pipeline[k] = stage

NextStage ==
    /\ Ticking /\ plan = <<>> /\ Place < Len(Pipeline)
    /\ stage = "withdraw" => BotsSound
    /\ stage' = Pipeline[Place + 1] /\ plan' = Loop(Pipeline[Place + 1])
    /\ UNCHANGED <<allRows, clock, requests, saved>>

CommitTick ==
    /\ Ticking /\ plan = <<>> /\ Place = Len(Pipeline)
    /\ clock' = ThisTick
    /\ stage' = "idle" /\ saved' = NoTick
    /\ UNCHANGED <<allRows, requests, plan>>

\* The conditions under which a stage throws.
Throws ==
    \/ stage = "withdraw" /\ plan = <<>> /\ ~BotsSound
    \/ /\ plan # <<>>
       /\ LET x == Head(plan) IN
          \/ stage = "bots" /\ IsOrder(x) /\ ~Coverable(x)
          \/ stage = "costs" /\ ~Sound(buildings[x].company)
          \/ stage = "production" /\ ~(InputsHeld(jobs[x]) /\ OutputFits(jobs[x]))
          \/ stage = "market" /\ StillOpen(x) /\ ~CanSettle(x)

TickThrows ==
    /\ Ticking /\ Throws
    /\ cash' = saved.cash /\ stock' = saved.stock /\ orders' = saved.orders
    /\ ledger' = saved.ledger /\ depot' = saved.depot /\ consumed' = saved.consumed
    /\ trades' = saved.trades /\ buildings' = saved.buildings /\ staff' = saved.staff
    /\ hires' = saved.hires /\ research' = saved.research /\ labs' = saved.labs
    /\ known' = saved.known /\ jobs' = saved.jobs /\ shipments' = saved.shipments
    /\ contracts' = saved.contracts /\ candles' = saved.candles
    /\ stage' = "idle" /\ plan' = <<>> /\ saved' = NoTick
    /\ UNCHANGED <<clock, requests>>

\* The end of an instance: the bounds leave nothing to do.
BoundsReached == ~Ticking /\ clock = MaxTicks /\ UNCHANGED economyVars

Advance == BeginTick \/ TickRound \/ NextStage \/ CommitTick \/ TickThrows

EconomyNext == Requests \/ Advance \/ BoundsReached

EconomySpec == EconomyInit /\ [][EconomyNext]_economyVars

-----------------------------------------------------------------------------
(* Properties.                                                             *)

\* Every variable has its type: no balance, no reserve and no stock is ever
\* negative, and efficiency stays within its bounds, whatever is charged.
EconomyTypeOK ==
    /\ cash \in [Companies -> [cash : Nat, reserved : Nat]]
    /\ stock \in [Companies -> [Items -> [quantity : Nat, reserved : Nat]]]
    /\ depot \in [Companies -> [Items -> Nat]]
    /\ \A c \in Companies : staff[c].capacity \in Nat /\ staff[c].efficiency \in 0 .. MaxBps
    /\ \A k \in DOMAIN contracts : contracts[k].remaining \in Nat /\ contracts[k].price > 0
    /\ \A o \in DOMAIN orders : orders[o].remaining \in 0 .. orders[o].quantity
    /\ research \in [Companies -> [Nodes -> {"NONE", "AVAILABLE", "LOCKED", "RESEARCHING",
                                             "COMPLETED"}]]
    /\ \A j \in DOMAIN jobs : jobs[j].status \in {"IN_PROGRESS", "CANCELLED", "COMPLETED"}
    /\ stage \in {Pipeline[k] : k \in DOMAIN Pipeline} \cup {"idle"}

\* What a job adds to the stock of an item, and what it takes from it.
MadeBy(job, i) ==
    (IF Output[job.recipe].item = i THEN Output[job.recipe].quantity * job.runs ELSE 0)
        - Required(job.recipe, job.runs, i)

\* Every item there is can be explained: what companies started with, what the
\* completed jobs made and used up and what the demand sink took is what lies in
\* the stores of both regions and is on its way.  No cancelled, returned,
\* delivered or completed row moves goods twice or loses them, inside a tick and
\* after a rollback as well.
GoodsAccounted ==
    \A i \in Items :
        LET here == SumFunction([c \in Companies |-> stock[c][i].quantity + depot[c][i]])
            away == SumFunctionOnSet([s \in DOMAIN shipments |-> shipments[s].quantity],
                        {s \in DOMAIN shipments : shipments[s].item = i
                                               /\ shipments[s].status = "IN_TRANSIT"})
            made == SumFunctionOnSet([j \in DOMAIN jobs |-> MadeBy(jobs[j], i)],
                        {j \in DOMAIN jobs : jobs[j].status = "COMPLETED"})
            atStart == SumFunction([c \in Companies |-> StartStock + StartDepot[c][i]])
        IN  here + away = atStart - consumed[i] + made

\* The stock a company has reserved is what its open sell orders and its running
\* jobs hold, and it is there: nobody can sell, ship, hand over or consume what
\* a job or an order counts on.
StockIsReservedFor ==
    \A c \in Companies, i \in Items :
        LET sells == SumFunctionOnSet([o \in DOMAIN orders |-> orders[o].reservedQuantity],
                                      {o \in OpenOrdersOf(c) : orders[o].item = i})
            inputs == SumFunctionOnSet(
                        [j \in DOMAIN jobs |-> Required(jobs[j].recipe, jobs[j].runs, i)],
                        {j \in DOMAIN jobs : jobs[j].company = c /\ jobs[j].status = "IN_PROGRESS"})
        IN  /\ stock[c][i].reserved = sells + inputs
            /\ stock[c][i].reserved <= stock[c][i].quantity

\* The cash a company has reserved is what its open buy orders hold.
CashIsReservedFor ==
    \A c \in Companies :
        cash[c].reserved =
            SumFunctionOnSet([o \in DOMAIN orders |-> orders[o].reservedCash], OpenOrdersOf(c))

\* When a tick has been committed, nothing that was due by it is left over: no
\* job, research, arrival of people, contract or payment for a building.
NothingOverdue ==
    ~Ticking =>
        /\ \A j \in DOMAIN jobs : jobs[j].status = "IN_PROGRESS" => jobs[j].due > clock
        /\ \A j \in DOMAIN labs : labs[j].status = "RUNNING" => labs[j].completes > clock
        /\ \A h \in DOMAIN hires : hires[h].applied = 0 => hires[h].arrives > clock
        /\ \A k \in DOMAIN contracts : contracts[k].status \in Live => ~Expired(k)
        /\ \A b \in DOMAIN buildings :
              buildings[b].status = "ACTIVE" => buildings[b].paid > clock - CostInterval

\* The research rows agree with the jobs and with what is unlocked: a node is
\* being researched exactly when one job runs for it, and when it is completed
\* so are its prerequisites, and its recipes can be used.
ResearchTellsTheTruth ==
    \A c \in Companies, n \in Nodes :
        /\ Cardinality(Running(c, n)) = IF research[c][n] = "RESEARCHING" THEN 1 ELSE 0
        /\ research[c][n] \in {"RESEARCHING", "COMPLETED"} => PrerequisitesMet(c, n)
        /\ research[c][n] = "COMPLETED" => \A r \in Unlocks[n] : known[c][r] = "unlocked"

\* The orders planned for all traders at once can still be placed one after the
\* other: together they never need more cash or stock than the bot has, so
\* that trading bots do not make ticks fail.
BotOrdersAreCovered ==
    stage = "bots" /\ plan # <<>> /\ IsOrder(Head(plan)) => Coverable(Head(plan))

\* A contract is fulfilled exactly when nothing remains of it, and it has a
\* seller from the time it was accepted, also after it has expired in part.
ContractsAreKept ==
    \A k \in DOMAIN contracts :
        LET it == contracts[k] IN
        /\ it.status = "FULFILLED" <=> it.remaining = 0
        /\ it.status \in {"ACCEPTED", "PARTIALLY_FULFILLED", "FULFILLED"} => it.seller \in Players
        /\ it.status = "OPEN" => it.seller = NoCompany

\* No step of a tick makes a company reserve more than it has: salaries,
\* operating costs and settlements only take what is free or was reserved for
\* them, in whatever order the stages find the company.
TicksKeepSolvency ==
    [][Ticking => \A c \in Companies : Sound(c) => Sound(c)' \/ TickThrows]_economyVars

\* A tick never fills a store beyond its capacity, neither by production nor by
\* a delivery, a return or a purchase; only requests do.
StorageRespected ==
    [][Ticking /\ ~TickThrows =>
          \A c \in Companies, region \in {"home", "away"} :
              StoredIn(c, region)' > StoredIn(c, region)
                  => StoredIn(c, region)' <= CapacityIn(c, region)']_economyVars

\* The rows others see: those of the last commit while a tick runs.
Committed == IF Ticking THEN saved ELSE Rows

Kept(was, now, closed) == \A k \in DOMAIN was : was[k].status \in closed => now[k] = was[k]

\* What has been closed stays as it is: no later tick, cancellation or failure
\* reopens or changes an order, a job, research, a shipment or a contract that
\* was over.
ClosedStaysClosed ==
    [][/\ Kept(Committed.orders, Committed'.orders, {"FILLED", "CANCELLED"})
       /\ Kept(Committed.jobs, Committed'.jobs, {"CANCELLED", "COMPLETED"})
       /\ Kept(Committed.labs, Committed'.labs, {"CANCELLED", "COMPLETED"})
       /\ Kept(Committed.shipments, Committed'.shipments, {"CANCELLED", "DELIVERED"})
       /\ Kept(Committed.contracts, Committed'.contracts, {"FULFILLED", "EXPIRED"})]_economyVars

\* Candles show what orders were filled: after every committed tick the volume
\* of an item is what its buy orders have received, however often a tick was
\* rolled back and made again, and the average lies between low and high.
CandlesShowFills ==
    ~Ticking =>
        /\ \A i \in Items :
              SumFunction([row \in {r \in candles : r.item = i} |-> row.volume])
                  = SumFunctionOnSet([o \in DOMAIN orders |-> orders[o].quantity - orders[o].remaining],
                        {o \in DOMAIN orders : orders[o].side = "BUY" /\ orders[o].item = i})
        /\ \A row \in candles : {row.open, row.close, row.vwap} \subseteq row.low .. row.high

-----------------------------------------------------------------------------
(* The scan for violated invariants (invariants.ts), which a worker runs    *)
(* after a batch of ticks.                                                  *)

CompanyIssues(c) ==
    LET shares == <<staff[c].allocation.operations, staff[c].allocation.research,
                    staff[c].allocation.logistics, staff[c].allocation.corporate>>
        found(code, wrong) == IF wrong THEN {code} ELSE {}
    IN  found("CASH_NEGATIVE", cash[c].cash < 0)
        \cup found("RESERVED_CASH_NEGATIVE", cash[c].reserved < 0)
        \cup found("RESERVED_EXCEEDS_CASH", cash[c].reserved > cash[c].cash)
        \cup found("CAPACITY_NEGATIVE", staff[c].capacity < 0)
        \cup found("ALLOCATION_INVALID", \/ \E k \in DOMAIN shares : shares[k] \notin 0 .. MaxPercent
                                         \/ FoldSeq(+, 0, shares) # MaxPercent)
        \cup found("EFFICIENCY_INVALID", staff[c].efficiency \notin 0 .. MaxBps)

InventoryIssues(row) ==
    LET found(code, wrong) == IF wrong THEN {code} ELSE {} IN
    found("QUANTITY_NEGATIVE", row.quantity < 0)
        \cup found("RESERVED_NEGATIVE", row.reserved < 0)
        \cup found("RESERVED_EXCEEDS_QUANTITY", row.reserved > row.quantity)

Issues == UNION {CompanyIssues(c) : c \in Companies}
          \cup UNION {InventoryIssues(stock[c][i]) : c \in Companies, i \in Items}

\* The invariants of ECONOMIC_INVARIANTS.md hold whenever a worker scans.
ScanFindsNothing == ~Ticking => Issues = {}
=============================================================================
