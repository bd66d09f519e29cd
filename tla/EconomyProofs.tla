------------------------------ MODULE EconomyProofs ------------------------------
(***************************************************************************)
(* Theorems of the whole economy, for any companies, items, recipes,       *)
(* research and bounds.                                                    *)
(*                                                                         *)
(* Every step does one of three things to the rows: it leaves them as they *)
(* are, it makes one of the moves below, or it puts back the rows that     *)
(* were saved when the tick began.  What holds of the rows at the start    *)
(* and survives every move therefore holds of the rows and of the saved    *)
(* ones.                                                                   *)
(***************************************************************************)
EXTENDS EconomyRowsProofs

-----------------------------------------------------------------------------
(* The moves.                                                              *)

OrderMove ==
    \E c \in Companies, i \in Items, n \in Positive, p \in Positive :
        OfOrders((AddBuyOrder(c, i, n, p) \/ AddSellOrder(c, i, n, p)) /\ UNCHANGED trades)

WithdrawMove ==
    \E o \in DOMAIN orders : OfOrders(WithdrawOrder(o) /\ UNCHANGED trades)

SettleMove ==
    \E m \in PlacedMatches : StillOpen(m) /\ OfOrders(Settle(m))

BuildingMove ==
    \/ \E c \in Companies, type \in BuildingTypes, region \in {"home", "away"} :
          OfBuildings(AcquireBuilding(c, type, region))
    \/ \E b \in DOMAIN buildings : OfBuildings(ReactivateBuilding(b))
    \/ \E b \in DOMAIN buildings : OfBuildings(ChargeBuilding(b))
    \/ \E c \in Companies, n \in Nat : OfBuildings(IssueRefund(c, n) /\ UNCHANGED buildings)

PeopleMove ==
    \/ \E c \in Companies, a \in Allocations : OfPeople(SetAllocation(c, a))
    \/ \E c \in Companies, n \in Positive : OfPeople(Hire(c, n))
    \/ \E c \in Companies, n \in Positive : OfPeople(LayOff(c, n))
    \/ \E h \in DOMAIN hires : OfPeople(Arrive(h))
    \/ \E c \in Companies : OfPeople(PaySalary(c))

ScienceMove ==
    \/ \E c \in Companies, n \in Nodes : OfScience(StartResearch(c, n))
    \/ \E c \in Companies, n \in Nodes : OfScience(CancelResearch(c, n))
    \/ \E j \in DOMAIN labs : labs[j].status = "RUNNING" /\ OfScience(CompleteResearch(j))

JobMove ==
    \/ \E c \in Companies, r \in Recipes, runs \in Positive, tick \in {clock, ThisTick} :
          OfJobs(StartJob(c, r, runs, tick))
    \/ \E j \in DOMAIN jobs : OfJobs(CancelJob(j))
    \/ \E j \in DOMAIN jobs : jobs[j].status = "IN_PROGRESS" /\ OfJobs(CompleteJob(j))

ShipmentMove ==
    \/ \E c \in Companies, i \in Items, n \in Positive : OfShipments(CreateShipment(c, i, n))
    \/ \E s \in DOMAIN shipments : OfShipments(CancelShipment(s))
    \/ \E s \in DOMAIN shipments : shipments[s].status = "IN_TRANSIT" /\ OfShipments(Deliver(s))

ContractMove ==
    \/ \E k \in DOMAIN contracts, c \in Players : OfContracts(AcceptContract(c, k))
    \/ \E k \in DOMAIN contracts, n \in Positive : OfContracts(FulfillContract(k, n))
    \/ OfContracts(ExpireContracts)
    \/ \E k \in Nat : Items # {} /\ Npcs # {} /\ OfContracts(OfferContract(k))

ConsumeMove ==
    \E c \in Npcs, i \in DemandItems : OfContracts(Consume(c, i) /\ UNCHANGED contracts)

CandleMove == OfCandles(UpsertCandles)

Move == \/ OrderMove \/ WithdrawMove \/ SettleMove \/ BuildingMove \/ PeopleMove \/ ScienceMove
        \/ JobMove \/ ShipmentMove \/ ContractMove \/ ConsumeMove \/ CandleMove

-----------------------------------------------------------------------------
(* What holds of the rows.                                                 *)

ContractSound(it) ==
    /\ it.status = "FULFILLED" <=> it.remaining = 0
    /\ it.status \in {"ACCEPTED", "PARTIALLY_FULFILLED", "FULFILLED"} => it.seller \in Players
    /\ it.status = "OPEN" => it.seller = NoCompany

ContractsSound == \A k \in DOMAIN contracts : ContractSound(contracts[k])

\* Contracts stay sound.
LEMMA ContractMoveKeepsSound ==
    ASSUME Typed, clock \in Nat, ContractsSound, ContractMove
    PROVE  contracts' \in Seq(ContractRow) /\ ContractsSound'
<1>1. \A k \in DOMAIN contracts : contracts[k] \in ContractRow
  BY RowsOfTable DEF Typed
<1>2. ASSUME NEW k \in DOMAIN contracts, NEW row \in ContractRow,
             contracts' = [contracts EXCEPT ![k] = row], ContractSound(row)
      PROVE  contracts' \in Seq(ContractRow) /\ ContractsSound'
  <2>1. /\ contracts' \in Seq(ContractRow) /\ DOMAIN contracts' = DOMAIN contracts
        /\ \A j \in DOMAIN contracts : contracts'[j] = IF j = k THEN row ELSE contracts[j]
    BY <1>2, ContractWritten
  <2> QED
    BY <1>2, <2>1 DEF ContractsSound
<1>3. ASSUME NEW k \in DOMAIN contracts, NEW c \in Players, AcceptContract(c, k)
      PROVE  contracts' \in Seq(ContractRow) /\ ContractsSound'
  <2>1. /\ contracts[k].status = "OPEN"
        /\ \E row \in ContractRow :
              /\ row.status = "ACCEPTED" /\ row.seller = c
              /\ row.remaining = contracts[k].remaining
              /\ contracts' = [contracts EXCEPT ![k] = row]
    BY <1>3, AcceptContractDoes
  <2>2. PICK row \in ContractRow :
              /\ row.status = "ACCEPTED" /\ row.seller = c
              /\ row.remaining = contracts[k].remaining
              /\ contracts' = [contracts EXCEPT ![k] = row]
    BY <2>1
  <2>3. contracts[k].remaining # 0
    BY <2>1 DEF ContractsSound, ContractSound
  <2>4. ContractSound(row)
    BY <2>2, <2>3 DEF ContractSound
  <2> QED
    BY <1>2, <2>2, <2>4
<1>4. ASSUME NEW k \in DOMAIN contracts, NEW n \in Positive, FulfillContract(k, n)
      PROVE  contracts' \in Seq(ContractRow) /\ ContractsSound'
  <2> DEFINE it == contracts[k]
             row == [it EXCEPT !.remaining = it.remaining - n, !.status = StatusAfter(it, n)]
  <2>1. it.status \in {"ACCEPTED", "PARTIALLY_FULFILLED"}
    BY <1>4 DEF FulfillContract
  <2>2. it.seller \in Players
    BY <2>1 DEF ContractsSound, ContractSound
  <2>3. /\ n <= it.remaining /\ row \in ContractRow /\ row.remaining = it.remaining - n
        /\ row.status = StatusAfter(it, n) /\ row.seller = it.seller
        /\ contracts' = [contracts EXCEPT ![k] = row]
    BY <1>4, <2>2, FulfillContractDoes
  <2>4. it.remaining \in Nat /\ n \in Nat
    BY <1>1, ContractFields DEF Positive
  <2> HIDE DEF row, it
  <2>5. ContractSound(row)
    BY <2>2, <2>3, <2>4 DEF ContractSound, StatusAfter
  <2> QED
    BY <1>2, <2>3, <2>5
<1>5. ASSUME ExpireContracts
      PROVE  contracts' \in Seq(ContractRow) /\ ContractsSound'
  <2>1. /\ contracts' \in Seq(ContractRow) /\ DOMAIN contracts' = DOMAIN contracts
        /\ \A k \in DOMAIN contracts :
              LET it == contracts[k]
                  row == [it EXCEPT !.status = "EXPIRED"]
              IN
              /\ contracts'[k] = IF it.status \in Live /\ it.expires <= ThisTick THEN row ELSE it
              /\ row.status = "EXPIRED" /\ row.seller = it.seller
              /\ row.remaining = it.remaining
    BY <1>5, ExpireContractsDoes
  <2>2. ASSUME NEW k \in DOMAIN contracts PROVE ContractSound(contracts'[k])
    <3> DEFINE it == contracts[k]
               row == [it EXCEPT !.status = "EXPIRED"]
    <3>1. contracts'[k] = IF it.status \in Live /\ it.expires <= ThisTick THEN row ELSE it
      BY <2>1
    <3>2. row.status = "EXPIRED" /\ row.seller = it.seller /\ row.remaining = it.remaining
      BY <2>1
    <3>3. ContractSound(it)
      BY DEF ContractsSound
    <3> HIDE DEF it, row
    <3>4. it.status \in Live => ContractSound(row)
      BY <3>2, <3>3 DEF ContractSound, Live
    <3> QED
      BY <3>1, <3>3, <3>4
  <2> QED
    BY <2>1, <2>2 DEF ContractsSound
<1>6. ASSUME NEW k \in Nat, Items # {}, Npcs # {}, OfferContract(k)
      PROVE  contracts' \in Seq(ContractRow) /\ ContractsSound'
  <2>1. CASE contracts' = contracts
    BY <2>1 DEF Typed, ContractsSound
  <2>2. CASE \E row \in ContractRow :
                /\ row.status = "OPEN" /\ row.seller = NoCompany /\ row.remaining > 0
                /\ row.expires > ThisTick
                /\ contracts' = Append(contracts, row) /\ contracts' \in Seq(ContractRow)
    <3>1. PICK row \in ContractRow :
                /\ row.status = "OPEN" /\ row.seller = NoCompany /\ row.remaining > 0
                /\ row.expires > ThisTick
                /\ contracts' = Append(contracts, row) /\ contracts' \in Seq(ContractRow)
      BY <2>2
    <3>2. ContractSound(row)
      BY <3>1 DEF ContractSound
    <3>3. contracts \in Seq(ContractRow)
      BY DEF Typed
    <3>4. /\ DOMAIN contracts' = (DOMAIN contracts) \cup {Len(contracts) + 1}
          /\ \A j \in DOMAIN contracts : contracts'[j] = contracts[j]
          /\ contracts'[Len(contracts) + 1] = row
      BY <3>1, <3>3, RowAdded
    <3> QED
      BY <3>1, <3>2, <3>4 DEF ContractsSound
  <2> QED
    BY <1>6, <2>1, <2>2, OfferContractDoes
<1> QED
  BY <1>3, <1>4, <1>5, <1>6 DEF ContractMove, OfContracts


-----------------------------------------------------------------------------
(* The pipeline.                                                           *)

Stages == {"withdraw", "bots", "costs", "production", "research", "market", "shipments",
           "arrivals", "salaries", "demand", "expire", "offers", "candles"}

\* The pipeline is these thirteen stages.
LEMMA PipelineIs ==
    /\ DOMAIN Pipeline = 1 .. 13 /\ Len(Pipeline) = 13
    /\ Pipeline[1] = "withdraw" /\ Pipeline[2] = "bots" /\ Pipeline[3] = "costs"
    /\ Pipeline[4] = "production" /\ Pipeline[5] = "research" /\ Pipeline[6] = "market"
    /\ Pipeline[7] = "shipments" /\ Pipeline[8] = "arrivals" /\ Pipeline[9] = "salaries"
    /\ Pipeline[10] = "demand" /\ Pipeline[11] = "expire" /\ Pipeline[12] = "offers"
    /\ Pipeline[13] = "candles"
BY DEF Pipeline

\* No stage is made twice.
LEMMA StagesDiffer ==
    \A j, k \in 1 .. 13 : Pipeline[j] = Pipeline[k] => j = k
<1> SUFFICES ASSUME NEW j \in 1 .. 13, NEW k \in 1 .. 13, Pipeline[j] = Pipeline[k], j # k
             PROVE  FALSE
  OBVIOUS
<1>1. \/ j = 1 \/ j = 2 \/ j = 3 \/ j = 4 \/ j = 5 \/ j = 6 \/ j = 7 \/ j = 8 \/ j = 9 \/ j = 10
      \/ j = 11 \/ j = 12 \/ j = 13
  OBVIOUS
<1>2. \/ k = 1 \/ k = 2 \/ k = 3 \/ k = 4 \/ k = 5 \/ k = 6 \/ k = 7 \/ k = 8 \/ k = 9 \/ k = 10
      \/ k = 11 \/ k = 12 \/ k = 13
  OBVIOUS
<1> QED
  BY <1>1, <1>2, PipelineIs

\* Where the tick is in the pipeline.
LEMMA PlaceOf ==
    ASSUME NEW k \in 1 .. 13, stage = Pipeline[k]
    PROVE  Place = k
<1>1. \E j \in DOMAIN Pipeline : Pipeline[j] = stage
  BY PipelineIs
<1>2. Place \in DOMAIN Pipeline /\ Pipeline[Place] = stage
  BY <1>1 DEF Place
<1> QED
  BY <1>2, PipelineIs, StagesDiffer


\* What each stage finds to do, as entries of a loop.
LEMMA Loops ==
    /\ Loop("withdraw") = TraderOrders /\ Loop("bots") = PlanBotActions
    /\ Loop("costs") = CostsDue /\ Loop("production") = JobsDue /\ Loop("research") = LabsDue
    /\ Loop("market") = PlanMatches /\ Loop("shipments") = ShipmentsDue
    /\ Loop("arrivals") = ArrivalsDue /\ Loop("salaries") = SetToSeq(Companies)
    /\ Loop("demand") = SetToSeq(Npcs \X DemandItems) /\ Loop("expire") = <<1>>
    /\ Loop("offers") = [k \in 1 .. OffersPerTick |-> k - 1] /\ Loop("candles") = <<1>>
BY DEF Loop

\* A stage is followed by the next one.
LEMMA Succession ==
    ASSUME stage \in Stages, NextStage
    PROVE  \/ stage = "withdraw" /\ stage' = "bots" /\ plan' = PlanBotActions
           \/ stage = "bots" /\ stage' = "costs" /\ plan' = CostsDue
           \/ stage = "costs" /\ stage' = "production" /\ plan' = JobsDue
           \/ stage = "production" /\ stage' = "research" /\ plan' = LabsDue
           \/ stage = "research" /\ stage' = "market" /\ plan' = PlanMatches
           \/ stage = "market" /\ stage' = "shipments" /\ plan' = ShipmentsDue
           \/ stage = "shipments" /\ stage' = "arrivals" /\ plan' = ArrivalsDue
           \/ stage = "arrivals" /\ stage' = "salaries" /\ plan' = SetToSeq(Companies)
           \/ stage = "salaries" /\ stage' = "demand" /\ plan' = SetToSeq(Npcs \X DemandItems)
           \/ stage = "demand" /\ stage' = "expire" /\ plan' = <<1>>
           \/ stage = "expire" /\ stage' = "offers"
              /\ plan' = [k \in 1 .. OffersPerTick |-> k - 1]
           \/ stage = "offers" /\ stage' = "candles" /\ plan' = <<1>>
<1>1. PICK k \in 1 .. 13 : stage = Pipeline[k]
  BY PipelineIs DEF Stages
<1>2. Place = k
  BY <1>1, PlaceOf
<1>3. k < 13 /\ stage' = Pipeline[k + 1] /\ plan' = Loop(Pipeline[k + 1])
  BY <1>2, PipelineIs DEF NextStage
<1>4. \/ k = 1 \/ k = 2 \/ k = 3 \/ k = 4 \/ k = 5 \/ k = 6 \/ k = 7 \/ k = 8 \/ k = 9 \/ k = 10
      \/ k = 11 \/ k = 12
  BY <1>3
<1>5. CASE k = 1
  <2>1. stage' = Pipeline[2] /\ plan' = Loop(Pipeline[2])
    BY <1>3, <1>5
  <2> QED
    BY <1>1, <1>5, <2>1, PipelineIs, Loops
<1>6. CASE k = 2
  <2>1. stage' = Pipeline[3] /\ plan' = Loop(Pipeline[3])
    BY <1>3, <1>6
  <2> QED
    BY <1>1, <1>6, <2>1, PipelineIs, Loops
<1>7. CASE k = 3
  <2>1. stage' = Pipeline[4] /\ plan' = Loop(Pipeline[4])
    BY <1>3, <1>7
  <2> QED
    BY <1>1, <1>7, <2>1, PipelineIs, Loops
<1>8. CASE k = 4
  <2>1. stage' = Pipeline[5] /\ plan' = Loop(Pipeline[5])
    BY <1>3, <1>8
  <2> QED
    BY <1>1, <1>8, <2>1, PipelineIs, Loops
<1>9. CASE k = 5
  <2>1. stage' = Pipeline[6] /\ plan' = Loop(Pipeline[6])
    BY <1>3, <1>9
  <2> QED
    BY <1>1, <1>9, <2>1, PipelineIs, Loops
<1>10. CASE k = 6
  <2>1. stage' = Pipeline[7] /\ plan' = Loop(Pipeline[7])
    BY <1>3, <1>10
  <2> QED
    BY <1>1, <1>10, <2>1, PipelineIs, Loops
<1>11. CASE k = 7
  <2>1. stage' = Pipeline[8] /\ plan' = Loop(Pipeline[8])
    BY <1>3, <1>11
  <2> QED
    BY <1>1, <1>11, <2>1, PipelineIs, Loops
<1>12. CASE k = 8
  <2>1. stage' = Pipeline[9] /\ plan' = Loop(Pipeline[9])
    BY <1>3, <1>12
  <2> QED
    BY <1>1, <1>12, <2>1, PipelineIs, Loops
<1>13. CASE k = 9
  <2>1. stage' = Pipeline[10] /\ plan' = Loop(Pipeline[10])
    BY <1>3, <1>13
  <2> QED
    BY <1>1, <1>13, <2>1, PipelineIs, Loops
<1>14. CASE k = 10
  <2>1. stage' = Pipeline[11] /\ plan' = Loop(Pipeline[11])
    BY <1>3, <1>14
  <2> QED
    BY <1>1, <1>14, <2>1, PipelineIs, Loops
<1>15. CASE k = 11
  <2>1. stage' = Pipeline[12] /\ plan' = Loop(Pipeline[12])
    BY <1>3, <1>15
  <2> QED
    BY <1>1, <1>15, <2>1, PipelineIs, Loops
<1>16. CASE k = 12
  <2>1. stage' = Pipeline[13] /\ plan' = Loop(Pipeline[13])
    BY <1>3, <1>16
  <2> QED
    BY <1>1, <1>16, <2>1, PipelineIs, Loops
<1> QED
  BY <1>4, <1>5, <1>6, <1>7, <1>8, <1>9, <1>10, <1>11, <1>12, <1>13, <1>14, <1>15, <1>16

\* A tick is committed after its last stage.
LEMMA CommitIsLast ==
    ASSUME stage \in Stages, CommitTick
    PROVE  stage = "candles"
<1>1. PICK k \in 1 .. 13 : stage = Pipeline[k]
  BY PipelineIs DEF Stages
<1>2. Place = k
  BY <1>1, PlaceOf
<1> QED
  BY <1>1, <1>2, PipelineIs DEF CommitTick


InFlight == {s \in DOMAIN shipments : shipments[s].status = "IN_TRANSIT"}

\* What remains of the present stage's loop fits the rows.
Staged ==
    /\ stage \in Stages \cup {"idle"}
    /\ stage = "idle" <=> ~Ticking
    /\ stage = "idle" => plan = <<>>
    /\ stage = "withdraw" => Lists(plan, ToWithdraw)
    /\ stage = "bots" => plan \in Seq(BotActions)
    /\ stage = "costs" => Lists(plan, ToCharge)
    /\ stage = "production" => Lists(plan, ToFinish)
    /\ stage = "research" => Lists(plan, ToPublish)
    /\ stage = "market" => plan \in Seq(PlacedMatches)
    /\ stage = "shipments" => \E S \in SUBSET InFlight : Lists(plan, S)
    /\ stage = "arrivals" => Lists(plan, ToWelcome)
    /\ stage = "salaries" => plan \in Seq(Companies)
    /\ stage = "demand" => plan \in Seq(Npcs \X DemandItems)
    /\ stage = "offers" => plan \in Seq(Nat) /\ (plan # <<>> => Items # {} /\ Npcs # {})

\* The first entry of a sequence is one of its elements.
LEMMA HeadTyped ==
    ASSUME NEW S, NEW p \in Seq(S), p # <<>>
    PROVE  Head(p) \in S /\ Tail(p) \in Seq(S)
OBVIOUS

\* A round is a move, or leaves the rows alone.
LEMMA RoundMoves ==
    ASSUME Typed, clock \in Nat, Staged, TickRound
    PROVE  /\ Ticking /\ UNCHANGED <<clock, requests, stage, saved>> /\ plan' = Tail(plan)
           /\ Move \/ UNCHANGED allRows
<1> DEFINE x == Head(plan)
<1>1. plan # <<>> /\ Round(x) /\ UNCHANGED <<clock, requests, stage, saved>> /\ plan' = Tail(plan)
  BY DEF TickRound
<1>2. Ticking
  BY <1>1 DEF Staged
<1> SUFFICES Move \/ UNCHANGED allRows
  BY <1>1, <1>2
<1> HIDE DEF x
<1>3. CASE stage = "withdraw" /\ OfOrders(WithdrawOrder(x) /\ UNCHANGED trades)
  <2>1. x \in ToWithdraw
    BY <1>1, <1>3, ListAdvances DEF Staged, x
  <2> QED
    BY <1>3, <2>1 DEF Move, WithdrawMove, ToWithdraw
<1>4. CASE stage = "bots" /\ IF IsOrder(x) THEN OfOrders(PlaceBotOrder(x) /\ UNCHANGED trades)
                             ELSE OfJobs(Produce(x))
  <2>1. x \in BotActions
    BY <1>1, <1>4, HeadTyped DEF Staged, x
  <2>2. CASE IsOrder(x)
    <3>1. x \in QuoteActions
      BY <2>1, <2>2, BotActionKinds
    <3>2. /\ x.company \in Companies /\ x.wish.item \in Items
          /\ x.wish.quantity \in Positive /\ x.wish.price \in Positive
      BY <3>1, NpcsAssumption, BotsAssumption DEF QuoteActions, WishSet
    <3>3. \/ OfOrders(AddBuyOrder(x.company, x.wish.item, x.wish.quantity, x.wish.price)
                         /\ UNCHANGED trades)
          \/ OfOrders(AddSellOrder(x.company, x.wish.item, x.wish.quantity, x.wish.price)
                         /\ UNCHANGED trades)
      BY <1>4, <2>2 DEF PlaceBotOrder, OfOrders
    <3> QED
      BY <3>2, <3>3 DEF Move, OrderMove, OfOrders
  <2>3. CASE ~IsOrder(x)
    <3>1. x \in ProducerActions
      BY <2>1, <2>3, BotActionKinds
    <3>2. OfJobs(Produce(x))
      BY <1>4, <2>3
    <3>3. \/ UNCHANGED <<Tables, jobs>>
          \/ \E r \in Recipes : StartJob(x.company, r, 1, ThisTick)
      BY <3>1, <3>2, ProduceDoes DEF OfJobs
    <3>4. UNCHANGED <<orders, trades, buildings, people, science, shipments, contracts, candles>>
      BY <3>2 DEF OfJobs
    <3>5. CASE UNCHANGED <<Tables, jobs>>
      BY <3>4, <3>5, <1>1, <1>2 DEF allRows, Tables
    <3>6. CASE \E r \in Recipes : StartJob(x.company, r, 1, ThisTick)
      <4>1. x.company \in Companies /\ 1 \in Positive
        BY <3>1, NpcsAssumption DEF ProducerActions, Positive
      <4>2. PICK r \in Recipes : StartJob(x.company, r, 1, ThisTick)
        BY <3>6
      <4>3. OfJobs(StartJob(x.company, r, 1, ThisTick))
        BY <4>2, <3>4 DEF OfJobs
      <4> QED
        BY <1>1, <1>2, <4>1, <4>3 DEF Move, JobMove
    <3> QED
      BY <3>3, <3>5, <3>6
  <2> QED
    BY <1>1, <1>2, <2>2, <2>3
<1>5. CASE stage = "costs" /\ OfBuildings(ChargeBuilding(x))
  <2>1. x \in ToCharge
    BY <1>1, <1>5, ListAdvances DEF Staged, x
  <2> QED
    BY <1>5, <2>1 DEF Move, BuildingMove, ToCharge
<1>6. CASE stage = "production" /\ OfJobs(CompleteJob(x))
  <2>1. x \in ToFinish
    BY <1>1, <1>6, ListAdvances DEF Staged, x
  <2> QED
    BY <1>6, <2>1 DEF Move, JobMove, ToFinish
<1>7. CASE stage = "research" /\ OfScience(CompleteResearch(x))
  <2>1. x \in ToPublish
    BY <1>1, <1>7, ListAdvances DEF Staged, x
  <2> QED
    BY <1>7, <2>1 DEF Move, ScienceMove, ToPublish
<1>8. CASE stage = "market" /\ OfOrders(Settle(x))
  <2>1. x \in PlacedMatches
    BY <1>1, <1>8, HeadTyped DEF Staged, x
  <2>2. CASE StillOpen(x)
    BY <1>8, <2>1, <2>2 DEF Move, SettleMove
  <2>3. CASE ~StillOpen(x)
    BY <1>8, <2>3 DEF OfOrders, Settle, allRows
  <2> QED
    BY <2>2, <2>3
<1>9. CASE stage = "shipments" /\ OfShipments(Deliver(x))
  <2>1. PICK S \in SUBSET InFlight : Lists(plan, S)
    BY <1>9 DEF Staged
  <2>2. x \in InFlight
    BY <1>1, <2>1, ListAdvances DEF x
  <2> QED
    BY <1>9, <2>2 DEF Move, ShipmentMove, InFlight
<1>10. CASE stage = "arrivals" /\ OfPeople(Arrive(x))
  <2>1. x \in ToWelcome
    BY <1>1, <1>10, ListAdvances DEF Staged, x
  <2> QED
    BY <1>10, <2>1 DEF Move, PeopleMove, ToWelcome
<1>11. CASE stage = "salaries" /\ OfPeople(PaySalary(x))
  <2>1. x \in Companies
    BY <1>1, <1>11, HeadTyped DEF Staged, x
  <2> QED
    BY <1>11, <2>1 DEF Move, PeopleMove
<1>12. CASE stage = "demand" /\ OfContracts(Consume(x[1], x[2]) /\ UNCHANGED contracts)
  <2>1. x \in Npcs \X DemandItems
    BY <1>1, <1>12, HeadTyped DEF Staged, x
  <2>2. x[1] \in Npcs /\ x[2] \in DemandItems
    BY <2>1
  <2> QED
    BY <1>12, <2>2 DEF Move, ConsumeMove
<1>13. CASE stage = "expire" /\ OfContracts(ExpireContracts)
  BY <1>13 DEF Move, ContractMove
<1>14. CASE stage = "offers" /\ OfContracts(OfferContract(x))
  <2>1. x \in Nat /\ Items # {} /\ Npcs # {}
    BY <1>1, <1>14, HeadTyped DEF Staged, x
  <2> QED
    BY <1>14, <2>1 DEF Move, ContractMove
<1>15. CASE stage = "candles" /\ OfCandles(UpsertCandles)
  BY <1>15 DEF Move, CandleMove
<1> QED
  BY <1>1, <1>3, <1>4, <1>5, <1>6, <1>7, <1>8, <1>9, <1>10, <1>11, <1>12, <1>13, <1>14, <1>15
     DEF Round


\* A request is a move, made between ticks.
LEMMA RequestMoves ==
    ASSUME clock \in Nat, Requests
    PROVE  /\ ~Ticking /\ UNCHANGED <<clock, stage, plan, saved>>
           /\ Move
<1>1. ~Ticking /\ UNCHANGED <<clock, stage, plan, saved>>
  BY DEF Requests, TradeRequest, BuildingRequest, WorkforceRequest, ResearchRequest,
         ProductionRequest, ShipmentRequest, ContractRequest, RefundRequest, Requesting
<1>2. /\ Players \subseteq Companies /\ Quantities \subseteq Positive /\ Prices \subseteq Positive
      /\ Runs \subseteq Positive /\ Deltas \subseteq Positive /\ Refunds \subseteq Nat
      /\ clock \in {clock, ThisTick}
  BY AmountsAssumption, ProductionAssumption, WorkforceAssumption, EconomyAssumption
     DEF Players, Positive
<1> SUFFICES Move
  BY <1>1
<1>3. CASE TradeRequest
  <2>1. OrderMove \/ WithdrawMove
    BY <1>2, <1>3 DEF TradeRequest, OrderMove, WithdrawMove
  <2> QED
    BY <2>1 DEF Move
<1>4. CASE BuildingRequest
  <2>1. BuildingMove
    BY <1>2, <1>4 DEF BuildingRequest, BuildingMove
  <2> QED
    BY <2>1 DEF Move
<1>5. CASE WorkforceRequest
  <2>1. \/ \E c \in Players, a \in Allocations : OfPeople(SetAllocation(c, a))
        \/ \E c \in Players, n \in Deltas : OfPeople(Hire(c, n) \/ LayOff(c, n))
    BY <1>5 DEF WorkforceRequest
  <2>2. PeopleMove
    BY <1>2, <2>1 DEF OfPeople, PeopleMove
  <2> QED
    BY <2>2 DEF Move
<1>6. CASE ResearchRequest
  <2>1. ScienceMove
    BY <1>2, <1>6 DEF ResearchRequest, ScienceMove, OfScience
  <2> QED
    BY <2>1 DEF Move
<1>7. CASE ProductionRequest
  <2>1. JobMove
    BY <1>2, <1>7 DEF ProductionRequest, JobMove
  <2> QED
    BY <2>1 DEF Move
<1>8. CASE ShipmentRequest
  <2>1. ShipmentMove
    BY <1>2, <1>8 DEF ShipmentRequest, ShipmentMove
  <2> QED
    BY <2>1 DEF Move
<1>9. CASE ContractRequest
  <2>1. ContractMove
    BY <1>2, <1>9 DEF ContractRequest, ContractMove
  <2> QED
    BY <2>1 DEF Move
<1>10. CASE RefundRequest
  <2>1. BuildingMove
    BY <1>2, <1>10 DEF RefundRequest, BuildingMove
  <2> QED
    BY <2>1 DEF Move
<1> QED
  BY <1>3, <1>4, <1>5, <1>6, <1>7, <1>8, <1>9, <1>10 DEF Requests


-----------------------------------------------------------------------------
(* Every move leaves typed rows.                                           *)

\* Orders and settlements.
LEMMA OrdersTyped ==
    ASSUME Typed, clock \in Nat, OrderMove \/ WithdrawMove \/ SettleMove
    PROVE  Typed'
<1>0. Typed
  OBVIOUS
<1>1. CASE OrderMove
  <2>1. PICK c \in Companies, i \in Items, n \in Positive, p \in Positive :
            OfOrders((AddBuyOrder(c, i, n, p) \/ AddSellOrder(c, i, n, p)) /\ UNCHANGED trades)
    BY <1>1 DEF OrderMove
  <2>2. CASE AddBuyOrder(c, i, n, p)
    <3>1. orders' \in Seq(BookRow) /\ Booked(c, 0, n * p) /\ stock' = stock
      BY <2>2, AddBuyOrderDoes
    <3> QED
      BY <2>1, <3>1, <1>0 DEF Typed, OfOrders, Booked, people, science
  <2>3. CASE AddSellOrder(c, i, n, p)
    <3>1. orders' \in Seq(BookRow) /\ Stocked(c, i, 0, n) /\ cash' = cash /\ ledger' = ledger
      BY <2>3, AddSellOrderDoes
    <3> QED
      BY <2>1, <3>1, <1>0 DEF Typed, OfOrders, Stocked, people, science
  <2> QED
    BY <2>1, <2>2, <2>3 DEF OfOrders
<1>2. CASE WithdrawMove
  <2>1. PICK o \in DOMAIN orders : OfOrders(WithdrawOrder(o) /\ UNCHANGED trades)
    BY <1>2 DEF WithdrawMove
  <2>2. WithdrawOrder(o)
    BY <2>1 DEF OfOrders
  <2>3. /\ orders' \in Seq(BookRow)
        /\ Booked(orders[o].company, 0, -orders[o].reservedCash)
        /\ Stocked(orders[o].company, orders[o].item, 0, -orders[o].reservedQuantity)
    BY <2>2, WithdrawOrderDoes
  <2> QED
    BY <2>1, <2>3, <1>0 DEF Typed, OfOrders, Stocked, Booked, people, science
<1>3. CASE SettleMove
  <2>1. PICK m \in PlacedMatches : StillOpen(m) /\ OfOrders(Settle(m))
    BY <1>3 DEF SettleMove
  <2>2. Settle(m)
    BY <2>1 DEF OfOrders
  <2>3. /\ trades' \in Seq(TradeRow)
        /\ Settlement(m, orders[m.buy].company, orders[m.sell].company, orders[m.buy].item,
                      m.quantity, Notional(m), Reduction(m))
    BY <2>1, <2>2, SettleDoes
  <2>4. cash' \in CashRows /\ ledger' \in LedgerRows /\ stock' \in StockRows
        /\ orders' \in Seq(BookRow)
    BY <2>3 DEF Settlement
  <2> QED
    BY <2>1, <2>3, <2>4, <1>0 DEF Typed, OfOrders, people, science
<1> QED
  BY <1>1, <1>2, <1>3

\* Buildings.
LEMMA BuildingsTyped ==
    ASSUME Typed, clock \in Nat, BuildingMove
    PROVE  Typed'
<1>0. Typed
  OBVIOUS
<1>1. ASSUME NEW c \in Companies, NEW type \in BuildingTypes, NEW region \in {"home", "away"},
             OfBuildings(AcquireBuilding(c, type, region))
      PROVE  Typed'
  <2>1. AcquireBuilding(c, type, region)
    BY <1>1 DEF OfBuildings
  <2>2. Booked(c, -AcquisitionCost[type], 0) /\ buildings' \in Seq(BuildingRow)
    BY <2>1, AcquireBuildingDoes
  <2>3. UNCHANGED <<stock, depot, consumed>>
    BY <2>1 DEF AcquireBuilding
  <2> QED
    BY <1>1, <2>2, <2>3, <1>0 DEF Typed, OfBuildings, Booked, people, science
<1>2. ASSUME NEW b \in DOMAIN buildings, OfBuildings(ReactivateBuilding(b))
      PROVE  Typed'
  <2>1. ReactivateBuilding(b)
    BY <1>2 DEF OfBuildings
  <2>2. buildings' \in Seq(BuildingRow)
    BY <2>1, ReactivateBuildingDoes
  <2>3. UNCHANGED Tables
    BY <2>1 DEF ReactivateBuilding
  <2> QED
    BY <1>2, <2>2, <2>3, <1>0 DEF Typed, OfBuildings, Tables, people, science
<1>3. ASSUME NEW b \in DOMAIN buildings, OfBuildings(ChargeBuilding(b))
      PROVE  Typed'
  <2>1. ChargeBuilding(b)
    BY <1>3 DEF OfBuildings
  <2>2. /\ buildings' \in Seq(BuildingRow) /\ buildings[b].company \in Companies
        /\ \/ cash' = cash /\ ledger' = ledger
           \/ \E n \in Nat : Booked(buildings[b].company, -n, 0)
    BY <2>1, ChargeBuildingDoes
  <2>3. UNCHANGED <<stock, depot, consumed>>
    BY <2>1 DEF ChargeBuilding
  <2>4. cash' \in CashRows /\ ledger' \in LedgerRows
    BY <2>2, <1>0 DEF Typed, Booked
  <2> QED
    BY <1>3, <2>2, <2>3, <2>4, <1>0 DEF Typed, OfBuildings, people, science
<1>4. ASSUME NEW c \in Companies, NEW n \in Nat, OfBuildings(IssueRefund(c, n) /\ UNCHANGED buildings)
      PROVE  Typed'
  <2>1. IssueRefund(c, n)
    BY <1>4 DEF OfBuildings
  <2>2. Booked(c, n, 0)
    BY <2>1, IssueRefundDoes
  <2>3. UNCHANGED <<stock, depot, consumed>>
    BY <2>1 DEF IssueRefund
  <2> QED
    BY <1>4, <2>2, <2>3, <1>0 DEF Typed, OfBuildings, Booked, people, science
<1> QED
  BY <1>1, <1>2, <1>3, <1>4 DEF BuildingMove

\* The workforce.
LEMMA PeopleTyped ==
    ASSUME Typed, clock \in Nat, PeopleMove
    PROVE  Typed'
<1>0. Typed
  OBVIOUS
<1>1. ASSUME NEW c \in Companies, NEW a \in Allocations, OfPeople(SetAllocation(c, a))
      PROVE  Typed'
  <2>1. SetAllocation(c, a)
    BY <1>1 DEF OfPeople
  <2>2. staff' \in [Companies -> StaffRow]
    BY <2>1, SetAllocationTyped
  <2>3. UNCHANGED <<hires, Tables>>
    BY <2>1 DEF SetAllocation
  <2> QED
    BY <1>1, <2>2, <2>3, <1>0 DEF Typed, OfPeople, Tables, science
<1>2. ASSUME NEW c \in Companies, NEW n \in Positive, OfPeople(LayOff(c, n))
      PROVE  Typed'
  <2>1. LayOff(c, n)
    BY <1>2 DEF OfPeople
  <2>2. staff' \in [Companies -> StaffRow]
    BY <2>1, LayOffTyped
  <2>3. UNCHANGED <<hires, Tables>>
    BY <2>1 DEF LayOff
  <2> QED
    BY <1>2, <2>2, <2>3, <1>0 DEF Typed, OfPeople, Tables, science
<1>3. ASSUME NEW c \in Companies, NEW n \in Positive, OfPeople(Hire(c, n))
      PROVE  Typed'
  <2>1. Hire(c, n)
    BY <1>3 DEF OfPeople
  <2>2. (\E k \in Nat : Booked(c, -k, 0)) /\ hires' \in Seq(HireRow)
    BY <2>1, HireDoes
  <2>3. UNCHANGED <<staff, stock, depot, consumed>>
    BY <2>1 DEF Hire
  <2> QED
    BY <1>3, <2>2, <2>3, <1>0 DEF Typed, OfPeople, Booked, science
<1>4. ASSUME NEW h \in DOMAIN hires, OfPeople(Arrive(h))
      PROVE  Typed'
  <2>1. Arrive(h)
    BY <1>4 DEF OfPeople
  <2>2. staff' \in [Companies -> StaffRow] /\ hires' \in Seq(HireRow)
    BY <2>1, ArriveDoes
  <2>3. UNCHANGED Tables
    BY <2>1 DEF Arrive
  <2> QED
    BY <1>4, <2>2, <2>3, <1>0 DEF Typed, OfPeople, Tables, science
<1>5. ASSUME NEW c \in Companies, OfPeople(PaySalary(c))
      PROVE  Typed'
  <2>1. PaySalary(c)
    BY <1>5 DEF OfPeople
  <2>2. staff' \in [Companies -> StaffRow] /\ (\E n \in Nat : Booked(c, -n, 0))
    BY <2>1, PaySalaryDoes
  <2>3. UNCHANGED <<hires, stock, depot, consumed>>
    BY <2>1 DEF PaySalary
  <2> QED
    BY <1>5, <2>2, <2>3, <1>0 DEF Typed, OfPeople, Booked, science
<1> QED
  BY <1>1, <1>2, <1>3, <1>4, <1>5 DEF PeopleMove


\* Research.
LEMMA ScienceTyped ==
    ASSUME Typed, clock \in Nat, ScienceMove
    PROVE  Typed'
<1>0. Typed
  OBVIOUS
<1>1. ASSUME NEW c \in Companies, NEW n \in Nodes, OfScience(StartResearch(c, n))
      PROVE  Typed'
  <2>1. StartResearch(c, n)
    BY <1>1 DEF OfScience
  <2>2. /\ \E k \in Nat : Booked(c, -k, 0)
        /\ labs' \in Seq(LabRow) /\ research' \in ResearchRows
    BY <2>1, StartResearchDoes
  <2>3. UNCHANGED <<known, stock, depot, consumed>>
    BY <2>1 DEF StartResearch
  <2> QED
    BY <1>1, <2>2, <2>3, <1>0 DEF Typed, OfScience, Booked, people
<1>2. ASSUME NEW c \in Companies, NEW n \in Nodes, OfScience(CancelResearch(c, n))
      PROVE  Typed'
  <2>1. CancelResearch(c, n)
    BY <1>2 DEF OfScience
  <2>2. labs' \in Seq(LabRow) /\ research' \in ResearchRows
    BY <2>1, CancelResearchDoes
  <2>3. UNCHANGED <<known, Tables>>
    BY <2>1 DEF CancelResearch
  <2> QED
    BY <1>2, <2>2, <2>3, <1>0 DEF Typed, OfScience, Tables, people
<1>3. ASSUME NEW j \in DOMAIN labs, OfScience(CompleteResearch(j))
      PROVE  Typed'
  <2>1. CompleteResearch(j)
    BY <1>3 DEF OfScience
  <2>2. labs' \in Seq(LabRow) /\ research' \in ResearchRows /\ known' \in KnownRows
    BY <2>1, CompleteResearchDoes
  <2>3. UNCHANGED Tables
    BY <2>1 DEF CompleteResearch
  <2> QED
    BY <1>3, <2>2, <2>3, <1>0 DEF Typed, OfScience, Tables, people
<1> QED
  BY <1>1, <1>2, <1>3 DEF ScienceMove

\* Production.
LEMMA JobsTyped ==
    ASSUME Typed, clock \in Nat, JobMove
    PROVE  Typed'
<1>0. Typed
  OBVIOUS
<1>1. ASSUME NEW c \in Companies, NEW r \in Recipes, NEW runs \in Positive, NEW tick \in Nat,
             OfJobs(StartJob(c, r, runs, tick))
      PROVE  Typed'
  <2>1. StartJob(c, r, runs, tick)
    BY <1>1 DEF OfJobs
  <2>2. jobs' \in Seq(JobRow) /\ stock' \in StockRows
    BY <2>1, StartJobDoes DEF Restocked
  <2>3. UNCHANGED <<cash, depot, ledger, consumed>>
    BY <2>1 DEF StartJob
  <2> QED
    BY <1>1, <2>2, <2>3, <1>0 DEF Typed, OfJobs, people, science
<1>2. ASSUME NEW j \in DOMAIN jobs, OfJobs(CancelJob(j))
      PROVE  Typed'
  <2>1. CancelJob(j)
    BY <1>2 DEF OfJobs
  <2>2. jobs' = [jobs EXCEPT ![j].status = "CANCELLED"] /\ stock' \in StockRows
    BY <2>1, CancelJobDoes DEF Restocked
  <2>3. jobs' \in Seq(JobRow)
    BY <2>2, JobWritten
  <2>4. UNCHANGED <<cash, depot, ledger, consumed>>
    BY <2>1 DEF CancelJob
  <2> QED
    BY <1>2, <2>2, <2>3, <2>4, <1>0 DEF Typed, OfJobs, people, science
<1>3. ASSUME NEW j \in DOMAIN jobs, OfJobs(CompleteJob(j))
      PROVE  Typed'
  <2>1. CompleteJob(j)
    BY <1>3 DEF OfJobs
  <2>2. jobs' = [jobs EXCEPT ![j].status = "COMPLETED"] /\ stock' \in StockRows
    BY <2>1, CompleteJobDoes DEF Restocked
  <2>3. jobs' \in Seq(JobRow)
    BY <2>2, JobWritten
  <2>4. UNCHANGED <<cash, depot, ledger, consumed>>
    BY <2>1 DEF CompleteJob
  <2> QED
    BY <1>3, <2>2, <2>3, <2>4, <1>0 DEF Typed, OfJobs, people, science
<1>4. clock \in Nat /\ ThisTick \in Nat
  BY DEF ThisTick
<1> QED
  BY <1>1, <1>2, <1>3, <1>4 DEF JobMove

\* Shipments.
LEMMA ShipmentsTyped ==
    ASSUME Typed, clock \in Nat, ShipmentMove
    PROVE  Typed'
<1>0. Typed
  OBVIOUS
<1>1. ASSUME NEW c \in Companies, NEW i \in Items, NEW n \in Positive,
             OfShipments(CreateShipment(c, i, n))
      PROVE  Typed'
  <2>1. CreateShipment(c, i, n)
    BY <1>1 DEF OfShipments
  <2>2. \E fee \in Nat : /\ shipments' \in Seq(ShipmentRow) /\ Booked(c, -fee, 0)
                         /\ Stocked(c, i, -n, 0)
    BY <2>1, CreateShipmentDoes
  <2>3. UNCHANGED <<depot, consumed>>
    BY <2>1 DEF CreateShipment
  <2> QED
    BY <1>1, <2>2, <2>3, <1>0 DEF Typed, OfShipments, Booked, Stocked, people, science
<1>2. ASSUME NEW s \in DOMAIN shipments, OfShipments(CancelShipment(s))
      PROVE  Typed'
  <2>1. CancelShipment(s)
    BY <1>2 DEF OfShipments
  <2>2. shipments' = [shipments EXCEPT ![s].status = "CANCELLED"] /\ stock' \in StockRows
    BY <2>1, CancelShipmentDoes DEF Stocked
  <2>3. shipments' \in Seq(ShipmentRow)
    BY <2>2, ShipmentWritten
  <2>4. UNCHANGED <<cash, depot, ledger, consumed>>
    BY <2>1 DEF CancelShipment
  <2> QED
    BY <1>2, <2>2, <2>3, <2>4, <1>0 DEF Typed, OfShipments, people, science
<1>3. ASSUME NEW s \in DOMAIN shipments, OfShipments(Deliver(s))
      PROVE  Typed'
  <2>1. Deliver(s)
    BY <1>3 DEF OfShipments
  <2>2. /\ \/ shipments' = [shipments EXCEPT ![s].status = "DELIVERED"]
           \/ shipments' = shipments
        /\ stock' \in StockRows /\ depot' \in DepotRows
    BY <2>1, <1>0, DeliverDoes DEF Stocked, Stowed, Typed
  <2>3. shipments' \in Seq(ShipmentRow)
    BY <2>2, <1>0, ShipmentWritten DEF Typed
  <2>4. UNCHANGED <<cash, ledger, consumed>>
    BY <2>1 DEF Deliver
  <2> QED
    BY <1>3, <2>2, <2>3, <2>4, <1>0 DEF Typed, OfShipments, people, science
<1> QED
  BY <1>1, <1>2, <1>3 DEF ShipmentMove

\* Contracts, consumption and candles.
LEMMA ContractsTyped ==
    ASSUME Typed, clock \in Nat, ContractsSound, ContractMove
    PROVE  Typed'
<1>0. Typed
  OBVIOUS
<1>1. contracts' \in Seq(ContractRow)
  BY ContractMoveKeepsSound
<1>2. UNCHANGED <<orders, trades, buildings, people, science, jobs, shipments, candles>>
  BY DEF ContractMove, OfContracts
<1>3. UNCHANGED <<depot, consumed>>
  BY ZenonT(60) DEF ContractMove, OfContracts, AcceptContract, FulfillContract, ExpireContracts, OfferContract,
         Tables
<1>4. cash' \in CashRows /\ ledger' \in LedgerRows /\ stock' \in StockRows
  <2>1. CASE UNCHANGED Tables
    BY <2>1, <1>0 DEF Typed, Tables
  <2>2. CASE \E k \in DOMAIN contracts, n \in Positive : FulfillContract(k, n)
    <3>1. PICK k \in DOMAIN contracts, n \in Positive : FulfillContract(k, n)
      BY <2>2
    <3>2. contracts[k].status \in {"ACCEPTED", "PARTIALLY_FULFILLED"}
      BY <3>1 DEF FulfillContract
    <3>3. contracts[k].seller \in Players
      BY <3>2 DEF ContractsSound, ContractSound
    <3>4. Exchanged(contracts[k].buyer, contracts[k].seller, contracts[k].item, n,
                    n * contracts[k].price)
      BY <3>1, <3>3, FulfillContractDoes
    <3> QED
      BY <3>4 DEF Exchanged
  <2>3. UNCHANGED Tables \/ \E k \in DOMAIN contracts, n \in Positive : FulfillContract(k, n)
    BY DEF ContractMove, OfContracts, AcceptContract, ExpireContracts, OfferContract
  <2> QED
    BY <2>1, <2>2, <2>3
<1> QED
  BY <1>0, <1>1, <1>2, <1>3, <1>4 DEF Typed, people, science

\* The demand sink and the candles.
LEMMA MarketsTyped ==
    ASSUME Typed, clock \in Nat, ConsumeMove \/ CandleMove
    PROVE  Typed'
<1>0. Typed
  OBVIOUS
<1>1. CASE ConsumeMove
  <2>1. PICK c \in Npcs, i \in DemandItems : OfContracts(Consume(c, i) /\ UNCHANGED contracts)
    BY <1>1 DEF ConsumeMove
  <2>2. Consume(c, i) /\ UNCHANGED contracts
    BY <2>1 DEF OfContracts
  <2>3. stock' \in StockRows /\ consumed' \in [Items -> Nat]
    BY <2>2, ConsumeDoes DEF Stocked
  <2>4. UNCHANGED <<cash, depot, ledger>>
    BY <2>2 DEF Consume
  <2> QED
    BY <2>1, <2>2, <2>3, <2>4, <1>0 DEF Typed, OfContracts, people, science
<1>2. CASE CandleMove
  <2>1. UpsertCandles
    BY <1>2 DEF CandleMove, OfCandles
  <2>2. candles' \in CandleSets
    BY <2>1, UpsertCandlesDoes
  <2>3. UNCHANGED Tables
    BY <2>1 DEF UpsertCandles
  <2> QED
    BY <1>2, <2>2, <2>3, <1>0 DEF Typed, CandleMove, OfCandles, Tables, people, science
<1> QED
  BY <1>1, <1>2

\* Only moves of contracts change them.
LEMMA MoveTyped ==
    ASSUME Typed, clock \in Nat, ContractsSound, Move
    PROVE  Typed' /\ ContractsSound'
<1>1. Typed'
  BY OrdersTyped, BuildingsTyped, PeopleTyped, ScienceTyped, JobsTyped, ShipmentsTyped,
     ContractsTyped, MarketsTyped DEF Move
<1>2. contracts' = contracts \/ ContractMove
  BY DEF Move, OrderMove, WithdrawMove, SettleMove, BuildingMove, PeopleMove, ScienceMove, JobMove,
         ShipmentMove, ConsumeMove, CandleMove, OfOrders, OfBuildings, OfPeople, OfScience, OfJobs,
         OfShipments, OfContracts, OfCandles
<1> QED
  BY <1>1, <1>2, ContractMoveKeepsSound DEF ContractsSound


-----------------------------------------------------------------------------
(* What a step does to the rows, and to those saved.                       *)

\* A step is a move, leaves the rows alone, or rolls the tick back.
LEMMA StepKinds ==
    ASSUME Typed, clock \in Nat, Staged, EconomyNext
    PROVE  \/ Move /\ saved' = saved
           \/ UNCHANGED allRows /\ saved' = saved
           \/ UNCHANGED allRows /\ saved' = Rows /\ ~Ticking
           \/ UNCHANGED allRows /\ saved' = NoTick
           \/ Ticking /\ TickThrows
<1>1. CASE Requests
  BY <1>1, RequestMoves
<1>2. CASE BeginTick
  BY <1>2 DEF BeginTick
<1>3. CASE TickRound
  BY <1>3, RoundMoves
<1>4. CASE NextStage
  BY <1>4 DEF NextStage
<1>5. CASE CommitTick
  BY <1>5 DEF CommitTick
<1>6. CASE TickThrows
  BY <1>6 DEF TickThrows
<1>7. CASE BoundsReached
  BY <1>7 DEF BoundsReached, economyVars
<1> QED
  BY <1>1, <1>2, <1>3, <1>4, <1>5, <1>6, <1>7 DEF EconomyNext, Advance

\* What moves preserve, steps preserve, of the rows and of those saved.
LEMMA StepPreserves ==
    ASSUME NEW P \in SUBSET AllRows, clock \in Nat, Staged,
           Rows \in P, Ticking => saved \in P,
           EconomyNext \/ UNCHANGED economyVars,
           Move => (Rows \in P)'
    PROVE  (Rows \in P)' /\ (Ticking => saved \in P)'
<1>0. Typed
  BY RowsTyped
<1>1. ASSUME UNCHANGED allRows PROVE (Rows \in P)'
  BY <1>1, RowsAreKept
<1>2. CASE Move /\ saved' = saved
  BY <1>2 DEF Ticking
<1>3. CASE UNCHANGED allRows /\ saved' \in {saved, Rows, NoTick}
  BY <1>1, <1>3 DEF Ticking
<1>4. CASE Ticking /\ TickThrows
  <2>1. saved \in P /\ saved \in AllRows
    BY <1>4
  <2>2. Rows' = saved /\ saved' = NoTick
    BY <1>4, <2>1, RowsSame DEF TickThrows
  <2> QED
    BY <2>1, <2>2 DEF Ticking
<1>5. CASE UNCHANGED economyVars
  BY <1>3, <1>5 DEF economyVars
<1> QED
  BY <1>0, <1>2, <1>3, <1>4, <1>5, StepKinds


-----------------------------------------------------------------------------
(* Each round takes the first entry off what there is to do.               *)

\* What the rounds of each stage leave alone.
LEMMA RoundLeaves ==
    ASSUME TickRound
    PROVE  /\ plan # <<>> /\ plan' = Tail(plan) /\ UNCHANGED <<clock, stage, saved>>
           /\ stage # "costs" => buildings' = buildings
           /\ stage \notin {"bots", "production"} => jobs' = jobs
           /\ stage # "research" => labs' = labs
           /\ stage # "arrivals" => hires' = hires
           /\ stage # "shipments" => shipments' = shipments
           /\ stage \notin {"expire", "offers"} => contracts' = contracts
           /\ stage \notin {"withdraw", "bots", "market"} => orders' = orders
<1> DEFINE x == Head(plan)
<1>1. plan # <<>> /\ Round(x) /\ plan' = Tail(plan) /\ UNCHANGED <<clock, stage, saved>>
  BY DEF TickRound
<1> HIDE DEF x
<1>2. stage # "arrivals" => hires' = hires
  BY <1>1 DEF Round, OfOrders, OfBuildings, OfPeople, OfScience, OfJobs, OfShipments, OfContracts,
              OfCandles, people, PaySalary
<1> QED
  BY <1>1, <1>2 DEF Round, OfOrders, OfBuildings, OfPeople, OfScience, OfJobs, OfShipments,
                    OfContracts, OfCandles, people, science

\* A bot's orders are withdrawn one by one.
LEMMA WithdrawAdvances ==
    ASSUME Typed, stage = "withdraw", Lists(plan, ToWithdraw), TickRound
    PROVE  Lists(plan', ToWithdraw')
<1> DEFINE x == Head(plan)
<1>1. plan # <<>> /\ plan' = Tail(plan) /\ OfOrders(WithdrawOrder(x) /\ UNCHANGED trades)
  BY DEF TickRound, Round
<1>2. x \in ToWithdraw /\ Lists(plan', ToWithdraw \ {x})
  BY <1>1, ListAdvances
<1> HIDE DEF x
<1>3. x \in DOMAIN orders /\ WithdrawOrder(x)
  BY <1>1, <1>2 DEF ToWithdraw, OfOrders
<1>4. /\ orders[x] \in BookRow /\ ClosedWithoutReserve(orders[x]) \in BookRow
      /\ orders' = [orders EXCEPT ![x] = ClosedWithoutReserve(orders[x])]
  BY <1>3, WithdrawOrderDoes
<1>5. ClosedWithoutReserve(orders[x]).status = "CANCELLED"
  BY <1>4 DEF ClosedWithoutReserve, BookRow, Trading!OrderRow
<1>6. /\ DOMAIN orders' = DOMAIN orders /\ orders'[x].status = "CANCELLED"
      /\ \A o \in DOMAIN orders : o # x => orders'[o] = orders[o]
  BY <1>3, <1>4, <1>5
<1>7. ToWithdraw' = ToWithdraw \ {x}
  BY <1>3, <1>6 DEF ToWithdraw
<1> QED
  BY <1>2, <1>7

\* Buildings are charged one by one.
LEMMA CostsAdvance ==
    ASSUME Typed, clock \in Nat, stage = "costs", Lists(plan, ToCharge), TickRound
    PROVE  Lists(plan', ToCharge')
<1> DEFINE x == Head(plan)
<1>1. plan # <<>> /\ plan' = Tail(plan) /\ clock' = clock /\ OfBuildings(ChargeBuilding(x))
  BY DEF TickRound, Round
<1>2. x \in ToCharge /\ Lists(plan', ToCharge \ {x})
  BY <1>1, ListAdvances
<1> HIDE DEF x
<1>3. x \in DOMAIN buildings /\ ChargeBuilding(x)
  BY <1>1, <1>2 DEF ToCharge, OfBuildings
<1>4. /\ DOMAIN buildings' = DOMAIN buildings
      /\ \A k \in DOMAIN buildings \ {x} : buildings'[k] = buildings[k]
      /\ buildings'[x].paid = ThisTick
  BY <1>3, ChargeBuildingDoes
<1>5. ThisTick' = ThisTick /\ ~(ThisTick <= ThisTick - CostInterval)
  BY <1>1, BuildingsAssumption DEF ThisTick
<1>6. ToCharge' = ToCharge \ {x}
  BY <1>3, <1>4, <1>5 DEF ToCharge
<1> QED
  BY <1>2, <1>6

\* Jobs are completed one by one.
LEMMA ProductionAdvances ==
    ASSUME Typed, stage = "production", Lists(plan, ToFinish), TickRound
    PROVE  Lists(plan', ToFinish')
<1> DEFINE x == Head(plan)
<1>1. plan # <<>> /\ plan' = Tail(plan) /\ clock' = clock /\ OfJobs(CompleteJob(x))
  BY DEF TickRound, Round
<1>2. x \in ToFinish /\ Lists(plan', ToFinish \ {x})
  BY <1>1, ListAdvances
<1> HIDE DEF x
<1>3. x \in DOMAIN jobs /\ CompleteJob(x)
  BY <1>1, <1>2 DEF ToFinish, OfJobs
<1>4. jobs' = [jobs EXCEPT ![x].status = "COMPLETED"]
  BY <1>3, CompleteJobDoes
<1>5. /\ DOMAIN jobs' = DOMAIN jobs /\ jobs'[x].status = "COMPLETED"
      /\ \A j \in DOMAIN jobs : j # x => jobs'[j] = jobs[j]
  BY <1>3, <1>4, JobWritten
<1>6. ToFinish' = ToFinish \ {x}
  BY <1>1, <1>3, <1>5 DEF ToFinish, ThisTick
<1> QED
  BY <1>2, <1>6

\* Research is completed job by job.
LEMMA ResearchAdvances ==
    ASSUME Typed, stage = "research", Lists(plan, ToPublish), TickRound
    PROVE  Lists(plan', ToPublish')
<1> DEFINE x == Head(plan)
<1>1. plan # <<>> /\ plan' = Tail(plan) /\ clock' = clock /\ OfScience(CompleteResearch(x))
  BY DEF TickRound, Round
<1>2. x \in ToPublish /\ Lists(plan', ToPublish \ {x})
  BY <1>1, ListAdvances
<1> HIDE DEF x
<1>3. x \in DOMAIN labs /\ CompleteResearch(x)
  BY <1>1, <1>2 DEF ToPublish, OfScience
<1>4. labs' = [labs EXCEPT ![x].status = "COMPLETED"]
  BY <1>3, CompleteResearchDoes
<1>5. /\ DOMAIN labs' = DOMAIN labs /\ labs'[x].status = "COMPLETED"
      /\ \A j \in DOMAIN labs : j # x => labs'[j] = labs[j]
  BY <1>3, <1>4, LabWritten
<1>6. ToPublish' = ToPublish \ {x}
  BY <1>1, <1>3, <1>5 DEF ToPublish, ThisTick
<1> QED
  BY <1>2, <1>6

\* People are welcomed hire by hire.
LEMMA ArrivalsAdvance ==
    ASSUME Typed, clock \in Nat, stage = "arrivals", Lists(plan, ToWelcome), TickRound
    PROVE  Lists(plan', ToWelcome')
<1> DEFINE x == Head(plan)
<1>1. plan # <<>> /\ plan' = Tail(plan) /\ clock' = clock /\ OfPeople(Arrive(x))
  BY DEF TickRound, Round
<1>2. x \in ToWelcome /\ Lists(plan', ToWelcome \ {x})
  BY <1>1, ListAdvances
<1> HIDE DEF x
<1>3. x \in DOMAIN hires /\ Arrive(x)
  BY <1>1, <1>2 DEF ToWelcome, OfPeople
<1>4. /\ DOMAIN hires' = DOMAIN hires /\ hires'[x].applied = ThisTick
      /\ \A k \in DOMAIN hires \ {x} : hires'[k] = hires[k]
  BY <1>3, ArriveDoes
<1>5. ThisTick # 0
  BY DEF ThisTick
<1>6. ToWelcome' = ToWelcome \ {x}
  BY <1>1, <1>3, <1>4, <1>5 DEF ToWelcome, ThisTick
<1> QED
  BY <1>2, <1>6

\* Shipments are unloaded one by one; one for which there is no room stays on
\* the way, but not on the list.
LEMMA ShipmentsAdvance ==
    ASSUME Typed, stage = "shipments", NEW S \in SUBSET InFlight, Lists(plan, S), TickRound
    PROVE  \E T \in SUBSET InFlight' : Lists(plan', T)
<1> DEFINE x == Head(plan)
<1>1. plan # <<>> /\ plan' = Tail(plan) /\ OfShipments(Deliver(x))
  BY DEF TickRound, Round
<1>2. x \in S /\ Lists(plan', S \ {x})
  BY <1>1, ListAdvances
<1> HIDE DEF x
<1>3. x \in DOMAIN shipments /\ Deliver(x)
  BY <1>1, <1>2 DEF InFlight, OfShipments
<1>4. shipments' = [shipments EXCEPT ![x].status = "DELIVERED"] \/ shipments' = shipments
  BY <1>3, DeliverDoes
<1>5. DOMAIN shipments' = DOMAIN shipments
      /\ \A s \in DOMAIN shipments : s # x => shipments'[s] = shipments[s]
  BY <1>3, <1>4, ShipmentWritten
<1>6. S \ {x} \in SUBSET InFlight'
  BY <1>5 DEF InFlight
<1> QED
  BY <1>2, <1>6

\* Matches are settled one by one.
LEMMA MarketAdvances ==
    ASSUME Typed, clock \in Nat, stage = "market", plan \in Seq(PlacedMatches), TickRound
    PROVE  plan' \in Seq(PlacedMatches')
<1> DEFINE x == Head(plan)
<1>1. plan # <<>> /\ plan' = Tail(plan) /\ OfOrders(Settle(x))
  BY DEF TickRound, Round
<1>2. x \in PlacedMatches /\ plan' \in Seq(PlacedMatches)
  BY <1>1, HeadTyped
<1> HIDE DEF x
<1>3. Settle(x)
  BY <1>1 DEF OfOrders
<1>4. DOMAIN orders' = DOMAIN orders
  <2>1. CASE ~StillOpen(x)
    BY <1>3, <2>1 DEF Settle
  <2>2. CASE StillOpen(x)
    <3>1. Settlement(x, orders[x.buy].company, orders[x.sell].company, orders[x.buy].item,
                     x.quantity, Notional(x), Reduction(x))
      BY <1>2, <1>3, <2>2, SettleDoes
    <3> QED
      BY <3>1 DEF Settlement, Trading!OrdersFilled
  <2> QED
    BY <2>1, <2>2
<1>5. PlacedMatches' = PlacedMatches
  BY <1>4 DEF PlacedMatches
<1> QED
  BY <1>2, <1>5


-----------------------------------------------------------------------------
(* What is due has been worked off when its stage is over.                 *)

AfterExpire == {"offers", "candles"}
AfterArrivals == {"salaries", "demand", "expire"} \cup AfterExpire
AfterResearch == {"market", "shipments", "arrivals"} \cup AfterArrivals
AfterProduction == {"research"} \cup AfterResearch
AfterCosts == {"production"} \cup AfterProduction

NoneExpired == \A k \in DOMAIN contracts : contracts[k].status \in Live => contracts[k].expires > ThisTick

NothingLeft ==
    /\ stage \in AfterCosts => ToCharge = {}
    /\ stage \in AfterProduction => ToFinish = {}
    /\ stage \in AfterResearch => ToPublish = {}
    /\ stage \in AfterArrivals => ToWelcome = {}
    /\ stage \in AfterExpire \/ (stage = "expire" /\ plan = <<>>) => NoneExpired

\* The contract stage leaves no contract that has expired.
LEMMA ExpiryDone ==
    ASSUME Typed, clock \in Nat, TickRound,
           \/ stage = "expire"
           \/ stage = "offers" /\ NoneExpired /\ plan \in Seq(Nat) /\ Items # {} /\ Npcs # {}
    PROVE  NoneExpired'
<1>1. \A k \in DOMAIN contracts : contracts[k] \in ContractRow /\ contracts[k].expires \in Nat
  BY RowsOfTable, ContractFields DEF Typed
<1>2. ThisTick \in Nat /\ ThisTick' = ThisTick
  BY RoundLeaves DEF ThisTick
<1>3. CASE stage = "expire"
  <2>1. ExpireContracts
    BY <1>3 DEF TickRound, Round, OfContracts
  <2>2. DOMAIN contracts' = DOMAIN contracts
    BY <2>1, ExpireContractsDoes
  <2>3. ASSUME NEW k \in DOMAIN contracts, contracts'[k].status \in Live
        PROVE  contracts'[k].expires > ThisTick
    <3> DEFINE it == contracts[k]
               row == [it EXCEPT !.status = "EXPIRED"]
    <3>1. contracts'[k] = IF it.status \in Live /\ it.expires <= ThisTick THEN row ELSE it
      BY <2>1, ExpireContractsDoes
    <3>2. row.status = "EXPIRED"
      BY <2>1, ExpireContractsDoes
    <3>3. it.expires \in Nat
      BY <1>1
    <3> HIDE DEF it, row
    <3> QED
      BY <1>2, <2>3, <3>1, <3>2, <3>3 DEF Live
  <2> QED
    BY <1>2, <2>2, <2>3 DEF NoneExpired
<1>4. CASE stage = "offers" /\ NoneExpired /\ plan \in Seq(Nat) /\ Items # {} /\ Npcs # {}
  <2> DEFINE x == Head(plan)
  <2>1. OfferContract(x) /\ plan # <<>>
    BY <1>4 DEF TickRound, Round, OfContracts
  <2>2. x \in Nat
    BY <1>4, <2>1, HeadTyped
  <2> HIDE DEF x
  <2>3. CASE contracts' = contracts
    BY <1>2, <1>4, <2>3 DEF NoneExpired
  <2>4. CASE \E row \in ContractRow :
                 /\ row.expires > ThisTick
                 /\ contracts' = Append(contracts, row) /\ contracts' \in Seq(ContractRow)
    <3>1. PICK row \in ContractRow :
                 /\ row.expires > ThisTick
                 /\ contracts' = Append(contracts, row) /\ contracts' \in Seq(ContractRow)
      BY <2>4
    <3>2. contracts \in Seq(ContractRow)
      BY DEF Typed
    <3>3. /\ DOMAIN contracts' = (DOMAIN contracts) \cup {Len(contracts) + 1}
          /\ \A j \in DOMAIN contracts : contracts'[j] = contracts[j]
          /\ contracts'[Len(contracts) + 1] = row
      BY <3>1, <3>2, RowAdded
    <3> QED
      BY <1>2, <1>4, <3>1, <3>3 DEF NoneExpired
  <2> QED
    BY <1>4, <2>1, <2>2, <2>3, <2>4, OfferContractDoes
<1> QED
  BY <1>3, <1>4

\* A round leaves what fits, and nothing of what had been worked off.
LEMMA RoundStaged ==
    ASSUME Typed, clock \in Nat, Staged, NothingLeft, TickRound
    PROVE  Staged' /\ NothingLeft'
<1>1. /\ plan # <<>> /\ plan' = Tail(plan) /\ UNCHANGED <<clock, stage, saved>>
      /\ stage # "idle"
  BY RoundLeaves DEF Staged
<1>2. Ticking' = Ticking /\ ThisTick' = ThisTick
  BY <1>1 DEF Ticking, ThisTick
<1>3. stage = "withdraw" => Lists(plan', ToWithdraw')
  BY WithdrawAdvances DEF Staged
<1>4. stage = "bots" => plan' \in Seq(BotActions)
  BY <1>1, HeadTyped DEF Staged
<1>5. stage = "costs" => Lists(plan', ToCharge')
  BY CostsAdvance DEF Staged
<1>6. stage = "production" => Lists(plan', ToFinish')
  BY ProductionAdvances DEF Staged
<1>7. stage = "research" => Lists(plan', ToPublish')
  BY ResearchAdvances DEF Staged
<1>8. stage = "market" => plan' \in Seq(PlacedMatches')
  BY MarketAdvances DEF Staged
<1>9. stage = "shipments" => \E T \in SUBSET InFlight' : Lists(plan', T)
  BY ShipmentsAdvance DEF Staged
<1>10. stage = "arrivals" => Lists(plan', ToWelcome')
  BY ArrivalsAdvance DEF Staged
<1>11. stage = "salaries" => plan' \in Seq(Companies)
  BY <1>1, HeadTyped DEF Staged
<1>12. stage = "demand" => plan' \in Seq(Npcs \X DemandItems)
  BY <1>1, HeadTyped DEF Staged
<1>13. stage = "offers" => plan' \in Seq(Nat) /\ Items # {} /\ Npcs # {}
  BY <1>1, HeadTyped DEF Staged
<1>14. Staged'
  BY <1>1, <1>2, <1>3, <1>4, <1>5, <1>6, <1>7, <1>8, <1>9, <1>10, <1>11, <1>12, <1>13 DEF Staged
<1>15. stage \in AfterCosts => ToCharge' = {}
  BY <1>2, RoundLeaves DEF NothingLeft, ToCharge, AfterCosts, AfterProduction, AfterResearch,
                           AfterArrivals, AfterExpire
<1>16. stage \in AfterProduction => ToFinish' = {}
  BY <1>2, RoundLeaves DEF NothingLeft, ToFinish, AfterProduction, AfterResearch, AfterArrivals,
                           AfterExpire
<1>17. stage \in AfterResearch => ToPublish' = {}
  BY <1>2, RoundLeaves DEF NothingLeft, ToPublish, AfterResearch, AfterArrivals, AfterExpire
<1>18. stage \in AfterArrivals => ToWelcome' = {}
  BY <1>2, RoundLeaves DEF NothingLeft, ToWelcome, AfterArrivals, AfterExpire
<1>19. stage \in AfterExpire \/ stage = "expire" => NoneExpired'
  <2>1. CASE stage = "candles"
    <3>1. contracts' = contracts /\ NoneExpired
      BY <2>1, RoundLeaves DEF NothingLeft, AfterExpire
    <3> QED
      BY <1>2, <3>1 DEF NoneExpired
  <2>2. CASE stage = "offers"
    <3>1. NoneExpired /\ plan \in Seq(Nat) /\ Items # {} /\ Npcs # {}
      BY <1>1, <2>2 DEF Staged, NothingLeft, AfterExpire
    <3> QED
      BY <2>2, <3>1, ExpiryDone
  <2>3. CASE stage = "expire"
    BY <2>3, ExpiryDone
  <2> QED
    BY <2>1, <2>2, <2>3 DEF AfterExpire
<1> QED
  BY <1>1, <1>14, <1>15, <1>16, <1>17, <1>18, <1>19 DEF NothingLeft


\* The sequences that stages begin with.
LEMMA LoopsTyped ==
    ASSUME Typed
    PROVE  /\ SetToSeq(Companies) \in Seq(Companies)
           /\ SetToSeq(Npcs \X DemandItems) \in Seq(Npcs \X DemandItems)
           /\ [k \in 1 .. OffersPerTick |-> k - 1] \in Seq(Nat)
           /\ [k \in 1 .. OffersPerTick |-> k - 1] # <<>> => Items # {} /\ Npcs # {}
<1>1. IsFiniteSet(Companies) /\ IsFiniteSet(Npcs) /\ IsFiniteSet(DemandItems)
  BY AmountsAssumption, NpcsAssumption, EconomyAssumption, FS_Subset
<1>2. IsFiniteSet(Npcs \X DemandItems)
  BY <1>1, FS_Product
<1>3. /\ SetToSeq(Companies) \in Seq(Companies)
      /\ SetToSeq(Npcs \X DemandItems) \in Seq(Npcs \X DemandItems)
  BY <1>1, <1>2, SetIsListed DEF Lists
<1>4. OffersPerTick \in Nat
  BY ContractsAssumption DEF OffersPerTick
<1>5. [k \in 1 .. OffersPerTick |-> k - 1] \in [1 .. OffersPerTick -> Nat]
  BY <1>4
<1>6. [k \in 1 .. OffersPerTick |-> k - 1] \in Seq(Nat)
  BY <1>4, <1>5
<1>7. Items = {} \/ Npcs = {} => [k \in 1 .. OffersPerTick |-> k - 1] = <<>>
  <2> SUFFICES ASSUME Items = {} \/ Npcs = {} PROVE [k \in 1 .. OffersPerTick |-> k - 1] = <<>>
    OBVIOUS
  <2>1. OffersPerTick = 0
    BY DEF OffersPerTick
  <2> DEFINE none == [k \in 1 .. OffersPerTick |-> k - 1]
  <2>2. none \in Seq(Nat) /\ DOMAIN none = 1 .. 0
    BY <1>6, <2>1
  <2> HIDE DEF none
  <2>3. Len(none) \in Nat /\ DOMAIN none = 1 .. Len(none)
    BY <2>2
  <2>4. Len(none) = 0
    BY <2>2, <2>3
  <2>5. none = <<>>
    BY <2>2, <2>4
  <2> QED
    BY <2>5 DEF none
<1> QED
  BY <1>3, <1>6, <1>7

\* Each stage begins with what there is to do.
LEMMA NextStaged ==
    ASSUME Typed, clock \in Nat, Staged, NothingLeft, NextStage
    PROVE  Staged' /\ NothingLeft'
<1>1. Ticking /\ plan = <<>> /\ UNCHANGED <<allRows, clock, requests, saved>>
  BY DEF NextStage
<1>2. stage \in Stages
  BY <1>1 DEF Staged
<1>3. /\ Ticking' /\ ToCharge' = ToCharge /\ ToFinish' = ToFinish /\ ToPublish' = ToPublish
      /\ ToWelcome' = ToWelcome /\ ToWithdraw' = ToWithdraw /\ ToUnload' = ToUnload
      /\ InFlight' = InFlight /\ PlacedMatches' = PlacedMatches /\ NoneExpired' = NoneExpired
  BY <1>1 DEF Ticking, allRows, people, science, ToCharge, ToFinish, ToPublish, ToWelcome, ToWithdraw,
              ToUnload, InFlight, PlacedMatches, NoneExpired, ThisTick
<1>4. /\ stage = "costs" => ToCharge = {}
      /\ stage = "production" => ToFinish = {}
      /\ stage = "research" => ToPublish = {}
      /\ stage = "arrivals" => ToWelcome = {}
      /\ stage = "expire" => NoneExpired
  BY <1>1, EmptyListed DEF Staged, NothingLeft
<1>5. /\ PlanBotActions \in Seq(BotActions) /\ PlanMatches \in Seq(PlacedMatches)
      /\ Lists(CostsDue, ToCharge) /\ Lists(JobsDue, ToFinish) /\ Lists(LabsDue, ToPublish)
      /\ Lists(ArrivalsDue, ToWelcome) /\ Lists(ShipmentsDue, ToUnload)
      /\ ToUnload \in SUBSET InFlight
  BY BotActionsTyped, MatchesPlaced, CostsDueListed, JobsDueListed, LabsDueListed, ArrivalsDueListed,
     ShipmentsDueListed DEF ToUnload, InFlight
<1>6. stage' # "idle" /\ stage' \in Stages /\ stage' # "withdraw"
  BY <1>2, Succession DEF Stages
<1>7. /\ stage' = "bots" => plan' = PlanBotActions
      /\ stage' = "costs" => plan' = CostsDue
      /\ stage' = "production" => stage = "costs" /\ plan' = JobsDue
      /\ stage' = "research" => stage = "production" /\ plan' = LabsDue
      /\ stage' = "market" => stage = "research" /\ plan' = PlanMatches
      /\ stage' = "shipments" => stage = "market" /\ plan' = ShipmentsDue
      /\ stage' = "arrivals" => stage = "shipments" /\ plan' = ArrivalsDue
      /\ stage' = "salaries" => stage = "arrivals" /\ plan' = SetToSeq(Companies)
      /\ stage' = "demand" => stage = "salaries" /\ plan' = SetToSeq(Npcs \X DemandItems)
      /\ stage' = "expire" => stage = "demand" /\ plan' = <<1>>
      /\ stage' = "offers" => stage = "expire" /\ plan' = [k \in 1 .. OffersPerTick |-> k - 1]
      /\ stage' = "candles" => stage = "offers"
  BY <1>2, Succession
<1>8. Staged'
  BY <1>3, <1>5, <1>6, <1>7, LoopsTyped DEF Staged
<1>9. <<1>> # <<>>
  OBVIOUS
<1>10. /\ stage' \in AfterCosts => stage = "costs" \/ stage \in AfterCosts
       /\ stage' \in AfterProduction => stage = "production" \/ stage \in AfterProduction
       /\ stage' \in AfterResearch => stage = "research" \/ stage \in AfterResearch
       /\ stage' \in AfterArrivals => stage = "arrivals" \/ stage \in AfterArrivals
       /\ stage' \in AfterExpire => stage = "expire" \/ stage \in AfterExpire
  BY <1>7 DEF AfterCosts, AfterProduction, AfterResearch, AfterArrivals, AfterExpire
<1>11. stage' = "expire" => plan' # <<>>
  BY <1>7, <1>9
<1>12. NothingLeft'
  BY <1>3, <1>4, <1>10, <1>11 DEF NothingLeft
<1> QED
  BY <1>8, <1>12

\* Any other step begins a tick, ends one, or runs between ticks.
LEMMA StepStaged ==
    ASSUME Typed, clock \in Nat, Staged, NothingLeft, EconomyNext \/ UNCHANGED economyVars
    PROVE  Staged' /\ NothingLeft'
<1>1. CASE Requests
  <2>1. ~Ticking /\ UNCHANGED <<clock, stage, plan, saved>>
    BY <1>1, RequestMoves
  <2>2. ~Ticking' /\ stage' = "idle" /\ plan' = <<>>
    BY <2>1 DEF Staged, Ticking
  <2> QED
    BY <2>2 DEF Staged, NothingLeft, AfterCosts, AfterProduction, AfterResearch, AfterArrivals,
                AfterExpire
<1>2. CASE BeginTick
  <2>1. UNCHANGED <<allRows, clock>> /\ saved' = Rows /\ stage' = "withdraw" /\ plan' = TraderOrders
    BY <1>2, PipelineIs, Loops DEF BeginTick
  <2>2. Ticking'
    BY <2>1, RowsAreNotNoTick DEF Ticking
  <2>3. ToWithdraw' = ToWithdraw
    BY <2>1 DEF allRows, ToWithdraw
  <2>4. Lists(plan', ToWithdraw')
    BY <2>1, <2>3, TraderOrdersListed
  <2> QED
    BY <2>1, <2>2, <2>4 DEF Staged, NothingLeft, Stages, AfterCosts, AfterProduction, AfterResearch,
                            AfterArrivals, AfterExpire
<1>3. CASE TickRound
  BY <1>3, RoundStaged
<1>4. CASE NextStage
  BY <1>4, NextStaged
<1>5. CASE CommitTick \/ TickThrows
  <2>1. stage' = "idle" /\ plan' = <<>> /\ saved' = NoTick
    BY <1>5 DEF CommitTick, TickThrows
  <2> QED
    BY <2>1 DEF Staged, NothingLeft, Ticking, AfterCosts, AfterProduction, AfterResearch,
                AfterArrivals, AfterExpire
<1>6. CASE UNCHANGED economyVars
  BY <1>6 DEF economyVars, allRows, people, science, Staged, NothingLeft, Ticking, ToCharge, ToFinish,
              ToPublish, ToWelcome, ToWithdraw, InFlight, PlacedMatches, NoneExpired, ThisTick
<1>7. CASE BoundsReached
  BY <1>6, <1>7 DEF BoundsReached
<1> QED
  BY <1>1, <1>2, <1>3, <1>4, <1>5, <1>6, <1>7 DEF EconomyNext, Advance


-----------------------------------------------------------------------------
(* Money: what orders hold is reserved, and the ledger tells of every      *)
(* change.                                                                 *)

LedgerFollows ==
    \A c \in Companies : /\ cash'[c].cash - cash[c].cash = ledger'[c].cash - ledger[c].cash
                         /\ cash'[c].reserved - cash[c].reserved
                               = ledger'[c].reserved - ledger[c].reserved

\* What is not written stays as it is.
LEMMA NothingBooked ==
    ASSUME Typed, NEW c, NEW i
    PROVE  /\ cash' = cash /\ ledger' = ledger => Booked(c, 0, 0)
           /\ stock' = stock => Stocked(c, i, 0, 0)
<1>1. /\ cash \in CashRows /\ ledger \in LedgerRows /\ stock \in StockRows
  BY DEF Typed
<1>2. /\ \A d \in Companies : /\ cash[d].cash \in Int /\ cash[d].reserved \in Int
                              /\ ledger[d].cash \in Int /\ ledger[d].reserved \in Int
      /\ \A d \in Companies, j \in Items :
            stock[d][j].quantity \in Int /\ stock[d][j].reserved \in Int
  BY <1>1, Balances
<1>3. \A x \in Int : x + 0 = x
  OBVIOUS
<1>4. ASSUME cash' = cash, ledger' = ledger PROVE Booked(c, 0, 0)
  BY <1>1, <1>2, <1>3, <1>4 DEF Booked
<1>5. ASSUME stock' = stock PROVE Stocked(c, i, 0, 0)
  BY <1>1, <1>2, <1>3, <1>5 DEF Stocked
<1> QED
  BY <1>4, <1>5

\* What is booked is entered in the ledger.
LEMMA BookedFollows ==
    ASSUME Typed, NEW c, NEW k \in Int, NEW r \in Int, Booked(c, k, r)
    PROVE  LedgerFollows
<1>1. \A d \in Companies : /\ cash[d].cash \in Int /\ cash[d].reserved \in Int
                           /\ ledger[d].cash \in Int /\ ledger[d].reserved \in Int
  BY TypedBalances
<1> SUFFICES ASSUME NEW d \in Companies
             PROVE  /\ cash'[d].cash - cash[d].cash = ledger'[d].cash - ledger[d].cash
                    /\ cash'[d].reserved - cash[d].reserved = ledger'[d].reserved - ledger[d].reserved
  BY DEF LedgerFollows
<1> QED
  BY <1>1 DEF Booked

\* A payment is entered in the ledger of both.
LEMMA PaymentFollows ==
    ASSUME Typed, NEW b, NEW s, NEW n \in Int, NEW r \in Int,
           Trading!PaymentMoved(cash', cash, b, s, n, r),
           Trading!PaymentMoved(ledger', ledger, b, s, n, r)
    PROVE  LedgerFollows
<1>1. \A d \in Companies : /\ cash[d].cash \in Int /\ cash[d].reserved \in Int
                           /\ ledger[d].cash \in Int /\ ledger[d].reserved \in Int
  BY TypedBalances
<1> SUFFICES ASSUME NEW d \in Companies
             PROVE  /\ cash'[d].cash - cash[d].cash = ledger'[d].cash - ledger[d].cash
                    /\ cash'[d].reserved - cash[d].reserved = ledger'[d].reserved - ledger[d].reserved
  BY DEF LedgerFollows
<1> QED
  BY <1>1 DEF Trading!PaymentMoved

\* What an order move does to one company and one item.
Reserved(c, i, a, n) ==
    /\ Booked(c, 0, a) /\ Stocked(c, i, 0, n)
    /\ a \in Nat => a = 0 \/ a <= cash[c].cash - cash[c].reserved
    /\ n \in Nat => n = 0 \/ n <= stock[c][i].quantity - stock[c][i].reserved
    /\ \A d \in Companies : CashFor(orders', d) = CashFor(orders, d) + (IF d = c THEN a ELSE 0)
    /\ \A d \in Companies, j \in Items :
          StockFor(orders', d, j) = StockFor(orders, d, j) + (IF d = c /\ j = i THEN n ELSE 0)

\* Placing and withdrawing orders only moves reserves.
LEMMA ReserveMoves ==
    ASSUME Typed, OrdersSound, OrderMove \/ WithdrawMove
    PROVE  /\ OrdersSound' /\ OrdersKept /\ trades' = trades
           /\ \A i : BoughtOf(orders', i) = BoughtOf(orders, i)
           /\ \E c \in Companies, i \in Items, a \in Int, n \in Int : Reserved(c, i, a, n)
<1>1. ASSUME NEW c \in Companies, NEW i \in Items, NEW n \in Positive, NEW p \in Positive,
             AddBuyOrder(c, i, n, p)
      PROVE  /\ OrdersSound' /\ OrdersKept /\ \A j : BoughtOf(orders', j) = BoughtOf(orders, j)
             /\ \E a \in Int : Reserved(c, i, a, 0)
  <2> DEFINE row == Order(c, i, "BUY", n, p, n * p, 0)
             a == n * p
  <2>1. /\ a \in Nat /\ a <= cash[c].cash - cash[c].reserved
        /\ row \in BookRow /\ orders' = Append(orders, row)
        /\ Booked(c, 0, a) /\ stock' = stock
    BY <1>1, AddBuyOrderDoes
  <2>2. OrderSound(row)
    BY NewOrderSound
  <2>3. /\ row.remaining = row.quantity /\ row.company = c /\ row.item = i
        /\ row.reservedCash = a /\ row.reservedQuantity = 0
    BY DEF Order
  <2> HIDE DEF row, a
  <2>4. /\ OrdersSound' /\ OrdersKept
        /\ \A d, j : /\ CashFor(orders', d) = CashFor(orders, d)
                           + (IF row.company = d THEN row.reservedCash ELSE 0)
                     /\ StockFor(orders', d, j) = StockFor(orders, d, j)
                           + (IF row.company = d /\ row.item = j THEN row.reservedQuantity ELSE 0)
        /\ \A j : BoughtOf(orders', j) = BoughtOf(orders, j)
    BY <2>1, <2>2, <2>3, OrderPlaced
  <2>5. Stocked(c, i, 0, 0)
    BY <2>1, NothingBooked
  <2>6. \A d \in Companies : CashFor(orders', d) = CashFor(orders, d) + (IF d = c THEN a ELSE 0)
    BY <2>3, <2>4
  <2>7. \A d \in Companies, j \in Items :
           StockFor(orders', d, j) = StockFor(orders, d, j) + (IF d = c /\ j = i THEN 0 ELSE 0)
    BY <2>3, <2>4
  <2>8. Reserved(c, i, a, 0)
    BY <2>1, <2>5, <2>6, <2>7 DEF Reserved
  <2> QED
    BY <2>1, <2>4, <2>8
<1>2. ASSUME NEW c \in Companies, NEW i \in Items, NEW n \in Positive, NEW p \in Positive,
             AddSellOrder(c, i, n, p)
      PROVE  /\ OrdersSound' /\ OrdersKept /\ \A j : BoughtOf(orders', j) = BoughtOf(orders, j)
             /\ Reserved(c, i, 0, n)
  <2> DEFINE row == Order(c, i, "SELL", n, p, 0, n)
  <2>1. /\ n <= stock[c][i].quantity - stock[c][i].reserved
        /\ row \in BookRow /\ orders' = Append(orders, row)
        /\ Stocked(c, i, 0, n) /\ cash' = cash /\ ledger' = ledger
    BY <1>2, AddSellOrderDoes
  <2>2. OrderSound(row)
    BY NewOrderSound
  <2>3. /\ row.remaining = row.quantity /\ row.company = c /\ row.item = i
        /\ row.reservedCash = 0 /\ row.reservedQuantity = n
    BY DEF Order
  <2> HIDE DEF row
  <2>4. /\ OrdersSound' /\ OrdersKept
        /\ \A d, j : /\ CashFor(orders', d) = CashFor(orders, d)
                           + (IF row.company = d THEN row.reservedCash ELSE 0)
                     /\ StockFor(orders', d, j) = StockFor(orders, d, j)
                           + (IF row.company = d /\ row.item = j THEN row.reservedQuantity ELSE 0)
        /\ \A j : BoughtOf(orders', j) = BoughtOf(orders, j)
    BY <2>1, <2>2, <2>3, OrderPlaced
  <2>5. Booked(c, 0, 0)
    BY <2>1, NothingBooked
  <2>6. \A d \in Companies : CashFor(orders', d) = CashFor(orders, d) + (IF d = c THEN 0 ELSE 0)
    BY <2>3, <2>4
  <2>7. \A d \in Companies, j \in Items :
           StockFor(orders', d, j) = StockFor(orders, d, j) + (IF d = c /\ j = i THEN n ELSE 0)
    BY <2>3, <2>4
  <2>8. Reserved(c, i, 0, n)
    BY <2>1, <2>5, <2>6, <2>7 DEF Reserved
  <2> QED
    BY <2>4, <2>8
<1>3. ASSUME NEW o \in DOMAIN orders, WithdrawOrder(o)
      PROVE  /\ OrdersSound' /\ OrdersKept /\ \A j : BoughtOf(orders', j) = BoughtOf(orders, j)
             /\ \E c \in Companies, i \in Items, a \in Int, n \in Int : Reserved(c, i, a, n)
  <2> DEFINE order == orders[o]
             c == order.company
             i == order.item
             a == -order.reservedCash
             n == -order.reservedQuantity
  <2>1. /\ order \in BookRow /\ order.status = "OPEN"
        /\ orders' = [orders EXCEPT ![o] = ClosedWithoutReserve(order)]
        /\ Booked(c, 0, a) /\ Stocked(c, i, 0, n)
    BY <1>3, WithdrawOrderDoes
  <2>2. /\ c \in Companies /\ i \in Items /\ order.reservedCash \in Nat
        /\ order.reservedQuantity \in Nat
    BY <2>1, BookFields
  <2>3. /\ OrdersSound' /\ OrdersKept
        /\ \A d, j : /\ CashFor(orders', d) = CashFor(orders, d) + (IF c = d THEN a ELSE 0)
                     /\ StockFor(orders', d, j) = StockFor(orders, d, j)
                           + (IF c = d /\ i = j THEN n ELSE 0)
        /\ \A j : BoughtOf(orders', j) = BoughtOf(orders, j)
    BY <2>1, OrderWithdrawn
  <2>4. /\ a \in Int /\ n \in Int /\ a <= 0 /\ n <= 0
    BY <2>2
  <2> HIDE DEF order, c, i, a, n
  <2>5. (a \in Nat => a = 0) /\ (n \in Nat => n = 0)
    BY <2>4
  <2>6. \A d \in Companies : CashFor(orders', d) = CashFor(orders, d) + (IF d = c THEN a ELSE 0)
    BY <2>3
  <2>7. \A d \in Companies, j \in Items :
           StockFor(orders', d, j) = StockFor(orders, d, j) + (IF d = c /\ j = i THEN n ELSE 0)
    BY <2>3
  <2>8. Reserved(c, i, a, n)
    BY <2>1, <2>5, <2>6, <2>7 DEF Reserved
  <2> QED
    BY <2>2, <2>3, <2>4, <2>8
<1>4. trades' = trades
  BY DEF OrderMove, WithdrawMove, OfOrders
<1>5. ASSUME OrderMove
      PROVE  \/ \E c \in Companies, i \in Items, n \in Positive, p \in Positive : AddBuyOrder(c, i, n, p)
             \/ \E c \in Companies, i \in Items, n \in Positive, p \in Positive : AddSellOrder(c, i, n, p)
  BY <1>5 DEF OrderMove, OfOrders
<1>6. ASSUME WithdrawMove
      PROVE  \E o \in DOMAIN orders : WithdrawOrder(o)
  BY <1>6 DEF WithdrawMove, OfOrders
<1>7. 0 \in Int /\ \A n \in Positive : n \in Int
  BY DEF Positive
<1> QED
  BY <1>1, <1>2, <1>3, <1>4, <1>5, <1>6, <1>7


\* What a settlement does to the orders.
OrdersSettled(m, b, s, i, n, R) ==
    /\ OrdersSound' /\ OrdersKept
    /\ \A c : CashFor(orders', c) = CashFor(orders, c) - (IF b = c THEN R ELSE 0)
    /\ \A c, j : StockFor(orders', c, j) = StockFor(orders, c, j) - (IF s = c /\ i = j THEN n ELSE 0)
    /\ \A j : BoughtOf(orders', j) = BoughtOf(orders, j) + (IF i = j THEN n ELSE 0)

\* Filling both orders of a match leaves sound orders, whose reserves shrink by
\* what was paid and sold.
LEMMA OrdersAreSettled ==
    ASSUME Typed, OrdersSound, NEW m, NEW b, NEW s, NEW i, NEW n, NEW N, NEW R,
           Settlement(m, b, s, i, n, N, R)
    PROVE  OrdersSettled(m, b, s, i, n, R)
<1> DEFINE buy == orders[m.buy]
           sell == orders[m.sell]
           bought == Filled(buy, n, R, 0)
           sold == Filled(sell, n, 0, n)
<1>1. orders \in Seq(BookRow)
  BY DEF Typed
<1>2. /\ m.buy \in DOMAIN orders /\ m.sell \in DOMAIN orders /\ m.buy # m.sell
      /\ buy \in BookRow /\ sell \in BookRow
      /\ n \in Positive /\ R \in Nat /\ R = n * buy.price
      /\ b = buy.company /\ s = sell.company /\ i = buy.item /\ sell.item = i
      /\ buy.status = "OPEN" /\ sell.status = "OPEN" /\ buy.side = "BUY" /\ sell.side = "SELL"
      /\ buy.remaining >= n /\ sell.remaining >= n
      /\ buy.reservedCash >= R /\ sell.reservedQuantity >= n
      /\ orders' \in Seq(BookRow) /\ Trading!OrdersFilled(orders', orders, m.buy, m.sell, n, R)
  BY DEF Settlement
<1>3. n \in Nat /\ 0 \in Nat /\ n > 0
  BY <1>2 DEF Positive
<1>4. /\ buy.remaining \in Nat /\ sell.remaining \in Nat /\ buy.quantity \in Nat
      /\ buy.reservedCash \in Nat /\ sell.reservedQuantity \in Nat
      /\ buy.reservedQuantity \in Nat /\ sell.reservedCash \in Nat
  BY <1>2, BookFields DEF Positive
<1>5. /\ Trading!Filled(buy, n, R, 0) = bought
      /\ Trading!Filled(sell, n, 0, n) = sold
  BY DEF Filled, Trading!Filled, IsFilled, Trading!IsFilled
<1>6. /\ DOMAIN orders' = DOMAIN orders
      /\ \A o \in DOMAIN orders :
            orders'[o] = IF o = m.buy THEN bought ELSE IF o = m.sell THEN sold ELSE orders[o]
      /\ \A c, j :
            /\ Trading!SumFunctionOnSet(Trading!CashHeld(orders', c), DOMAIN orders') =
                  Trading!SumFunctionOnSet(Trading!CashHeld(orders, c), DOMAIN orders)
                     - (IF buy.company = c THEN R ELSE 0)
            /\ Trading!SumFunctionOnSet(Trading!StockHeld(orders', c, j), DOMAIN orders') =
                  Trading!SumFunctionOnSet(Trading!StockHeld(orders, c, j), DOMAIN orders)
                     - (IF sell.company = c /\ sell.item = j THEN n ELSE 0)
  BY <1>2, <1>5 DEF Trading!OrdersFilled
<1>7. /\ OrderSound(buy) /\ OrderSound(sell)
  BY <1>2 DEF OrdersSound
<1>8. /\ OrderSound(bought) /\ bought.remaining = buy.remaining - n
      /\ bought.quantity = buy.quantity /\ bought.side = buy.side /\ bought.item = buy.item
  BY ONLY <1>2, <1>3, <1>4, <1>7, FilledOrderSound, SMTT(30)
<1>9. /\ OrderSound(sold) /\ sold.side = sell.side
  BY ONLY <1>2, <1>3, <1>4, <1>7, FilledOrderSound
<1> HIDE DEF bought, sold
<1>10. OrdersSound'
  BY <1>6, <1>8, <1>9 DEF OrdersSound
<1>11. OrdersKept
  <2> SUFFICES ASSUME NEW o \in DOMAIN orders, orders[o].status \in {"FILLED", "CANCELLED"}
               PROVE  orders'[o] = orders[o]
    BY <1>6 DEF OrdersKept, Kept
  <2> QED
    BY <1>2, <1>6
<1>12. \A c : CashFor(orders', c) = CashFor(orders, c) - (IF b = c THEN R ELSE 0)
  BY <1>2, <1>6, TradingSum DEF CashFor
<1>13. \A c, j : StockFor(orders', c, j) = StockFor(orders, c, j) - (IF s = c /\ i = j THEN n ELSE 0)
  BY <1>2, <1>6, TradingSum DEF StockFor
<1>14. ASSUME NEW j PROVE BoughtOf(orders', j) = BoughtOf(orders, j) + (IF i = j THEN n ELSE 0)
  <2> DEFINE D == DOMAIN orders
             f == Received(orders, j)
             g == Received(orders', j)
             a == m.buy
  <2>1. IsFiniteSet(D) /\ (\A o \in D : f[o] \in Int) /\ (\A o \in D : g[o] \in Int) /\ a \in D
    BY <1>1, <1>2, <1>6, ReceivedInt
  <2>2. \A o \in D \ {a} : g[o] = f[o]
    BY <1>2, <1>6, <1>9 DEF Received
  <2>3. /\ f[a] = (IF i = j THEN buy.quantity - buy.remaining ELSE 0)
        /\ g[a] = (IF i = j THEN bought.quantity - bought.remaining ELSE 0)
    BY <1>2, <1>6, <1>8 DEF Received
  <2>4. BoughtOf(orders, j) = SumFunctionOnSet(f, D) /\ BoughtOf(orders', j) = SumFunctionOnSet(g, D)
    BY <1>6 DEF BoughtOf
  <2> HIDE DEF f, g, D, a
  <2>5. SumFunctionOnSet(g, D) = SumFunctionOnSet(f, D) + g[a] - f[a]
    BY <2>1, <2>2, SumChanges
  <2>6. SumFunctionOnSet(f, D) \in Int
    BY <2>1, SumInt
  <2>7. g[a] - f[a] = IF i = j THEN n ELSE 0
    BY <1>3, <1>4, <1>8, <2>3
  <2> QED
    BY <2>1, <2>4, <2>5, <2>6, <2>7
<1> QED
  BY <1>10, <1>11, <1>12, <1>13, <1>14 DEF OrdersSettled

\* A settled match.
LEMMA SettleMoves ==
    ASSUME Typed, clock \in Nat, OrdersSound, SettleMove
    PROVE  \E m \in PlacedMatches, b \in Companies, s \in Companies, i \in Items,
              n \in Positive, N \in Nat, R \in Nat :
              /\ Settlement(m, b, s, i, n, N, R) /\ OrdersSettled(m, b, s, i, n, R)
              /\ LedgerFollows
              /\ \E row \in TradeRow :
                    /\ row.item = i /\ row.quantity = n /\ row.tick = ThisTick
                    /\ trades' = Append(trades, row) /\ trades' \in Seq(TradeRow)
<1>1. PICK m \in PlacedMatches : StillOpen(m) /\ Settle(m)
  BY DEF SettleMove, OfOrders
<1>2. PICK row \in TradeRow :
              /\ row.item = orders[m.buy].item /\ row.quantity = m.quantity /\ row.tick = ThisTick
              /\ trades' = Append(trades, row) /\ trades' \in Seq(TradeRow)
              /\ Settlement(m, orders[m.buy].company, orders[m.sell].company, orders[m.buy].item,
                            m.quantity, Notional(m), Reduction(m))
  BY <1>1, SettleDoes
<1> DEFINE b == orders[m.buy].company
           s == orders[m.sell].company
           i == orders[m.buy].item
           n == m.quantity
           N == Notional(m)
           R == Reduction(m)
<1>3. Settlement(m, b, s, i, n, N, R)
  BY <1>2
<1>4. /\ row.item = i /\ row.quantity = n /\ row.tick = ThisTick
      /\ trades' = Append(trades, row) /\ trades' \in Seq(TradeRow)
  BY <1>2
<1> HIDE DEF b, s, i, n, N, R
<1>5. OrdersSettled(m, b, s, i, n, R)
  BY <1>3, OrdersAreSettled
<1>6. /\ b \in Companies /\ s \in Companies /\ i \in Items /\ n \in Positive /\ N \in Nat /\ R \in Nat
      /\ Trading!PaymentMoved(cash', cash, b, s, N, R)
      /\ Trading!PaymentMoved(ledger', ledger, b, s, N, R)
  BY <1>3 DEF Settlement
<1>7. LedgerFollows
  <2>1. N \in Int /\ R \in Int
    BY <1>6
  <2> QED
    BY <1>6, <2>1, PaymentFollows
<1> QED
  BY <1>3, <1>4, <1>5, <1>6, <1>7


\* What the other moves leave alone.
ReservesKept == \A c \in Companies : cash'[c].reserved = cash[c].reserved

\* Booking on the balance alone leaves reserves as they are.
LEMMA BalanceMoves ==
    ASSUME Typed, NEW c, NEW k \in Int, Booked(c, k, 0)
    PROVE  LedgerFollows /\ ReservesKept
<1>1. \A d \in Companies : cash[d].reserved \in Int
  BY TypedBalances
<1>2. LedgerFollows
  BY BookedFollows
<1>3. ReservesKept
  BY <1>1 DEF Booked, ReservesKept
<1> QED
  BY <1>2, <1>3

\* The rows of money are not touched.
LEMMA MoneyUntouched ==
    ASSUME Typed, cash' = cash, ledger' = ledger
    PROVE  LedgerFollows /\ ReservesKept
<1>1. \A d \in Companies : /\ cash[d].cash \in Int /\ cash[d].reserved \in Int
                           /\ ledger[d].cash \in Int /\ ledger[d].reserved \in Int
  BY TypedBalances
<1> QED
  BY <1>1 DEF LedgerFollows, ReservesKept

\* Every move is entered in the ledger, and only orders reserve cash.
LEMMA MoneyMoves ==
    ASSUME Typed, clock \in Nat, ContractsSound, OrdersSound, Move
    PROVE  /\ LedgerFollows
           /\ \/ OrderMove \/ WithdrawMove \/ SettleMove
              \/ orders' = orders /\ trades' = trades /\ ReservesKept
<1>0. \A n \in Nat : n \in Int /\ -n \in Int
  OBVIOUS
<1>1. CASE OrderMove \/ WithdrawMove
  <2>1. PICK c \in Companies, i \in Items, a \in Int, n \in Int : Reserved(c, i, a, n)
    BY <1>1, ReserveMoves
  <2>2. Booked(c, 0, a) /\ 0 \in Int
    BY <2>1 DEF Reserved
  <2> QED
    BY <1>1, <2>2, BookedFollows
<1>2. CASE SettleMove
  BY <1>2, SettleMoves
<1>3. CASE BuildingMove
  <2> SUFFICES LedgerFollows /\ ReservesKept
    BY <1>3 DEF BuildingMove, OfBuildings
  <2>1. ASSUME NEW c \in Companies, NEW type \in BuildingTypes, NEW region \in {"home", "away"},
               OfBuildings(AcquireBuilding(c, type, region))
        PROVE  LedgerFollows /\ ReservesKept
    <3>1. AcquisitionCost[type] \in Nat /\ Booked(c, -AcquisitionCost[type], 0)
      BY <2>1, AcquireBuildingDoes DEF OfBuildings
    <3> QED
      BY <3>1, <1>0, BalanceMoves
  <2>2. ASSUME NEW b \in DOMAIN buildings, OfBuildings(ReactivateBuilding(b))
        PROVE  LedgerFollows /\ ReservesKept
    BY <2>2, MoneyUntouched DEF OfBuildings, ReactivateBuilding, Tables
  <2>3. ASSUME NEW b \in DOMAIN buildings, OfBuildings(ChargeBuilding(b))
        PROVE  LedgerFollows /\ ReservesKept
    <3>1. \/ cash' = cash /\ ledger' = ledger
          \/ \E n \in Nat : Booked(buildings[b].company, -n, 0)
      BY <2>3, ChargeBuildingDoes DEF OfBuildings
    <3> QED
      BY <3>1, <1>0, BalanceMoves, MoneyUntouched
  <2>4. ASSUME NEW c \in Companies, NEW n \in Nat,
               OfBuildings(IssueRefund(c, n) /\ UNCHANGED buildings)
        PROVE  LedgerFollows /\ ReservesKept
    <3>1. Booked(c, n, 0)
      BY <2>4, IssueRefundDoes DEF OfBuildings
    <3> QED
      BY <3>1, <1>0, BalanceMoves
  <2> QED
    BY <1>3, <2>1, <2>2, <2>3, <2>4 DEF BuildingMove
<1>4. CASE PeopleMove
  <2> SUFFICES LedgerFollows /\ ReservesKept
    BY <1>4 DEF PeopleMove, OfPeople
  <2>1. ASSUME NEW c \in Companies, NEW n \in Positive, OfPeople(Hire(c, n))
        PROVE  LedgerFollows /\ ReservesKept
    <3>1. \E k \in Nat : Booked(c, -k, 0)
      BY <2>1, HireDoes DEF OfPeople
    <3> QED
      BY <3>1, <1>0, BalanceMoves
  <2>2. ASSUME NEW c \in Companies, OfPeople(PaySalary(c))
        PROVE  LedgerFollows /\ ReservesKept
    <3>1. \E k \in Nat : Booked(c, -k, 0)
      BY <2>2, PaySalaryDoes DEF OfPeople
    <3> QED
      BY <3>1, <1>0, BalanceMoves
  <2>3. \/ \E c \in Companies, n \in Positive : OfPeople(Hire(c, n))
        \/ \E c \in Companies : OfPeople(PaySalary(c))
        \/ cash' = cash /\ ledger' = ledger
    BY <1>4 DEF PeopleMove, OfPeople, SetAllocation, LayOff, Arrive, Tables
  <2> QED
    BY <2>1, <2>2, <2>3, MoneyUntouched
<1>5. CASE ScienceMove
  <2> SUFFICES LedgerFollows /\ ReservesKept
    BY <1>5 DEF ScienceMove, OfScience
  <2>1. ASSUME NEW c \in Companies, NEW n \in Nodes, OfScience(StartResearch(c, n))
        PROVE  LedgerFollows /\ ReservesKept
    <3>1. \E k \in Nat : Booked(c, -k, 0)
      BY <2>1, StartResearchDoes DEF OfScience
    <3> QED
      BY <3>1, <1>0, BalanceMoves
  <2>2. \/ \E c \in Companies, n \in Nodes : OfScience(StartResearch(c, n))
        \/ cash' = cash /\ ledger' = ledger
    BY <1>5 DEF ScienceMove, OfScience, CancelResearch, CompleteResearch, Tables
  <2> QED
    BY <2>1, <2>2, MoneyUntouched
<1>6. CASE JobMove
  <2>1. /\ cash' = cash /\ ledger' = ledger /\ orders' = orders /\ trades' = trades
    BY <1>6 DEF JobMove, OfJobs, StartJob, CancelJob, CompleteJob
  <2> QED
    BY <2>1, MoneyUntouched
<1>7. CASE ShipmentMove
  <2> SUFFICES LedgerFollows /\ ReservesKept
    BY <1>7 DEF ShipmentMove, OfShipments
  <2>1. ASSUME NEW c \in Companies, NEW i \in Items, NEW n \in Positive,
               OfShipments(CreateShipment(c, i, n))
        PROVE  LedgerFollows /\ ReservesKept
    <3>1. \E fee \in Nat : Booked(c, -fee, 0)
      BY <2>1, CreateShipmentDoes DEF OfShipments
    <3> QED
      BY <3>1, <1>0, BalanceMoves
  <2>2. \/ \E c \in Companies, i \in Items, n \in Positive : OfShipments(CreateShipment(c, i, n))
        \/ cash' = cash /\ ledger' = ledger
    BY <1>7 DEF ShipmentMove, OfShipments, CancelShipment, Deliver
  <2> QED
    BY <2>1, <2>2, MoneyUntouched
<1>8. CASE ContractMove
  <2> SUFFICES LedgerFollows /\ ReservesKept
    BY <1>8 DEF ContractMove, OfContracts
  <2>1. ASSUME NEW k \in DOMAIN contracts, NEW n \in Positive, OfContracts(FulfillContract(k, n))
        PROVE  LedgerFollows /\ ReservesKept
    <3> DEFINE it == contracts[k]
               N == n * it.price
    <3>1. FulfillContract(k, n)
      BY <2>1 DEF OfContracts
    <3>2. it.seller \in Players
      BY <3>1 DEF FulfillContract, ContractsSound, ContractSound
    <3>3. N \in Nat /\ Exchanged(it.buyer, it.seller, it.item, n, N)
      BY <3>1, <3>2, FulfillContractDoes
    <3> HIDE DEF it, N
    <3>4. /\ Trading!PaymentMoved(cash', cash, it.buyer, it.seller, N, 0)
          /\ Trading!PaymentMoved(ledger', ledger, it.buyer, it.seller, N, 0)
          /\ N \in Int /\ 0 \in Int
      BY <3>3 DEF Exchanged
    <3>5. LedgerFollows
      BY <3>4, PaymentFollows
    <3>6. ReservesKept
      <4>1. \A d \in Companies : cash[d].reserved \in Int
        BY TypedBalances
      <4> QED
        BY <3>4, <4>1 DEF Trading!PaymentMoved, ReservesKept
    <3> QED
      BY <3>5, <3>6
  <2>2. \/ \E k \in DOMAIN contracts, n \in Positive : OfContracts(FulfillContract(k, n))
        \/ cash' = cash /\ ledger' = ledger
    BY <1>8 DEF ContractMove, OfContracts, AcceptContract, ExpireContracts, OfferContract, Tables
  <2> QED
    BY <2>1, <2>2, MoneyUntouched
<1>9. CASE ConsumeMove \/ CandleMove
  <2>1. /\ cash' = cash /\ ledger' = ledger /\ orders' = orders /\ trades' = trades
    BY <1>9 DEF ConsumeMove, CandleMove, OfContracts, OfCandles, Consume, UpsertCandles, Tables
  <2> QED
    BY <2>1, MoneyUntouched
<1> QED
  BY <1>1, <1>2, <1>3, <1>4, <1>5, <1>6, <1>7, <1>8, <1>9 DEF Move

\* Orders stay sound, and what is over stays so.
LEMMA OrdersStaySound ==
    ASSUME Typed, clock \in Nat, ContractsSound, OrdersSound, Move
    PROVE  OrdersSound' /\ OrdersKept
<1>1. CASE OrderMove \/ WithdrawMove
  BY <1>1, ReserveMoves
<1>2. CASE SettleMove
  BY <1>2, SettleMoves DEF OrdersSettled
<1>3. CASE orders' = orders
  BY <1>3 DEF OrdersSound, OrdersKept, Kept
<1> QED
  BY <1>1, <1>2, <1>3, MoneyMoves


-----------------------------------------------------------------------------
(* The invariant of money, orders and contracts.                           *)

CashBacked == \A c \in Companies : cash[c].reserved = CashFor(orders, c)

SoundRows ==
    {r \in AllRows :
        /\ \A k \in DOMAIN r.contracts : ContractSound(r.contracts[k])
        /\ \A o \in DOMAIN r.orders : OrderSound(r.orders[o])
        /\ \A c \in Companies : r.cash[c].reserved = CashFor(r.orders, c)
        /\ \A c \in Companies : /\ r.cash[c].cash = StartCash + r.ledger[c].cash
                                /\ r.cash[c].reserved = r.ledger[c].reserved}

RowsHold(P) == Rows \in P /\ (Ticking => saved \in P)

SoundInv == clock \in Nat /\ Staged /\ NothingLeft /\ RowsHold(SoundRows)

\* What is sound is said of each table.
LEMMA RowsSound ==
    Rows \in SoundRows <=> Typed /\ ContractsSound /\ OrdersSound /\ CashBacked /\ LedgerExplainsCash
<1>1. /\ Rows.contracts = contracts /\ Rows.orders = orders /\ Rows.cash = cash
      /\ Rows.ledger = ledger
  BY DEF Rows
<1> QED
  BY <1>1, RowsTyped
     DEF SoundRows, ContractsSound, OrdersSound, CashBacked, LedgerExplainsCash

\* The same, after a step.
LEMMA RowsSoundNext ==
    (Rows \in SoundRows)' <=>
        Typed' /\ ContractsSound' /\ OrdersSound' /\ CashBacked' /\ LedgerExplainsCash'
<1>1. /\ Rows'.contracts = contracts' /\ Rows'.orders = orders' /\ Rows'.cash = cash'
      /\ Rows'.ledger = ledger'
  BY DEF Rows
<1>2. Rows' \in AllRows <=> Typed'
  BY RowsTypedNext
<1> QED
  BY <1>1, <1>2
     DEF SoundRows, ContractsSound, OrdersSound, CashBacked, LedgerExplainsCash

\* Every move keeps what companies have reserved equal to what their orders
\* hold.
LEMMA CashStaysBacked ==
    ASSUME Typed, clock \in Nat, ContractsSound, OrdersSound, CashBacked, Move
    PROVE  CashBacked'
<1> SUFFICES ASSUME NEW d \in Companies
             PROVE  cash'[d].reserved = CashFor(orders', d)
  BY DEF CashBacked
<1>1. cash[d].reserved \in Int /\ cash[d].reserved = CashFor(orders, d)
  BY TypedBalances DEF CashBacked
<1>2. CASE OrderMove \/ WithdrawMove
  <2>1. PICK c \in Companies, i \in Items, a \in Int, n \in Int : Reserved(c, i, a, n)
    BY <1>2, ReserveMoves
  <2> QED
    BY <1>1, <2>1 DEF Reserved, Booked
<1>3. CASE SettleMove
  <2>1. PICK m \in PlacedMatches, b \in Companies, s \in Companies, i \in Items,
              n \in Positive, N \in Nat, R \in Nat :
              Settlement(m, b, s, i, n, N, R) /\ OrdersSettled(m, b, s, i, n, R)
    BY <1>3, SettleMoves
  <2>2. Trading!PaymentMoved(cash', cash, b, s, N, R)
    BY <2>1 DEF Settlement
  <2>3. cash'[d].reserved = cash[d].reserved - (IF d = b THEN R ELSE 0)
    BY <2>2 DEF Trading!PaymentMoved
  <2>4. CashFor(orders', d) = CashFor(orders, d) - (IF b = d THEN R ELSE 0)
    BY <2>1 DEF OrdersSettled
  <2> QED
    BY <1>1, <2>3, <2>4
<1>4. CASE orders' = orders /\ ReservesKept
  BY <1>1, <1>4 DEF ReservesKept
<1> QED
  BY <1>2, <1>3, <1>4, MoneyMoves

\* Every move keeps the ledger true.
LEMMA LedgerStaysTrue ==
    ASSUME Typed, LedgerExplainsCash, LedgerFollows, Typed'
    PROVE  LedgerExplainsCash'
<1> SUFFICES ASSUME NEW d \in Companies
             PROVE  /\ cash'[d].cash = StartCash + ledger'[d].cash
                    /\ cash'[d].reserved = ledger'[d].reserved
  BY DEF LedgerExplainsCash
<1>1. /\ cash[d].cash \in Int /\ cash[d].reserved \in Int
      /\ ledger[d].cash \in Int /\ ledger[d].reserved \in Int
  BY TypedBalances
<1>2. /\ cash'[d].cash \in Int /\ cash'[d].reserved \in Int
      /\ ledger'[d].cash \in Int /\ ledger'[d].reserved \in Int
  <2>1. cash' \in CashRows /\ ledger' \in LedgerRows
    BY DEF Typed
  <2>2. cash'[d] \in [cash : Nat, reserved : Nat] /\ ledger'[d] \in [cash : Int, reserved : Int]
    BY <2>1 DEF CashRows, LedgerRows
  <2> QED
    BY <2>2
<1>3. StartCash \in Int
  BY AmountsAssumption
<1> QED
  BY <1>1, <1>2, <1>3 DEF LedgerExplainsCash, LedgerFollows

\* Ticks count up.
LEMMA ClockStays ==
    ASSUME clock \in Nat, EconomyNext \/ UNCHANGED economyVars
    PROVE  clock' \in Nat
<1>1. CASE Requests
  BY <1>1, RequestMoves
<1> QED
  BY <1>1 DEF EconomyNext, Advance, BeginTick, TickRound, NextStage, CommitTick, TickThrows,
              BoundsReached, economyVars, ThisTick

\* Every step keeps the rows sound.
LEMMA SoundStep ==
    ASSUME SoundInv, EconomyNext \/ UNCHANGED economyVars
    PROVE  SoundInv'
<1>1. /\ clock \in Nat /\ Staged /\ NothingLeft
      /\ Rows \in SoundRows /\ (Ticking => saved \in SoundRows)
  BY DEF SoundInv, RowsHold
<1>2. Typed /\ ContractsSound /\ OrdersSound /\ CashBacked /\ LedgerExplainsCash
  BY <1>1, RowsSound
<1>3. SoundRows \in SUBSET AllRows
  BY DEF SoundRows
<1>4. ASSUME Move PROVE (Rows \in SoundRows)'
  <2>1. Typed' /\ ContractsSound'
    BY <1>1, <1>2, <1>4, MoveTyped
  <2>2. OrdersSound' /\ CashBacked' /\ LedgerFollows
    BY <1>1, <1>2, <1>4, OrdersStaySound, CashStaysBacked, MoneyMoves
  <2>3. LedgerExplainsCash'
    BY <1>2, <2>1, <2>2, LedgerStaysTrue
  <2> QED
    BY <2>1, <2>2, <2>3, RowsSoundNext
<1>5. (Rows \in SoundRows)' /\ (Ticking => saved \in SoundRows)'
  BY <1>1, <1>3, <1>4, StepPreserves
<1>6. Staged' /\ NothingLeft' /\ clock' \in Nat
  BY <1>1, <1>2, StepStaged, ClockStays
<1> QED
  BY <1>5, <1>6 DEF SoundInv, RowsHold

\* The rows are sound at the start.
LEMMA SoundStart ==
    ASSUME EconomyInit
    PROVE  SoundInv
<1>1. /\ cash = [c \in Companies |-> [cash |-> StartCash, reserved |-> 0]]
      /\ stock = [c \in Companies |-> [i \in Items |-> [quantity |-> StartStock, reserved |-> 0]]]
      /\ ledger = [c \in Companies |-> [cash |-> 0, reserved |-> 0]]
      /\ orders = <<>> /\ plan = <<>> /\ saved = NoTick
  BY DEF EconomyInit, RowsInit, StartingRows
<1>2. /\ clock = 0 /\ depot = StartDepot /\ consumed = [i \in Items |-> 0] /\ trades = <<>>
      /\ stage = "idle"
  BY DEF EconomyInit, RowsInit
<1>3. /\ buildings = StartBuildings /\ staff = StartStaff /\ hires = <<>> /\ labs = <<>>
      /\ research = [c \in Companies |-> [n \in Nodes |-> "NONE"]] /\ known = StartKnown
      /\ jobs = <<>> /\ shipments = <<>> /\ contracts = <<>> /\ candles = {}
  BY DEF EconomyInit, BuildingsInit, WorkforceInit, ResearchInit
<1>4. \A S : <<>> \in Seq(S) /\ DOMAIN <<>> = {}
  OBVIOUS
<1>5. cash \in CashRows /\ stock \in StockRows /\ ledger \in LedgerRows /\ depot \in DepotRows
  BY <1>1, <1>2, AmountsAssumption, NpcsAssumption DEF CashRows, StockRows, LedgerRows, DepotRows
<1>6. IsFiniteSet({})
  BY FS_EmptySet
<1>7. Typed
  BY <1>1, <1>2, <1>3, <1>4, <1>5, <1>6, BuildingsAssumption, WorkforceAssumption, ResearchAssumption
     DEF Typed, ResearchRows, KnownRows, CandleSets
<1>8. ~Ticking
  BY <1>1 DEF Ticking
<1>9. ContractsSound /\ OrdersSound
  BY <1>1, <1>3, <1>4 DEF ContractsSound, OrdersSound
<1>10. CashBacked
  <2>1. ASSUME NEW c \in Companies PROVE CashFor(orders, c) = 0
    BY <1>1, <1>4, SumEmpty DEF CashFor
  <2> QED
    BY <1>1, <2>1 DEF CashBacked
<1>11. LedgerExplainsCash
  BY <1>1, AmountsAssumption DEF LedgerExplainsCash
<1>12. Staged /\ NothingLeft
  BY <1>1, <1>2, <1>8 DEF Staged, NothingLeft, AfterCosts, AfterProduction, AfterResearch,
                          AfterArrivals, AfterExpire
<1>13. Rows \in SoundRows
  BY <1>7, <1>9, <1>10, <1>11, RowsSound
<1> QED
  BY <1>2, <1>8, <1>12, <1>13 DEF SoundInv, RowsHold

\* The rows of the economy stay sound, and so do those a tick may put back.
THEOREM EconomySound == EconomySpec => []SoundInv
<1>1. EconomyInit => SoundInv
  BY SoundStart
<1>2. SoundInv /\ [EconomyNext]_economyVars => SoundInv'
  BY SoundStep
<1> QED
  BY <1>1, <1>2, PTL DEF EconomySpec


-----------------------------------------------------------------------------
(* What follows from the invariant.                                        *)

\* Every table has its type, efficiency stays in its bounds and no order
\* remains above what was ordered: whatever is charged, no balance, reserve or
\* stock becomes negative.
THEOREM EconomyTyped == EconomySpec => []EconomyTypeOK
<1>1. SoundInv => EconomyTypeOK
  <2> SUFFICES ASSUME SoundInv PROVE EconomyTypeOK
    OBVIOUS
  <2>1. Typed /\ OrdersSound /\ Staged
    BY RowsSound DEF SoundInv, RowsHold
  <2>2. \A c \in Companies : staff[c].capacity \in Nat /\ staff[c].efficiency \in 0 .. MaxBps
    BY <2>1, Settings
  <2>3. \A k \in DOMAIN contracts : contracts[k].remaining \in Nat /\ contracts[k].price > 0
    <3>1. ASSUME NEW k \in DOMAIN contracts
          PROVE  contracts[k].remaining \in Nat /\ contracts[k].price \in Positive
      BY <2>1, RowsOfTable, ContractFields DEF Typed
    <3>2. \A n \in Positive : n > 0
      BY DEF Positive
    <3> QED
      BY <3>1, <3>2
  <2>4. \A o \in DOMAIN orders : orders[o].remaining \in 0 .. orders[o].quantity
    <3>1. ASSUME NEW o \in DOMAIN orders
          PROVE  orders[o].remaining \in Nat /\ orders[o].quantity \in Nat
      BY <2>1, RowsOfTable, BookFields DEF Typed, Positive
    <3>2. \A o \in DOMAIN orders : orders[o].remaining <= orders[o].quantity
      BY <2>1 DEF OrdersSound, OrderSound
    <3> QED
      BY <3>1, <3>2
  <2>5. \A j \in DOMAIN jobs : jobs[j].status \in {"IN_PROGRESS", "CANCELLED", "COMPLETED"}
    <3>1. ASSUME NEW j \in DOMAIN jobs PROVE jobs[j] \in JobRow
      BY <2>1, RowsOfTable DEF Typed
    <3> QED
      BY <3>1 DEF JobRow
  <2>6. stage \in {Pipeline[k] : k \in DOMAIN Pipeline} \cup {"idle"}
    <3>1. Stages \subseteq {Pipeline[k] : k \in DOMAIN Pipeline}
      BY PipelineIs DEF Stages
    <3> QED
      BY <2>1, <3>1 DEF Staged
  <2>7. /\ cash \in [Companies -> [cash : Nat, reserved : Nat]]
        /\ stock \in [Companies -> [Items -> [quantity : Nat, reserved : Nat]]]
        /\ depot \in [Companies -> [Items -> Nat]]
        /\ research \in [Companies -> [Nodes -> {"NONE", "AVAILABLE", "LOCKED", "RESEARCHING",
                                                 "COMPLETED"}]]
    BY <2>1 DEF Typed, CashRows, StockRows, DepotRows, ResearchRows
  <2> QED
    BY ONLY <2>2, <2>3, <2>4, <2>5, <2>6, <2>7 DEF EconomyTypeOK
<1> QED
  BY <1>1, EconomySound, PTL

\* Contracts are fulfilled exactly when nothing remains of them, and have a
\* seller from their acceptance on.
THEOREM ContractsKept == EconomySpec => []ContractsAreKept
<1>1. SoundInv => ContractsAreKept
  BY RowsSound DEF SoundInv, RowsHold, ContractsAreKept, ContractsSound, ContractSound
<1> QED
  BY <1>1, EconomySound, PTL

\* The ledger explains every balance and every reserve of the economy, whatever
\* ticks charge, pay or roll back.
THEOREM EconomyLedgerExplains == EconomySpec => []LedgerExplainsCash
<1>1. SoundInv => LedgerExplainsCash
  BY RowsSound DEF SoundInv, RowsHold
<1> QED
  BY <1>1, EconomySound, PTL

\* What all orders of a company hold is what its open ones hold.
LEMMA OpenOrdersHold ==
    ASSUME Typed, OrdersSound, NEW c, NEW i
    PROVE  /\ SumFunctionOnSet([o \in DOMAIN orders |-> orders[o].reservedCash], OpenOrdersOf(c))
                 = CashFor(orders, c)
           /\ SumFunctionOnSet([o \in DOMAIN orders |-> orders[o].reservedQuantity],
                               {o \in OpenOrdersOf(c) : orders[o].item = i})
                 = StockFor(orders, c, i)
<1> DEFINE D == DOMAIN orders
           f == [o \in D |-> orders[o].reservedCash]
           g == [o \in D |-> orders[o].reservedQuantity]
           T == OpenOrdersOf(c)
           U == {o \in T : orders[o].item = i}
<1>1. IsFiniteSet(D) /\ \A o \in D : orders[o] \in BookRow
  BY RowsOfTable DEF Typed
<1>2. \A o \in D : /\ orders[o].reservedCash \in Nat /\ orders[o].reservedQuantity \in Nat
                   /\ orders[o].status # "OPEN" =>
                         orders[o].reservedCash = 0 /\ orders[o].reservedQuantity = 0
  <2> SUFFICES ASSUME NEW o \in D
               PROVE  /\ orders[o].reservedCash \in Nat /\ orders[o].reservedQuantity \in Nat
                      /\ orders[o].status # "OPEN" =>
                            orders[o].reservedCash = 0 /\ orders[o].reservedQuantity = 0
    OBVIOUS
  <2>1. orders[o].reservedCash \in Nat /\ orders[o].reservedQuantity \in Nat
        /\ orders[o].price \in Positive
    BY <1>1, BookFields
  <2>2. Trading!HonestOrder(orders[o])
    BY DEF OrdersSound, OrderSound
  <2>3. 0 * orders[o].price = 0
    BY <2>1 DEF Positive
  <2> QED
    BY <2>1, <2>2, <2>3 DEF Trading!HonestOrder
<1>3. T \in SUBSET D /\ U \in SUBSET D
  BY DEF OpenOrdersOf
<1>8. \A o \in D : f[o] = orders[o].reservedCash /\ f[o] \in Int /\ g[o] \in Int
  BY <1>2
<1>4. /\ \A o \in T : f[o] \in Int /\ Trading!CashHeld(orders, c)[o] = f[o]
      /\ \A o \in D \ T : Trading!CashHeld(orders, c)[o] = 0
  BY <1>2 DEF OpenOrdersOf, Trading!CashHeld
<1>5. /\ \A o \in U : g[o] \in Int /\ Trading!StockHeld(orders, c, i)[o] = g[o]
      /\ \A o \in D \ U : Trading!StockHeld(orders, c, i)[o] = 0
  BY <1>2 DEF OpenOrdersOf, Trading!StockHeld
<1>6. CashFor(orders, c) = SumFunctionOnSet(f, T)
  <2> HIDE DEF f, T
  <2> QED
    BY <1>1, <1>3, <1>4, SumOverPart DEF CashFor
<1>7. StockFor(orders, c, i) = SumFunctionOnSet(g, U)
  <2> HIDE DEF g, U
  <2> QED
    BY <1>1, <1>3, <1>5, SumOverPart DEF StockFor
<1> QED
  BY <1>6, <1>7

\* The cash companies have reserved is what their open buy orders hold.
THEOREM CashReserved == EconomySpec => []CashIsReservedFor
<1>1. SoundInv => CashIsReservedFor
  <2> SUFFICES ASSUME SoundInv, NEW c \in Companies
               PROVE  cash[c].reserved =
                        SumFunctionOnSet([o \in DOMAIN orders |-> orders[o].reservedCash],
                                         OpenOrdersOf(c))
    BY DEF CashIsReservedFor
  <2>1. Typed /\ OrdersSound /\ CashBacked
    BY RowsSound DEF SoundInv, RowsHold
  <2>2. cash[c].reserved = CashFor(orders, c)
    BY <2>1 DEF CashBacked
  <2>3. SumFunctionOnSet([o \in DOMAIN orders |-> orders[o].reservedCash], OpenOrdersOf(c))
           = CashFor(orders, c)
    BY <2>1, OpenOrdersHold
  <2> QED
    BY <2>2, <2>3
<1> QED
  BY <1>1, EconomySound, PTL


-----------------------------------------------------------------------------
(* What was due has been done when a tick is committed.                    *)

\* Each table is changed by the moves of its own part only.
LEMMA MoveLeaves ==
    ASSUME Move
    PROVE  /\ BuildingMove \/ buildings' = buildings
           /\ PeopleMove \/ UNCHANGED people
           /\ ScienceMove \/ UNCHANGED science
           /\ JobMove \/ jobs' = jobs
           /\ ShipmentMove \/ shipments' = shipments
           /\ ContractMove \/ contracts' = contracts
           /\ CandleMove \/ candles' = candles
<1>1. CASE OrderMove \/ WithdrawMove \/ SettleMove
  BY <1>1 DEF OrderMove, WithdrawMove, SettleMove, OfOrders
<1>2. CASE BuildingMove
  BY <1>2 DEF BuildingMove, OfBuildings
<1>3. CASE PeopleMove
  BY <1>3 DEF PeopleMove, OfPeople
<1>4. CASE ScienceMove
  BY <1>4 DEF ScienceMove, OfScience
<1>5. CASE JobMove
  BY <1>5 DEF JobMove, OfJobs
<1>6. CASE ShipmentMove
  BY <1>6 DEF ShipmentMove, OfShipments
<1>7. CASE ContractMove
  BY <1>7 DEF ContractMove, OfContracts
<1>8. CASE ConsumeMove
  BY <1>8 DEF ConsumeMove, OfContracts
<1>9. CASE CandleMove
  BY <1>9 DEF CandleMove, OfCandles
<1> QED
  BY <1>1, <1>2, <1>3, <1>4, <1>5, <1>6, <1>7, <1>8, <1>9 DEF Move

JobsTimely(rows, t) == \A j \in DOMAIN rows : rows[j].status = "IN_PROGRESS" => rows[j].due > t
LabsTimely(rows, t) == \A j \in DOMAIN rows : rows[j].status = "RUNNING" => rows[j].completes > t
HiresTimely(rows, t) == \A h \in DOMAIN rows : rows[h].applied = 0 => rows[h].arrives > t
ContractsTimely(rows, t) == \A k \in DOMAIN rows : rows[k].status \in Live => rows[k].expires > t
BuildingsTimely(rows, t) ==
    \A b \in DOMAIN rows : rows[b].status = "ACTIVE" => rows[b].paid > t - CostInterval

Timely(r, t) ==
    /\ JobsTimely(r.jobs, t) /\ LabsTimely(r.labs, t) /\ HiresTimely(r.hires, t)
    /\ ContractsTimely(r.contracts, t) /\ BuildingsTimely(r.buildings, t)

\* New jobs are due later, and others only change their state to a final one.
LEMMA JobsStayTimely ==
    ASSUME Typed, clock \in Nat, JobsTimely(jobs, clock), JobMove
    PROVE  JobsTimely(jobs', clock)
<1>1. ASSUME NEW c \in Companies, NEW r \in Recipes, NEW runs \in Positive, NEW tick \in Nat,
             tick >= clock, StartJob(c, r, runs, tick)
      PROVE  JobsTimely(jobs', clock)
  <2> DEFINE row == [company |-> c, recipe |-> r, runs |-> runs, status |-> "IN_PROGRESS",
                     due |-> tick + ProductionTicks(c, RecipeTicks[r])]
  <2>1. row \in JobRow /\ row.due > tick /\ jobs' = Append(jobs, row)
    BY <1>1, StartJobDoes
  <2>2. row.due \in Nat
    BY <2>1, JobFields
  <2> HIDE DEF row
  <2>3. row.due > clock
    BY <1>1, <2>1, <2>2
  <2>4. /\ DOMAIN jobs' = (DOMAIN jobs) \cup {Len(jobs) + 1}
        /\ \A j \in DOMAIN jobs : jobs'[j] = jobs[j]
        /\ jobs'[Len(jobs) + 1] = row
    BY <2>1, RowAdded DEF Typed
  <2> QED
    BY <2>3, <2>4 DEF JobsTimely
<1>2. ASSUME NEW j \in DOMAIN jobs, NEW status \in {"CANCELLED", "COMPLETED"},
             jobs' = [jobs EXCEPT ![j].status = status]
      PROVE  JobsTimely(jobs', clock)
  <2>1. /\ DOMAIN jobs' = DOMAIN jobs /\ \A k \in DOMAIN jobs : k # j => jobs'[k] = jobs[k]
        /\ jobs'[j].status = status
    BY <1>2, JobWritten
  <2> QED
    BY <2>1 DEF JobsTimely
<1>3. ThisTick \in Nat /\ ThisTick >= clock /\ clock >= clock
  BY DEF ThisTick
<1>4. \/ \E c \in Companies, r \in Recipes, runs \in Positive, tick \in {clock, ThisTick} :
             StartJob(c, r, runs, tick)
      \/ \E j \in DOMAIN jobs : CancelJob(j) \/ CompleteJob(j)
  BY DEF JobMove, OfJobs
<1>5. CASE \E j \in DOMAIN jobs : CancelJob(j) \/ CompleteJob(j)
  BY <1>2, <1>5 DEF CancelJob, CompleteJob
<1> QED
  BY <1>1, <1>3, <1>4, <1>5

\* So is new research.
LEMMA LabsStayTimely ==
    ASSUME Typed, clock \in Nat, LabsTimely(labs, clock), ScienceMove
    PROVE  LabsTimely(labs', clock)
<1>1. ASSUME NEW c \in Companies, NEW n \in Nodes, StartResearch(c, n)
      PROVE  LabsTimely(labs', clock)
  <2> DEFINE row == [company |-> c, node |-> n, status |-> "RUNNING",
                     completes |-> clock + ResearchTicks(c, ResearchDuration[n])]
  <2>1. row \in LabRow /\ row.completes > clock /\ labs' = Append(labs, row)
    BY <1>1, StartResearchDoes
  <2> HIDE DEF row
  <2>4. /\ DOMAIN labs' = (DOMAIN labs) \cup {Len(labs) + 1}
        /\ \A j \in DOMAIN labs : labs'[j] = labs[j]
        /\ labs'[Len(labs) + 1] = row
    BY <2>1, RowAdded DEF Typed
  <2> QED
    BY <2>1, <2>4 DEF LabsTimely
<1>2. ASSUME NEW j \in DOMAIN labs, NEW status \in {"CANCELLED", "COMPLETED"},
             labs' = [labs EXCEPT ![j].status = status]
      PROVE  LabsTimely(labs', clock)
  <2>1. /\ DOMAIN labs' = DOMAIN labs /\ \A k \in DOMAIN labs : k # j => labs'[k] = labs[k]
        /\ labs'[j].status = status
    BY <1>2, LabWritten
  <2> QED
    BY <2>1 DEF LabsTimely
<1>3. ASSUME NEW c \in Companies, NEW n \in Nodes, CancelResearch(c, n)
      PROVE  LabsTimely(labs', clock)
  <2>1. \E j \in Running(c, n) : labs' = [labs EXCEPT ![j].status = "CANCELLED"]
    BY <1>3, CancelResearchDoes
  <2>2. Running(c, n) \subseteq DOMAIN labs
    BY DEF Running
  <2> QED
    BY <1>2, <2>1, <2>2
<1>4. ASSUME NEW j \in DOMAIN labs, CompleteResearch(j)
      PROVE  LabsTimely(labs', clock)
  <2>1. labs' = [labs EXCEPT ![j].status = "COMPLETED"]
    BY <1>4, CompleteResearchDoes
  <2> QED
    BY <1>2, <2>1
<1> QED
  BY <1>1, <1>3, <1>4 DEF ScienceMove, OfScience

\* People hired arrive later, and those who have arrived are marked.
LEMMA HiresStayTimely ==
    ASSUME Typed, clock \in Nat, HiresTimely(hires, clock), PeopleMove
    PROVE  HiresTimely(hires', clock)
<1>1. ASSUME NEW c \in Companies, NEW n \in Positive, Hire(c, n)
      PROVE  HiresTimely(hires', clock)
  <2> DEFINE row == [company |-> c, delta |-> n, applied |-> 0,
                     arrives |-> clock + Config.hiringDelay]
  <2>1. row \in HireRow /\ row.arrives > clock /\ hires' = Append(hires, row)
    BY <1>1, HireDoes
  <2> HIDE DEF row
  <2>4. /\ DOMAIN hires' = (DOMAIN hires) \cup {Len(hires) + 1}
        /\ \A j \in DOMAIN hires : hires'[j] = hires[j]
        /\ hires'[Len(hires) + 1] = row
    BY <2>1, RowAdded DEF Typed
  <2> QED
    BY <2>1, <2>4 DEF HiresTimely
<1>2. ASSUME NEW h \in DOMAIN hires, Arrive(h)
      PROVE  HiresTimely(hires', clock)
  <2>1. /\ DOMAIN hires' = DOMAIN hires /\ \A k \in DOMAIN hires \ {h} : hires'[k] = hires[k]
        /\ hires'[h].applied = ThisTick /\ ThisTick # 0
    BY <1>2, ArriveDoes DEF ThisTick
  <2> QED
    BY <2>1 DEF HiresTimely
<1>3. \/ \E c \in Companies, n \in Positive : Hire(c, n)
      \/ \E h \in DOMAIN hires : Arrive(h)
      \/ hires' = hires
  BY DEF PeopleMove, OfPeople, SetAllocation, LayOff, PaySalary
<1> QED
  BY <1>1, <1>2, <1>3

\* What is charged or reactivated has been paid for now.
LEMMA BuildingsStayTimely ==
    ASSUME Typed, clock \in Nat, BuildingsTimely(buildings, clock), BuildingMove
    PROVE  BuildingsTimely(buildings', clock)
<1>1. CostInterval \in Nat /\ CostInterval > 0 /\ ThisTick = clock + 1
  BY BuildingsAssumption DEF ThisTick
<1>2. clock > clock - CostInterval /\ ThisTick > clock - CostInterval
  BY <1>1
<1>3. ASSUME NEW c \in Companies, NEW type \in BuildingTypes, NEW region \in {"home", "away"},
             AcquireBuilding(c, type, region)
      PROVE  BuildingsTimely(buildings', clock)
  <2> DEFINE row == Building(c, type, region)
  <2>1. row \in BuildingRow /\ row.paid = clock /\ buildings' = Append(buildings, row)
    BY <1>3, AcquireBuildingDoes
  <2> HIDE DEF row
  <2>4. /\ DOMAIN buildings' = (DOMAIN buildings) \cup {Len(buildings) + 1}
        /\ \A j \in DOMAIN buildings : buildings'[j] = buildings[j]
        /\ buildings'[Len(buildings) + 1] = row
    BY <2>1, RowAdded DEF Typed
  <2> QED
    BY <1>2, <2>1, <2>4 DEF BuildingsTimely
<1>4. ASSUME NEW b \in DOMAIN buildings, ReactivateBuilding(b)
      PROVE  BuildingsTimely(buildings', clock)
  <2> DEFINE row == [buildings[b] EXCEPT !.status = "ACTIVE", !.paid = clock]
  <2>1. row \in BuildingRow /\ row.paid = clock /\ buildings' = [buildings EXCEPT ![b] = row]
    BY <1>4, ReactivateBuildingDoes
  <2> HIDE DEF row
  <2>2. /\ DOMAIN buildings' = DOMAIN buildings
        /\ \A j \in DOMAIN buildings : buildings'[j] = IF j = b THEN row ELSE buildings[j]
    BY <2>1, RowReplaced DEF Typed
  <2> QED
    BY <1>2, <2>1, <2>2 DEF BuildingsTimely
<1>5. ASSUME NEW b \in DOMAIN buildings, ChargeBuilding(b)
      PROVE  BuildingsTimely(buildings', clock)
  <2>1. /\ DOMAIN buildings' = DOMAIN buildings
        /\ \A k \in DOMAIN buildings \ {b} : buildings'[k] = buildings[k]
        /\ buildings'[b].paid = ThisTick
    BY <1>5, ChargeBuildingDoes
  <2> QED
    BY <1>2, <2>1 DEF BuildingsTimely
<1>6. \/ \E c \in Companies, type \in BuildingTypes, region \in {"home", "away"} :
             AcquireBuilding(c, type, region)
      \/ \E b \in DOMAIN buildings : ReactivateBuilding(b) \/ ChargeBuilding(b)
      \/ buildings' = buildings
  BY DEF BuildingMove, OfBuildings
<1> QED
  BY <1>3, <1>4, <1>5, <1>6


\* Contracts are offered for later ticks, and otherwise keep their time.
LEMMA ContractsStayTimely ==
    ASSUME Typed, clock \in Nat, ContractsSound, ContractsTimely(contracts, clock), ContractMove
    PROVE  ContractsTimely(contracts', clock)
<1>1. ASSUME NEW k \in DOMAIN contracts, NEW row \in ContractRow,
             contracts' = [contracts EXCEPT ![k] = row],
             contracts[k].status \in Live, row.expires = contracts[k].expires
      PROVE  ContractsTimely(contracts', clock)
  <2>1. /\ DOMAIN contracts' = DOMAIN contracts
        /\ \A j \in DOMAIN contracts : contracts'[j] = IF j = k THEN row ELSE contracts[j]
    BY <1>1, ContractWritten
  <2> QED
    BY <1>1, <2>1 DEF ContractsTimely
<1>2. ASSUME NEW k \in DOMAIN contracts, NEW c \in Players, AcceptContract(c, k)
      PROVE  ContractsTimely(contracts', clock)
  <2>1. /\ contracts[k].status = "OPEN"
        /\ \E row \in ContractRow :
              row.expires = contracts[k].expires /\ contracts' = [contracts EXCEPT ![k] = row]
    BY <1>2, AcceptContractDoes
  <2> QED
    BY <1>1, <2>1 DEF Live
<1>3. ASSUME NEW k \in DOMAIN contracts, NEW n \in Positive, FulfillContract(k, n)
      PROVE  ContractsTimely(contracts', clock)
  <2> DEFINE it == contracts[k]
             row == [it EXCEPT !.remaining = it.remaining - n, !.status = StatusAfter(it, n)]
  <2>1. it.status \in {"ACCEPTED", "PARTIALLY_FULFILLED"}
    BY <1>3 DEF FulfillContract
  <2>2. it.seller \in Players
    BY <2>1 DEF ContractsSound, ContractSound
  <2>3. row \in ContractRow /\ row.expires = it.expires /\ contracts' = [contracts EXCEPT ![k] = row]
    BY <1>3, <2>2, FulfillContractDoes
  <2> HIDE DEF row
  <2> QED
    BY <1>1, <2>1, <2>3 DEF Live
<1>4. ASSUME ExpireContracts
      PROVE  ContractsTimely(contracts', clock)
  <2>1. /\ DOMAIN contracts' = DOMAIN contracts
        /\ \A k \in DOMAIN contracts :
              LET it == contracts[k]
                  row == [it EXCEPT !.status = "EXPIRED"]
              IN
              /\ contracts'[k] = IF it.status \in Live /\ it.expires <= ThisTick THEN row ELSE it
              /\ row.status = "EXPIRED"
    BY <1>4, ExpireContractsDoes
  <2>2. ASSUME NEW k \in DOMAIN contracts, contracts'[k].status \in Live
        PROVE  contracts'[k].expires > clock
    <3> DEFINE it == contracts[k]
               row == [it EXCEPT !.status = "EXPIRED"]
    <3>1. contracts'[k] = IF it.status \in Live /\ it.expires <= ThisTick THEN row ELSE it
      BY <2>1
    <3>2. row.status = "EXPIRED"
      BY <2>1
    <3> HIDE DEF row
    <3>3. contracts'[k] = it
      BY <2>2, <3>1, <3>2 DEF Live
    <3> QED
      BY <2>2, <3>3 DEF ContractsTimely
  <2> QED
    BY <2>1, <2>2 DEF ContractsTimely
<1>5. ASSUME NEW k \in Nat, Items # {}, Npcs # {}, OfferContract(k)
      PROVE  ContractsTimely(contracts', clock)
  <2>1. CASE contracts' = contracts
    BY <2>1
  <2>2. CASE \E row \in ContractRow :
                row.expires > ThisTick /\ contracts' = Append(contracts, row)
    <3>1. PICK row \in ContractRow : row.expires > ThisTick /\ contracts' = Append(contracts, row)
      BY <2>2
    <3>2. /\ DOMAIN contracts' = (DOMAIN contracts) \cup {Len(contracts) + 1}
          /\ \A j \in DOMAIN contracts : contracts'[j] = contracts[j]
          /\ contracts'[Len(contracts) + 1] = row
      BY <3>1, RowAdded DEF Typed
    <3>3. row.expires > clock
      BY <3>1, ContractFields DEF ThisTick
    <3> QED
      BY <3>2, <3>3 DEF ContractsTimely
  <2> QED
    BY <1>5, <2>1, <2>2, OfferContractDoes
<1>6. \/ \E k \in DOMAIN contracts, c \in Players : AcceptContract(c, k)
      \/ \E k \in DOMAIN contracts, n \in Positive : FulfillContract(k, n)
      \/ ExpireContracts
      \/ \E k \in Nat : Items # {} /\ Npcs # {} /\ OfferContract(k)
  BY DEF ContractMove, OfContracts
<1> QED
  BY <1>2, <1>3, <1>4, <1>5, <1>6

\* Every move keeps the rows ahead of the clock.
LEMMA MoveTimely ==
    ASSUME Typed, clock \in Nat, ContractsSound, Timely(Rows, clock), Move
    PROVE  Timely(Rows', clock)
<1>1. /\ JobsTimely(jobs, clock) /\ LabsTimely(labs, clock) /\ HiresTimely(hires, clock)
      /\ ContractsTimely(contracts, clock) /\ BuildingsTimely(buildings, clock)
  BY DEF Timely, Rows
<1>2. JobsTimely(jobs', clock)
  BY <1>1, MoveLeaves, JobsStayTimely
<1>3. LabsTimely(labs', clock)
  BY <1>1, MoveLeaves, LabsStayTimely DEF science
<1>4. HiresTimely(hires', clock)
  BY <1>1, MoveLeaves, HiresStayTimely DEF people
<1>5. ContractsTimely(contracts', clock)
  BY <1>1, MoveLeaves, ContractsStayTimely
<1>6. BuildingsTimely(buildings', clock)
  BY <1>1, MoveLeaves, BuildingsStayTimely
<1>7. /\ Rows'.jobs = jobs' /\ Rows'.labs = labs' /\ Rows'.hires = hires'
      /\ Rows'.contracts = contracts' /\ Rows'.buildings = buildings'
  BY DEF Rows
<1> QED
  BY <1>2, <1>3, <1>4, <1>5, <1>6, <1>7 DEF Timely

\* When the last stage is over nothing is due in this tick any more.
LEMMA CommitTimely ==
    ASSUME Typed, clock \in Nat, stage = "candles", NothingLeft
    PROVE  Timely(Rows, ThisTick)
<1>1. ToCharge = {} /\ ToFinish = {} /\ ToPublish = {} /\ ToWelcome = {} /\ NoneExpired
  BY DEF NothingLeft, AfterCosts, AfterProduction, AfterResearch, AfterArrivals, AfterExpire
<1>2. ThisTick \in Nat /\ CostInterval \in Nat
  BY BuildingsAssumption DEF ThisTick
<1>3. JobsTimely(jobs, ThisTick)
  <2> SUFFICES ASSUME NEW j \in DOMAIN jobs, jobs[j].status = "IN_PROGRESS"
               PROVE  jobs[j].due > ThisTick
    BY DEF JobsTimely
  <2>1. jobs[j].due \in Nat
    BY RowsOfTable, JobFields DEF Typed
  <2>2. ~(jobs[j].due <= ThisTick)
    BY <1>1 DEF ToFinish
  <2> QED
    BY <1>2, <2>1, <2>2
<1>4. LabsTimely(labs, ThisTick)
  <2> SUFFICES ASSUME NEW j \in DOMAIN labs, labs[j].status = "RUNNING"
               PROVE  labs[j].completes > ThisTick
    BY DEF LabsTimely
  <2>1. labs[j].completes \in Nat
    BY RowsOfTable, LabFields DEF Typed
  <2>2. ~(labs[j].completes <= ThisTick)
    BY <1>1 DEF ToPublish
  <2> QED
    BY <1>2, <2>1, <2>2
<1>5. HiresTimely(hires, ThisTick)
  <2> SUFFICES ASSUME NEW h \in DOMAIN hires, hires[h].applied = 0
               PROVE  hires[h].arrives > ThisTick
    BY DEF HiresTimely
  <2>1. hires[h] \in HireRow
    BY RowsOfTable DEF Typed
  <2>2. hires[h].arrives \in Nat
    BY <2>1 DEF HireRow
  <2>3. ~(hires[h].arrives <= ThisTick)
    BY <1>1 DEF ToWelcome
  <2> QED
    BY <1>2, <2>2, <2>3
<1>6. ContractsTimely(contracts, ThisTick)
  BY <1>1 DEF ContractsTimely, NoneExpired
<1>7. BuildingsTimely(buildings, ThisTick)
  <2> SUFFICES ASSUME NEW b \in DOMAIN buildings, buildings[b].status = "ACTIVE"
               PROVE  buildings[b].paid > ThisTick - CostInterval
    BY DEF BuildingsTimely
  <2>1. buildings[b].paid \in Nat
    BY RowsOfTable, BuildingFields DEF Typed
  <2>2. ~(buildings[b].paid <= ThisTick - CostInterval)
    BY <1>1 DEF ToCharge
  <2> QED
    BY <1>2, <2>1, <2>2
<1> QED
  BY <1>3, <1>4, <1>5, <1>6, <1>7 DEF Timely, Rows

TimelyInv ==
    /\ ~Ticking => Timely(Rows, clock)
    /\ Ticking => Timely(saved, clock)

\* Every step keeps the committed rows ahead of the clock.
LEMMA TimelyStep ==
    ASSUME SoundInv, TimelyInv, EconomyNext \/ UNCHANGED economyVars
    PROVE  TimelyInv'
<1>1. /\ clock \in Nat /\ Staged /\ NothingLeft /\ Typed /\ ContractsSound
      /\ (Ticking => saved \in SoundRows)
  BY RowsSound DEF SoundInv, RowsHold
<1>2. ASSUME UNCHANGED <<allRows, clock, saved>> PROVE TimelyInv'
  BY <1>2, RowsAreKept DEF TimelyInv, Ticking
<1>3. CASE Requests
  <2>1. ~Ticking /\ ~Ticking' /\ clock' = clock /\ Move
    BY <1>1, <1>3, RequestMoves DEF Ticking
  <2>2. Timely(Rows', clock)
    BY <1>1, <2>1, MoveTimely DEF TimelyInv
  <2> QED
    BY <2>1, <2>2 DEF TimelyInv
<1>4. CASE BeginTick
  <2>1. ~Ticking /\ saved' = Rows /\ UNCHANGED allRows /\ clock' = clock
    BY <1>4 DEF BeginTick
  <2>2. Ticking'
    BY <2>1, RowsAreNotNoTick DEF Ticking
  <2> QED
    BY <2>1, <2>2 DEF TimelyInv
<1>5. CASE TickRound
  <2>1. Ticking /\ clock' = clock /\ saved' = saved
    BY <1>1, <1>5, RoundMoves
  <2> QED
    BY <2>1 DEF TimelyInv, Ticking
<1>6. CASE NextStage
  BY <1>2, <1>6 DEF NextStage
<1>7. CASE CommitTick
  <2>1. Ticking /\ clock' = ThisTick /\ saved' = NoTick /\ UNCHANGED allRows
    BY <1>7 DEF CommitTick
  <2>2. stage \in Stages
    BY <1>1, <2>1 DEF Staged
  <2>3. stage = "candles"
    BY <1>7, <2>2, CommitIsLast
  <2>4. Timely(Rows, ThisTick)
    BY <1>1, <2>3, CommitTimely
  <2> QED
    BY <2>1, <2>4, RowsAreKept DEF TimelyInv, Ticking
<1>8. CASE TickThrows
  <2>1. Ticking /\ saved \in AllRows
    BY <1>1, <1>8 DEF TickThrows, SoundRows
  <2>2. Rows' = saved /\ saved' = NoTick /\ clock' = clock
    BY <1>8, <2>1, RowsSame DEF TickThrows
  <2> QED
    BY <2>1, <2>2 DEF TimelyInv, Ticking
<1>9. CASE BoundsReached \/ UNCHANGED economyVars
  BY <1>2, <1>9 DEF BoundsReached, economyVars
<1> QED
  BY <1>3, <1>4, <1>5, <1>6, <1>7, <1>8, <1>9 DEF EconomyNext, Advance

\* Nothing is due at the start.
LEMMA TimelyStart ==
    ASSUME EconomyInit
    PROVE  TimelyInv
<1>1. /\ clock = 0 /\ saved = NoTick /\ hires = <<>> /\ labs = <<>> /\ jobs = <<>>
      /\ contracts = <<>> /\ buildings = StartBuildings
  BY DEF EconomyInit, RowsInit, BuildingsInit, WorkforceInit, ResearchInit
<1>2. DOMAIN <<>> = {}
  OBVIOUS
<1>3. BuildingsTimely(buildings, clock)
  <2> SUFFICES ASSUME NEW b \in DOMAIN buildings PROVE buildings[b].paid > 0 - CostInterval
    BY <1>1 DEF BuildingsTimely
  <2>1. Typed
    BY SoundStart, RowsSound DEF SoundInv, RowsHold
  <2>2. buildings[b].paid \in Nat
    BY <2>1, RowsOfTable, BuildingFields DEF Typed
  <2>3. CostInterval \in Nat /\ CostInterval > 0
    BY BuildingsAssumption
  <2> QED
    BY <2>2, <2>3
<1>4. Timely(Rows, clock)
  BY <1>1, <1>2, <1>3 DEF Timely, Rows, JobsTimely, LabsTimely, HiresTimely, ContractsTimely
<1> QED
  BY <1>1, <1>4 DEF TimelyInv, Ticking

\* After a committed tick no job, research, arrival, contract or payment that
\* was due by it is left over.
THEOREM DueWorkIsDone == EconomySpec => []NothingOverdue
<1>1. EconomyInit => TimelyInv
  BY TimelyStart
<1>2. SoundInv /\ TimelyInv /\ [EconomyNext]_economyVars => TimelyInv'
  BY TimelyStep
<1>3. SoundInv /\ TimelyInv => NothingOverdue
  <2> SUFFICES ASSUME SoundInv, TimelyInv, ~Ticking PROVE NothingOverdue
    BY DEF NothingOverdue
  <2>1. Timely(Rows, clock) /\ clock \in Nat /\ Typed
    BY RowsSound DEF TimelyInv, SoundInv, RowsHold
  <2>2. /\ JobsTimely(jobs, clock) /\ LabsTimely(labs, clock) /\ HiresTimely(hires, clock)
        /\ ContractsTimely(contracts, clock) /\ BuildingsTimely(buildings, clock)
    BY <2>1 DEF Timely, Rows
  <2>3. \A k \in DOMAIN contracts : contracts[k].status \in Live => ~Expired(k)
    <3>1. \A k \in DOMAIN contracts : contracts[k].expires \in Nat
      BY <2>1, RowsOfTable, ContractFields DEF Typed
    <3> QED
      BY <2>1, <2>2, <3>1 DEF ContractsTimely, Expired
  <2> QED
    BY <2>2, <2>3
       DEF NothingOverdue, JobsTimely, LabsTimely, HiresTimely, BuildingsTimely
<1> QED
  BY <1>1, <1>2, <1>3, EconomySound, PTL DEF EconomySpec


-----------------------------------------------------------------------------
(* Stock: orders and running jobs hold what is reserved, and it is there.  *)

StockBacked ==
    \A c \in Companies, i \in Items :
        /\ stock[c][i].reserved = StockFor(orders, c, i) + JobsHold(jobs, c, i)
        /\ stock[c][i].reserved <= stock[c][i].quantity

\* Stock that leaves was free.
OnlyFreeTaken ==
    \A c \in Companies, i \in Items :
        /\ stock'[c][i].reserved = stock[c][i].reserved
        /\ stock[c][i].reserved <= stock[c][i].quantity
              => stock[c][i].reserved <= stock'[c][i].quantity

\* A change of one quantity that takes no more than is free.
LEMMA FreeStocked ==
    ASSUME Typed, NEW c \in Companies, NEW i \in Items, NEW q \in Int, Stocked(c, i, q, 0),
           q >= 0 \/ -q <= stock[c][i].quantity - stock[c][i].reserved
    PROVE  OnlyFreeTaken
<1>1. \A d \in Companies, j \in Items :
         stock[d][j].quantity \in Nat /\ stock[d][j].reserved \in Nat
  BY TypedBalances
<1> SUFFICES ASSUME NEW d \in Companies, NEW j \in Items
             PROVE  /\ stock'[d][j].reserved = stock[d][j].reserved
                    /\ stock[d][j].reserved <= stock[d][j].quantity
                          => stock[d][j].reserved <= stock'[d][j].quantity
  BY DEF OnlyFreeTaken
<1>2. /\ stock'[d][j].quantity = stock[d][j].quantity + (IF d = c /\ j = i THEN q ELSE 0)
      /\ stock'[d][j].reserved = stock[d][j].reserved + (IF d = c /\ j = i THEN 0 ELSE 0)
  BY DEF Stocked
<1>3. CASE d = c /\ j = i
  BY <1>1, <1>2, <1>3
<1>4. CASE ~(d = c /\ j = i)
  BY <1>1, <1>2, <1>4
<1> QED
  BY <1>3, <1>4

\* Nothing is taken.
LEMMA StockUntouched ==
    ASSUME stock' = stock
    PROVE  OnlyFreeTaken
BY DEF OnlyFreeTaken

\* Moves other than those of orders and jobs take only what is free.
LEMMA OthersTakeFree ==
    ASSUME Typed, clock \in Nat, ContractsSound, Move
    PROVE  \/ OrderMove \/ WithdrawMove \/ SettleMove \/ JobMove
           \/ orders' = orders /\ jobs' = jobs /\ OnlyFreeTaken
<1>1. CASE BuildingMove
  <2>1. stock' = stock /\ orders' = orders /\ jobs' = jobs
    BY <1>1 DEF BuildingMove, OfBuildings, AcquireBuilding, ReactivateBuilding, ChargeBuilding,
                IssueRefund, Tables
  <2> QED
    BY <2>1, StockUntouched
<1>2. CASE PeopleMove
  <2>1. stock' = stock /\ orders' = orders /\ jobs' = jobs
    BY <1>2 DEF PeopleMove, OfPeople, SetAllocation, LayOff, Hire, Arrive, PaySalary, Tables
  <2> QED
    BY <2>1, StockUntouched
<1>3. CASE ScienceMove
  <2>1. stock' = stock /\ orders' = orders /\ jobs' = jobs
    BY <1>3 DEF ScienceMove, OfScience, StartResearch, CancelResearch, CompleteResearch, Tables
  <2> QED
    BY <2>1, StockUntouched
<1>4. CASE ShipmentMove
  <2> SUFFICES OnlyFreeTaken
    BY <1>4 DEF ShipmentMove, OfShipments
  <2>1. ASSUME NEW c \in Companies, NEW i \in Items, NEW n \in Positive, CreateShipment(c, i, n)
        PROVE  OnlyFreeTaken
    <3>1. n <= stock[c][i].quantity - stock[c][i].reserved /\ Stocked(c, i, -n, 0)
      BY <2>1, CreateShipmentDoes
    <3>2. -n \in Int /\ -(-n) = n
      BY DEF Positive
    <3> QED
      BY <3>1, <3>2, FreeStocked
  <2>2. ASSUME NEW s \in DOMAIN shipments, CancelShipment(s)
        PROVE  OnlyFreeTaken
    <3> DEFINE it == shipments[s]
    <3>1. it \in ShipmentRow /\ Stocked(it.company, it.item, it.quantity, 0)
      BY <2>2, CancelShipmentDoes
    <3>2. /\ it.company \in Companies /\ it.item \in Items /\ it.quantity \in Int
          /\ it.quantity >= 0
      BY <3>1, ShipmentFields DEF Positive
    <3> HIDE DEF it
    <3> QED
      BY <3>1, <3>2, FreeStocked
  <2>3. ASSUME NEW s \in DOMAIN shipments, Deliver(s)
        PROVE  OnlyFreeTaken
    <3> DEFINE it == shipments[s]
    <3>1. /\ it \in ShipmentRow
          /\ stock' = stock \/ Stocked(it.company, it.item, it.quantity, 0)
      BY <2>3, DeliverDoes
    <3>2. /\ it.company \in Companies /\ it.item \in Items /\ it.quantity \in Int
          /\ it.quantity >= 0
      BY <3>1, ShipmentFields DEF Positive
    <3> HIDE DEF it
    <3> QED
      BY <3>1, <3>2, FreeStocked, StockUntouched
  <2> QED
    BY <1>4, <2>1, <2>2, <2>3 DEF ShipmentMove, OfShipments
<1>5. CASE ContractMove
  <2> SUFFICES OnlyFreeTaken
    BY <1>5 DEF ContractMove, OfContracts
  <2>1. ASSUME NEW k \in DOMAIN contracts, NEW n \in Positive, FulfillContract(k, n)
        PROVE  OnlyFreeTaken
    <3> DEFINE b == contracts[k].buyer
               s == contracts[k].seller
               i == contracts[k].item
    <3>1. s \in Players
      BY <2>1 DEF FulfillContract, ContractsSound, ContractSound
    <3>2. /\ n <= stock[s][i].quantity - stock[s][i].reserved
          /\ \A d \in Companies, j \in Items :
                /\ stock'[d][j].reserved = stock[d][j].reserved
                /\ stock'[d][j].quantity = stock[d][j].quantity - (IF d = s /\ j = i THEN n ELSE 0)
                                               + (IF d = b /\ j = i THEN n ELSE 0)
      BY <2>1, <3>1, FulfillContractDoes DEF Exchanged
    <3> HIDE DEF b, s, i
    <3> SUFFICES ASSUME NEW d \in Companies, NEW j \in Items
                 PROVE  /\ stock'[d][j].reserved = stock[d][j].reserved
                        /\ stock[d][j].reserved <= stock[d][j].quantity
                              => stock[d][j].reserved <= stock'[d][j].quantity
      BY DEF OnlyFreeTaken
    <3>3. stock[d][j].quantity \in Nat /\ stock[d][j].reserved \in Nat /\ n \in Nat
      BY TypedBalances DEF Positive
    <3> QED
      BY <3>2, <3>3
  <2>2. stock' = stock \/ \E k \in DOMAIN contracts, n \in Positive : FulfillContract(k, n)
    BY <1>5 DEF ContractMove, OfContracts, AcceptContract, ExpireContracts, OfferContract, Tables
  <2> QED
    BY <2>1, <2>2, StockUntouched
<1>6. CASE ConsumeMove
  <2>1. PICK c \in Npcs, i \in DemandItems : OfContracts(Consume(c, i) /\ UNCHANGED contracts)
    BY <1>6 DEF ConsumeMove
  <2>2. PICK n \in Nat : /\ i \in Items /\ c \in Companies /\ Stocked(c, i, -n, 0)
                         /\ n = 0 \/ n <= stock[c][i].quantity - stock[c][i].reserved
    BY <2>1, ConsumeDoes DEF OfContracts
  <2>3. -n \in Int /\ -(-n) = n /\ (n = 0 => -n >= 0)
    OBVIOUS
  <2>4. OnlyFreeTaken
    BY <2>2, <2>3, FreeStocked
  <2> QED
    BY <2>1, <2>4 DEF OfContracts
<1>7. CASE CandleMove
  <2>1. stock' = stock /\ orders' = orders /\ jobs' = jobs
    BY <1>7 DEF CandleMove, OfCandles, UpsertCandles, Tables
  <2> QED
    BY <2>1, StockUntouched
<1> QED
  BY <1>1, <1>2, <1>3, <1>4, <1>5, <1>6, <1>7 DEF Move

\* What orders and jobs hold are numbers.
LEMMA HoldsInt ==
    ASSUME Typed, NEW c, NEW i \in Items
    PROVE  StockFor(orders, c, i) \in Int /\ JobsHold(jobs, c, i) \in Int
<1>0. orders \in Seq(BookRow)
  BY DEF Typed
<1>1. /\ IsFiniteSet(DOMAIN orders)
      /\ \A o \in DOMAIN orders : Trading!StockHeld(orders, c, i)[o] \in Int
  <2>1. /\ IsFiniteSet(DOMAIN orders)
        /\ \A o \in DOMAIN orders : Trading!StockHeld(orders, c, i)[o] \in Nat
    BY ONLY <1>0, HeldInt
  <2> QED
    BY ONLY <2>1
<1>2. StockFor(orders, c, i) \in Int
  BY ONLY <1>1, SumInt DEF StockFor
<1>3. JobsHold(jobs, c, i) \in Int
  BY JobSumsTyped DEF Typed
<1> QED
  BY <1>2, <1>3

\* Every move keeps what companies have reserved of an item equal to what their
\* orders and jobs hold, and lets them keep it.
LEMMA StockStaysBacked ==
    ASSUME Typed, clock \in Nat, ContractsSound, OrdersSound, StockBacked, Move
    PROVE  StockBacked'
<1> SUFFICES ASSUME NEW d \in Companies, NEW j \in Items
             PROVE  /\ stock'[d][j].reserved = StockFor(orders', d, j) + JobsHold(jobs', d, j)
                    /\ stock'[d][j].reserved <= stock'[d][j].quantity
  BY DEF StockBacked
<1>1. /\ stock[d][j].reserved \in Nat /\ stock[d][j].quantity \in Nat
      /\ stock[d][j].reserved = StockFor(orders, d, j) + JobsHold(jobs, d, j)
      /\ stock[d][j].reserved <= stock[d][j].quantity
      /\ StockFor(orders, d, j) \in Int /\ JobsHold(jobs, d, j) \in Int
  BY Balances, HoldsInt DEF StockBacked, Typed
<1>2. CASE OrderMove \/ WithdrawMove
  <2>1. PICK c \in Companies, i \in Items, a \in Int, n \in Int : Reserved(c, i, a, n)
    BY <1>2, ReserveMoves
  <2>2. jobs' = jobs
    BY <1>2 DEF OrderMove, WithdrawMove, OfOrders
  <2>3. /\ stock'[d][j].quantity = stock[d][j].quantity + (IF d = c /\ j = i THEN 0 ELSE 0)
        /\ stock'[d][j].reserved = stock[d][j].reserved + (IF d = c /\ j = i THEN n ELSE 0)
        /\ StockFor(orders', d, j) = StockFor(orders, d, j) + (IF d = c /\ j = i THEN n ELSE 0)
        /\ n \in Nat => n = 0 \/ n <= stock[c][i].quantity - stock[c][i].reserved
    BY <2>1 DEF Reserved, Stocked
  <2> QED
    BY <1>1, <2>2, <2>3
<1>3. CASE SettleMove
  <2>1. PICK m \in PlacedMatches, b \in Companies, s \in Companies, i \in Items,
              n \in Positive, N \in Nat, R \in Nat :
              Settlement(m, b, s, i, n, N, R) /\ OrdersSettled(m, b, s, i, n, R)
    BY <1>3, SettleMoves
  <2>2. jobs' = jobs /\ n \in Nat
    BY <1>3 DEF SettleMove, OfOrders, Positive
  <2>3. Trading!GoodsMoved(stock', stock, b, s, i, n)
    BY <2>1 DEF Settlement
  <2>4. /\ stock'[d][j].quantity = stock[d][j].quantity
               - (IF d = s /\ j = i THEN n ELSE 0) + (IF d = b /\ j = i THEN n ELSE 0)
        /\ stock'[d][j].reserved = stock[d][j].reserved - (IF d = s /\ j = i THEN n ELSE 0)
    BY <2>3 DEF Trading!GoodsMoved
  <2>5. StockFor(orders', d, j) = StockFor(orders, d, j) - (IF s = d /\ i = j THEN n ELSE 0)
    BY <2>1 DEF OrdersSettled
  <2> QED
    BY <1>1, <2>2, <2>4, <2>5
<1>4. CASE JobMove
  <2>0. orders' = orders
    BY <1>4 DEF JobMove, OfJobs
  <2>1. ASSUME NEW c \in Companies, NEW r \in Recipes, NEW runs \in Positive, NEW tick \in Nat,
               StartJob(c, r, runs, tick)
        PROVE  /\ stock'[d][j].reserved = StockFor(orders', d, j) + JobsHold(jobs', d, j)
               /\ stock'[d][j].reserved <= stock'[d][j].quantity
    <3> DEFINE row == [company |-> c, recipe |-> r, runs |-> runs, status |-> "IN_PROGRESS",
                       due |-> tick + ProductionTicks(c, RecipeTicks[r])]
               k == Required(r, runs, j)
    <3>1. /\ row \in JobRow /\ jobs' = Append(jobs, row)
          /\ Restocked(c, [i \in Items |-> 0], [i \in Items |-> Required(r, runs, i)])
          /\ k > 0 => k <= stock[c][j].quantity - stock[c][j].reserved
      BY <2>1, StartJobDoes
    <3>2. row.status = "IN_PROGRESS" /\ row.company = c /\ row.recipe = r /\ row.runs = runs
      OBVIOUS
    <3> HIDE DEF row
    <3>3. JobsHold(jobs', d, j) = JobsHold(jobs, d, j)
             + (IF row.company = d THEN Required(row.recipe, row.runs, j) ELSE 0)
      BY <3>1, <3>2, JobStarted
    <3>4. /\ stock'[d][j].quantity = stock[d][j].quantity
          /\ stock'[d][j].reserved = stock[d][j].reserved + (IF d = c THEN k ELSE 0)
      BY <3>1, <1>1 DEF Restocked
    <3>5. k \in Nat
      BY JobAmounts
    <3>6. JobsHold(jobs', d, j) = JobsHold(jobs, d, j) + (IF d = c THEN k ELSE 0)
      BY <3>2, <3>3
    <3> HIDE DEF k
    <3> QED
      BY <1>1, <2>0, <3>1, <3>4, <3>5, <3>6
  <2>2. ASSUME NEW n \in DOMAIN jobs, jobs[n].status = "IN_PROGRESS", CancelJob(n) \/ CompleteJob(n)
        PROVE  /\ stock'[d][j].reserved = StockFor(orders', d, j) + JobsHold(jobs', d, j)
               /\ stock'[d][j].reserved <= stock'[d][j].quantity
    <3> DEFINE job == jobs[n]
               k == Required(job.recipe, job.runs, j)
    <3>1. job \in JobRow
      BY RowsOfTable DEF Typed
    <3>2. k \in Nat /\ MadeBy(job, j) \in Int /\ MadeBy(job, j) >= -k
      BY <3>1, JobRowAmounts
    <3>3. \E q \in Int : /\ q = 0 \/ q >= -k
                         /\ stock'[d][j].quantity = stock[d][j].quantity + (IF d = job.company THEN q ELSE 0)
                         /\ stock'[d][j].reserved = stock[d][j].reserved + (IF d = job.company THEN -k ELSE 0)
      <4>1. CASE CancelJob(n)
        <5>1. Restocked(job.company, [i \in Items |-> 0],
                        [i \in Items |-> -Required(job.recipe, job.runs, i)])
          BY <4>1, CancelJobDoes
        <5>2. [i \in Items |-> 0][j] = 0
              /\ [i \in Items |-> -Required(job.recipe, job.runs, i)][j] = -k
          OBVIOUS
        <5>3. /\ stock'[d][j].quantity = stock[d][j].quantity + (IF d = job.company THEN 0 ELSE 0)
              /\ stock'[d][j].reserved = stock[d][j].reserved + (IF d = job.company THEN -k ELSE 0)
          BY <5>1, <5>2 DEF Restocked
        <5> QED
          BY ONLY <5>3
      <4>2. CASE CompleteJob(n)
        <5>1. Restocked(job.company, [i \in Items |-> MadeBy(job, i)],
                        [i \in Items |-> -Required(job.recipe, job.runs, i)])
          BY <4>2, CompleteJobDoes
        <5> QED
          BY <3>2, <5>1 DEF Restocked
      <4> QED
        BY <2>2, <4>1, <4>2
    <3>4. \E status \in {"CANCELLED", "COMPLETED"} : jobs' = [jobs EXCEPT ![n].status = status]
      BY <2>2 DEF CancelJob, CompleteJob
    <3>5. JobsHold(jobs', d, j) = JobsHold(jobs, d, j) - (IF job.company = d THEN k ELSE 0)
      <4>1. PICK status \in {"CANCELLED", "COMPLETED"} : jobs' = [jobs EXCEPT ![n].status = status]
        BY <3>4
      <4> QED
        BY ONLY <4>1, <2>2, Typed, j \in Items, JobEnded
    <3> HIDE DEF k, job
    <3> QED
      BY <1>1, <2>0, <3>2, <3>3, <3>5
  <2>3. clock \in Nat /\ ThisTick \in Nat
    BY DEF ThisTick
  <2>4. \/ \E c \in Companies, r \in Recipes, runs \in Positive, tick \in {clock, ThisTick} :
               StartJob(c, r, runs, tick)
        \/ \E n \in DOMAIN jobs : jobs[n].status = "IN_PROGRESS" /\ (CancelJob(n) \/ CompleteJob(n))
    BY <1>4 DEF JobMove, OfJobs, CancelJob
  <2> QED
    BY <2>1, <2>2, <2>3, <2>4
<1>5. CASE orders' = orders /\ jobs' = jobs /\ OnlyFreeTaken
  BY <1>1, <1>5 DEF OnlyFreeTaken
<1> QED
  BY <1>2, <1>3, <1>4, <1>5, OthersTakeFree


BackedRows ==
    {r \in AllRows :
        \A c \in Companies, i \in Items :
            /\ r.stock[c][i].reserved = StockFor(r.orders, c, i) + JobsHold(r.jobs, c, i)
            /\ r.stock[c][i].reserved <= r.stock[c][i].quantity}

\* What backs the reserved stock is said of the tables.
LEMMA RowsBacked ==
    /\ Rows \in BackedRows <=> Typed /\ StockBacked
    /\ (Rows \in BackedRows)' <=> Typed' /\ StockBacked'
<1>1. /\ Rows.stock = stock /\ Rows.orders = orders /\ Rows.jobs = jobs
      /\ Rows'.stock = stock' /\ Rows'.orders = orders' /\ Rows'.jobs = jobs'
  BY DEF Rows
<1>2. Rows \in AllRows <=> Typed
  BY RowsTyped
<1>3. Rows' \in AllRows <=> Typed'
  BY RowsTypedNext
<1>4. Rows \in BackedRows <=> Typed /\ StockBacked
  BY <1>1, <1>2 DEF BackedRows, StockBacked
<1>5. (Rows \in BackedRows)' <=> Typed' /\ StockBacked'
  BY <1>1, <1>3 DEF BackedRows, StockBacked
<1> QED
  BY <1>4, <1>5

\* The reserved stock is backed at the start and stays so.
LEMMA BackedStart ==
    ASSUME EconomyInit
    PROVE  RowsHold(BackedRows)
<1>1. /\ stock = [c \in Companies |-> [i \in Items |-> [quantity |-> StartStock, reserved |-> 0]]]
      /\ orders = <<>> /\ jobs = <<>> /\ saved = NoTick
  BY DEF EconomyInit, RowsInit, StartingRows
<1>2. DOMAIN <<>> = {}
  OBVIOUS
<1>3. Typed
  BY SoundStart, RowsSound DEF SoundInv, RowsHold
<1>4. StockBacked
  <2> SUFFICES ASSUME NEW c \in Companies, NEW i \in Items
               PROVE  /\ stock[c][i].reserved = StockFor(orders, c, i) + JobsHold(jobs, c, i)
                      /\ stock[c][i].reserved <= stock[c][i].quantity
    BY DEF StockBacked
  <2>1. StockFor(orders, c, i) = 0 /\ JobsHold(jobs, c, i) = 0
    BY <1>1, <1>2, SumEmpty DEF StockFor, JobsHold
  <2>2. stock[c][i].reserved = 0 /\ stock[c][i].quantity = StartStock
    BY <1>1
  <2> QED
    BY <2>1, <2>2, AmountsAssumption
<1> QED
  BY <1>1, <1>3, <1>4, RowsBacked DEF RowsHold, Ticking

\* Every step keeps the reserved stock backed, also in the rows a tick may put
\* back.
LEMMA BackedStep ==
    ASSUME SoundInv, RowsHold(BackedRows), EconomyNext \/ UNCHANGED economyVars
    PROVE  RowsHold(BackedRows)'
<1>1. /\ clock \in Nat /\ Staged /\ Typed /\ ContractsSound /\ OrdersSound
  BY RowsSound DEF SoundInv, RowsHold
<1>2. /\ StockBacked /\ Rows \in BackedRows /\ (Ticking => saved \in BackedRows)
  BY RowsBacked DEF RowsHold
<1>3. BackedRows \in SUBSET AllRows
  BY DEF BackedRows
<1>4. ASSUME Move PROVE (Rows \in BackedRows)'
  <2>1. Typed'
    BY <1>1, <1>4, MoveTyped
  <2>2. StockBacked'
    BY <1>1, <1>2, <1>4, StockStaysBacked
  <2> QED
    BY <2>1, <2>2, RowsBacked
<1>5. (Rows \in BackedRows)' /\ (Ticking => saved \in BackedRows)'
  BY <1>1, <1>2, <1>3, <1>4, StepPreserves
<1> QED
  BY <1>5 DEF RowsHold

\* What the running jobs hold, as the property sums it.
LEMMA RunningJobsHold ==
    ASSUME Typed, NEW c \in Companies, NEW i \in Items
    PROVE  SumFunctionOnSet([j \in DOMAIN jobs |-> Required(jobs[j].recipe, jobs[j].runs, i)],
               {j \in DOMAIN jobs : jobs[j].company = c /\ jobs[j].status = "IN_PROGRESS"})
              = JobsHold(jobs, c, i)
<1> DEFINE D == DOMAIN jobs
           f == [j \in D |-> Required(jobs[j].recipe, jobs[j].runs, i)]
           T == {j \in D : jobs[j].company = c /\ jobs[j].status = "IN_PROGRESS"}
           g == JobHeld(jobs, c, i)
<1>1. IsFiniteSet(D) /\ \A j \in D : jobs[j] \in JobRow
  BY RowsOfTable DEF Typed
<1>2. \A j \in D : f[j] = Required(jobs[j].recipe, jobs[j].runs, i) /\ f[j] \in Int
  BY <1>1, JobRowAmounts
<1>3. T \in SUBSET D
  OBVIOUS
<1>4. /\ \A j \in T : f[j] \in Int /\ g[j] = f[j]
      /\ \A j \in D \ T : g[j] = 0
  BY <1>2 DEF JobHeld
<1>5. SumFunctionOnSet(g, D) = SumFunctionOnSet(f, T)
  <2> HIDE DEF f, T, g
  <2> QED
    BY <1>1, <1>3, <1>4, SumOverPart
<1> QED
  BY <1>5 DEF JobsHold

\* The stock a company has reserved is what its open sell orders and its running
\* jobs hold, and it is there.
THEOREM StockReserved == EconomySpec => []StockIsReservedFor
<1>1. EconomyInit => RowsHold(BackedRows)
  BY BackedStart
<1>2. SoundInv /\ RowsHold(BackedRows) /\ [EconomyNext]_economyVars => RowsHold(BackedRows)'
  BY BackedStep
<1>3. SoundInv /\ RowsHold(BackedRows) => StockIsReservedFor
  <2> SUFFICES ASSUME SoundInv, RowsHold(BackedRows), NEW c \in Companies, NEW i \in Items
               PROVE  /\ stock[c][i].reserved =
                           SumFunctionOnSet([o \in DOMAIN orders |-> orders[o].reservedQuantity],
                                            {o \in OpenOrdersOf(c) : orders[o].item = i})
                         + SumFunctionOnSet(
                             [j \in DOMAIN jobs |-> Required(jobs[j].recipe, jobs[j].runs, i)],
                             {j \in DOMAIN jobs : jobs[j].company = c /\ jobs[j].status = "IN_PROGRESS"})
                      /\ stock[c][i].reserved <= stock[c][i].quantity
    BY DEF StockIsReservedFor
  <2>1. Typed /\ OrdersSound /\ StockBacked
    BY RowsSound, RowsBacked DEF SoundInv, RowsHold
  <2>2. /\ stock[c][i].reserved = StockFor(orders, c, i) + JobsHold(jobs, c, i)
        /\ stock[c][i].reserved <= stock[c][i].quantity
    BY <2>1 DEF StockBacked
  <2>3. SumFunctionOnSet([o \in DOMAIN orders |-> orders[o].reservedQuantity],
                         {o \in OpenOrdersOf(c) : orders[o].item = i}) = StockFor(orders, c, i)
    BY <2>1, OpenOrdersHold
  <2>4. SumFunctionOnSet([j \in DOMAIN jobs |-> Required(jobs[j].recipe, jobs[j].runs, i)],
             {j \in DOMAIN jobs : jobs[j].company = c /\ jobs[j].status = "IN_PROGRESS"})
           = JobsHold(jobs, c, i)
    BY <2>1, RunningJobsHold
  <2> QED
    BY ONLY <2>2, <2>3, <2>4
<1> QED
  BY <1>1, <1>2, <1>3, EconomySound, PTL DEF EconomySpec


-----------------------------------------------------------------------------
(* Goods: every item there is can be explained.                            *)

\* A job move changes what is in store by what jobs have made.
LEMMA JobsKeepGoods ==
    ASSUME Typed, clock \in Nat, JobMove
    PROVE  GoodsKept
<1>1. UNCHANGED <<depot, shipments, consumed>>
  BY DEF JobMove, OfJobs, StartJob, CancelJob, CompleteJob, Tables
<1> SUFFICES ASSUME NEW i \in Items
             PROVE  Accounted(stock', depot', shipments', jobs', consumed', i)
                       = Accounted(stock, depot, shipments, jobs, consumed, i)
  BY DEF GoodsKept
<1>2. /\ HereOf(stock, depot, i) \in Int /\ AwayOf(shipments, i) \in Int
      /\ JobsMade(jobs, i) \in Int /\ consumed[i] \in Int
  BY AccountTyped
<1>3. ASSUME NEW k \in Int, HereOf(stock', depot', i) = HereOf(stock, depot, i) + k,
             JobsMade(jobs', i) = JobsMade(jobs, i) + k
      PROVE  Accounted(stock', depot', shipments', jobs', consumed', i)
                = Accounted(stock, depot, shipments, jobs, consumed, i)
  BY <1>1, <1>2, <1>3 DEF Accounted
<1>4. ASSUME NEW c \in Companies, NEW r \in Recipes, NEW runs \in Positive, NEW tick \in Nat,
             StartJob(c, r, runs, tick)
      PROVE  Accounted(stock', depot', shipments', jobs', consumed', i)
                = Accounted(stock, depot, shipments, jobs, consumed, i)
  <2> DEFINE row == [company |-> c, recipe |-> r, runs |-> runs, status |-> "IN_PROGRESS",
                     due |-> tick + ProductionTicks(c, RecipeTicks[r])]
             q == [j \in Items |-> 0]
  <2>1. /\ row \in JobRow /\ jobs' = Append(jobs, row)
        /\ Restocked(c, q, [j \in Items |-> Required(r, runs, j)])
    BY <1>4, StartJobDoes
  <2>2. row.status = "IN_PROGRESS"
    OBVIOUS
  <2>3. ASSUME NEW d \in Companies PROVE stock'[d][i].quantity = stock[d][i].quantity
    <3>1. stock[d][i].quantity \in Nat
      BY DEF Typed, StockRows
    <3>2. stock'[d][i].quantity = stock[d][i].quantity + (IF d = c THEN q[i] ELSE 0)
      BY <2>1 DEF Restocked
    <3> QED
      BY <3>1, <3>2
  <2> HIDE DEF row, q
  <2>4. HereOf(stock', depot', i) = HereOf(stock, depot, i)
    BY ONLY <1>1, <2>3, i \in Items, ReservedGoodsStay
  <2>5. JobsMade(jobs', i) = JobsMade(jobs, i)
    BY <2>1, <2>2, JobStarted
  <2> QED
    BY ONLY <1>1, <2>4, <2>5 DEF Accounted
<1>5. ASSUME NEW n \in DOMAIN jobs, CancelJob(n)
      PROVE  Accounted(stock', depot', shipments', jobs', consumed', i)
                = Accounted(stock, depot, shipments, jobs, consumed, i)
  <2> DEFINE job == jobs[n]
             q == [j \in Items |-> 0]
  <2>1. /\ job.status = "IN_PROGRESS" /\ jobs' = [jobs EXCEPT ![n].status = "CANCELLED"]
        /\ Restocked(job.company, q, [j \in Items |-> -Required(job.recipe, job.runs, j)])
    BY <1>5, CancelJobDoes
  <2>3. ASSUME NEW d \in Companies PROVE stock'[d][i].quantity = stock[d][i].quantity
    <3>1. stock[d][i].quantity \in Nat
      BY DEF Typed, StockRows
    <3>2. stock'[d][i].quantity = stock[d][i].quantity + (IF d = job.company THEN q[i] ELSE 0)
      BY <2>1 DEF Restocked
    <3> QED
      BY <3>1, <3>2
  <2>4. "CANCELLED" \in {"CANCELLED", "COMPLETED"} /\ "CANCELLED" # "COMPLETED"
    OBVIOUS
  <2>5. JobsMade(jobs', i) = JobsMade(jobs, i) + (IF "CANCELLED" = "COMPLETED" THEN MadeBy(job, i) ELSE 0)
    BY ONLY <2>1, <2>4, Typed, i \in Items, n \in DOMAIN jobs, JobEnded
  <2> HIDE DEF job, q
  <2>6. HereOf(stock', depot', i) = HereOf(stock, depot, i)
    BY ONLY <1>1, <2>3, i \in Items, ReservedGoodsStay
  <2>7. JobsMade(jobs', i) = JobsMade(jobs, i)
    BY <1>2, <2>4, <2>5
  <2> QED
    BY ONLY <1>1, <2>6, <2>7 DEF Accounted
<1>6. ASSUME NEW n \in DOMAIN jobs, jobs[n].status = "IN_PROGRESS", CompleteJob(n)
      PROVE  Accounted(stock', depot', shipments', jobs', consumed', i)
                = Accounted(stock, depot, shipments, jobs, consumed, i)
  <2> DEFINE job == jobs[n]
             k == MadeBy(job, i)
  <2>1. /\ jobs' = [jobs EXCEPT ![n].status = "COMPLETED"] /\ job \in JobRow
        /\ Restocked(job.company, [j \in Items |-> MadeBy(job, j)],
                     [j \in Items |-> -Required(job.recipe, job.runs, j)])
    BY <1>6, CompleteJobDoes
  <2>2. k \in Int /\ job.company \in Companies
    BY <2>1, JobRowAmounts, JobFields
  <2>3. "COMPLETED" \in {"CANCELLED", "COMPLETED"}
    OBVIOUS
  <2>4. JobsMade(jobs', i) = JobsMade(jobs, i) + k
    BY ONLY <1>6, <2>1, <2>3, Typed, i \in Items, JobEnded
  <2>5. ASSUME NEW d \in Companies
        PROVE  stock'[d][i].quantity + depot'[d][i]
                  = stock[d][i].quantity + depot[d][i] + (IF d = job.company THEN k ELSE 0)
    <3>1. stock[d][i].quantity \in Nat /\ depot[d][i] \in Nat
      BY DEF Typed, StockRows, DepotRows
    <3>2. stock'[d][i].quantity = stock[d][i].quantity + (IF d = job.company THEN k ELSE 0)
      BY <2>1 DEF Restocked
    <3> HIDE DEF k, job
    <3> QED
      BY <1>1, <2>2, <3>1, <3>2
  <2> HIDE DEF k, job
  <2>6. HereOf(stock', depot', i) = HereOf(stock, depot, i) + k
    BY ONLY <2>2, <2>5, Typed, i \in Items, HereChanged
  <2> QED
    BY <1>3, <2>2, <2>4, <2>6
<1>7. \/ \E c \in Companies, r \in Recipes, runs \in Positive, tick \in {clock, ThisTick} :
             StartJob(c, r, runs, tick)
      \/ \E n \in DOMAIN jobs : CancelJob(n)
      \/ \E n \in DOMAIN jobs : jobs[n].status = "IN_PROGRESS" /\ CompleteJob(n)
  BY DEF JobMove, OfJobs
<1>8. clock \in Nat /\ ThisTick \in Nat
  BY DEF ThisTick
<1> QED
  BY <1>4, <1>5, <1>6, <1>7, <1>8


\* Creating, returning and delivering shipments only moves goods.
LEMMA ShipmentsKeepGoods ==
    ASSUME Typed, clock \in Nat, ShipmentMove
    PROVE  GoodsKept
<1>1. UNCHANGED <<jobs, consumed>>
  BY DEF ShipmentMove, OfShipments, CreateShipment, CancelShipment, Deliver
<1> SUFFICES ASSUME NEW i \in Items
             PROVE  Accounted(stock', depot', shipments', jobs', consumed', i)
                       = Accounted(stock, depot, shipments, jobs, consumed, i)
  BY DEF GoodsKept
<1>2. /\ HereOf(stock, depot, i) \in Int /\ AwayOf(shipments, i) \in Int
      /\ JobsMade(jobs, i) \in Int /\ consumed[i] \in Int
  BY AccountTyped
<1>3. ASSUME NEW k \in Int, HereOf(stock', depot', i) = HereOf(stock, depot, i) + k,
             AwayOf(shipments', i) = AwayOf(shipments, i) - k
      PROVE  Accounted(stock', depot', shipments', jobs', consumed', i)
                = Accounted(stock, depot, shipments, jobs, consumed, i)
  BY <1>1, <1>2, <1>3 DEF Accounted
<1>4. ASSUME NEW c \in Companies, NEW j \in Items, NEW n \in Positive, CreateShipment(c, j, n)
      PROVE  Accounted(stock', depot', shipments', jobs', consumed', i)
                = Accounted(stock, depot, shipments, jobs, consumed, i)
  <2>1. PICK row \in ShipmentRow :
              /\ row.company = c /\ row.item = j /\ row.quantity = n /\ row.status = "IN_TRANSIT"
              /\ shipments' = Append(shipments, row) /\ Stocked(c, j, -n, 0)
    BY <1>4, CreateShipmentDoes
  <2>2. depot' = depot /\ n \in Int /\ -n \in Int
    BY <1>4 DEF CreateShipment, Positive
  <2>3. HereOf(stock', depot', i) = HereOf(stock, depot, i) + (IF i = j THEN -n ELSE 0)
    BY ONLY <2>1, <2>2, Typed, c \in Companies, j \in Items, i \in Items, HereStocked
  <2>4. AwayOf(shipments', i) = AwayOf(shipments, i) + (IF row.item = i THEN row.quantity ELSE 0)
    BY ONLY <2>1, Typed, i \in Items, ShipmentLoaded
  <2> DEFINE k == IF i = j THEN -n ELSE 0
  <2>5. k \in Int /\ AwayOf(shipments', i) = AwayOf(shipments, i) - k
    BY <1>2, <2>1, <2>2, <2>4
  <2> QED
    BY <1>3, <2>3, <2>5
<1>5. ASSUME NEW s \in DOMAIN shipments, NEW status \in {"CANCELLED", "DELIVERED"},
             shipments[s].status = "IN_TRANSIT",
             shipments' = [shipments EXCEPT ![s].status = status],
             \/ Stocked(shipments[s].company, shipments[s].item, shipments[s].quantity, 0)
                /\ depot' = depot
             \/ Stowed(shipments[s].company, shipments[s].item, shipments[s].quantity)
                /\ stock' = stock
      PROVE  Accounted(stock', depot', shipments', jobs', consumed', i)
                = Accounted(stock, depot, shipments, jobs, consumed, i)
  <2> DEFINE it == shipments[s]
  <2>1. it \in ShipmentRow
    BY RowsOfTable DEF Typed
  <2>2. it.company \in Companies /\ it.item \in Items /\ it.quantity \in Int
    BY <2>1, ShipmentFields DEF Positive
  <2>3. AwayOf(shipments', i) = AwayOf(shipments, i) - (IF it.item = i THEN it.quantity ELSE 0)
    BY ONLY <1>5, Typed, i \in Items, ShipmentClosed
  <2>4. \/ Stocked(it.company, it.item, it.quantity, 0) /\ depot' = depot
        \/ Stowed(it.company, it.item, it.quantity) /\ stock' = stock
    BY <1>5
  <2> HIDE DEF it
  <2>5. HereOf(stock', depot', i) = HereOf(stock, depot, i) + (IF i = it.item THEN it.quantity ELSE 0)
    <3>1. CASE Stocked(it.company, it.item, it.quantity, 0) /\ depot' = depot
      BY ONLY <2>2, <3>1, Typed, i \in Items, HereStocked
    <3>2. CASE Stowed(it.company, it.item, it.quantity) /\ stock' = stock
      BY ONLY <2>2, <3>2, Typed, i \in Items, HereStowed
    <3> QED
      BY <2>4, <3>1, <3>2
  <2> DEFINE k == IF it.item = i THEN it.quantity ELSE 0
  <2>6. k \in Int /\ HereOf(stock', depot', i) = HereOf(stock, depot, i) + k
    BY <2>2, <2>5
  <2> HIDE DEF k
  <2>7. AwayOf(shipments', i) = AwayOf(shipments, i) - k
    BY <2>3 DEF k
  <2> QED
    BY <1>3, <2>6, <2>7
<1>6. ASSUME NEW s \in DOMAIN shipments, CancelShipment(s)
      PROVE  Accounted(stock', depot', shipments', jobs', consumed', i)
                = Accounted(stock, depot, shipments, jobs, consumed, i)
  <2>1. /\ shipments[s].status = "IN_TRANSIT"
        /\ shipments' = [shipments EXCEPT ![s].status = "CANCELLED"]
        /\ Stocked(shipments[s].company, shipments[s].item, shipments[s].quantity, 0)
        /\ depot' = depot
    BY <1>6, CancelShipmentDoes DEF CancelShipment
  <2> QED
    BY <1>5, <2>1
<1>7. ASSUME NEW s \in DOMAIN shipments, shipments[s].status = "IN_TRANSIT", Deliver(s)
      PROVE  Accounted(stock', depot', shipments', jobs', consumed', i)
                = Accounted(stock, depot, shipments, jobs, consumed, i)
  <2>1. \/ /\ shipments' = [shipments EXCEPT ![s].status = "DELIVERED"]
           /\ Stowed(shipments[s].company, shipments[s].item, shipments[s].quantity)
           /\ stock' = stock
        \/ /\ shipments' = [shipments EXCEPT ![s].status = "DELIVERED"]
           /\ Stocked(shipments[s].company, shipments[s].item, shipments[s].quantity, 0)
           /\ depot' = depot
        \/ shipments' = shipments /\ stock' = stock /\ depot' = depot
    BY <1>7, DeliverDoes
  <2>2. CASE shipments' = shipments /\ stock' = stock /\ depot' = depot
    BY <1>1, <2>2
  <2> QED
    BY <1>5, <1>7, <2>1, <2>2
<1> QED
  BY <1>4, <1>6, <1>7 DEF ShipmentMove, OfShipments

\* No move makes goods or loses them, but for those of jobs and of the demand.
LEMMA MoveKeepsGoods ==
    ASSUME Typed, clock \in Nat, ContractsSound, OrdersSound, Move
    PROVE  GoodsKept
<1>1. ASSUME depot' = depot, shipments' = shipments, jobs' = jobs, consumed' = consumed,
             \A i \in Items : HereOf(stock', depot', i) = HereOf(stock, depot, i)
      PROVE  GoodsKept
  BY <1>1 DEF GoodsKept, Accounted
<1>2. CASE OrderMove \/ WithdrawMove
  <2>1. PICK c \in Companies, j \in Items, a \in Int, n \in Int : Reserved(c, j, a, n)
    BY <1>2, ReserveMoves
  <2>2. UNCHANGED <<depot, consumed, shipments, jobs>>
    BY <1>2 DEF OrderMove, WithdrawMove, OfOrders
  <2>3. ASSUME NEW d \in Companies, NEW i \in Items
        PROVE  stock'[d][i].quantity = stock[d][i].quantity
    <3>1. stock'[d][i].quantity = stock[d][i].quantity + (IF d = c /\ i = j THEN 0 ELSE 0)
      BY <2>1 DEF Reserved, Stocked
    <3>2. stock[d][i].quantity \in Nat
      BY DEF Typed, StockRows
    <3> QED
      BY <3>1, <3>2
  <2>4. \A i \in Items : HereOf(stock', depot', i) = HereOf(stock, depot, i)
    BY ONLY <2>2, <2>3, ReservedGoodsStay
  <2> QED
    BY <1>1, <2>2, <2>4
<1>3. CASE SettleMove
  <2>1. PICK m \in PlacedMatches, b \in Companies, s \in Companies, j \in Items,
              n \in Positive, N \in Nat, R \in Nat : Settlement(m, b, s, j, n, N, R)
    BY <1>3, SettleMoves
  <2>2. UNCHANGED <<depot, consumed, shipments, jobs>> /\ n \in Int
    BY <1>3 DEF SettleMove, OfOrders, Positive
  <2>3. Trading!GoodsMoved(stock', stock, b, s, j, n)
    BY <2>1 DEF Settlement
  <2>4. ASSUME NEW i \in Items PROVE HereOf(stock', depot', i) = HereOf(stock, depot, i)
    <3> DEFINE k == IF i = j THEN n ELSE 0
    <3>1. k \in Int
      BY <2>2
    <3>2. ASSUME NEW d \in Companies
          PROVE  stock'[d][i].quantity = stock[d][i].quantity
                    - (IF d = s THEN k ELSE 0) + (IF d = b THEN k ELSE 0)
      <4>1. stock'[d][i].quantity = stock[d][i].quantity
               - (IF d = s /\ i = j THEN n ELSE 0) + (IF d = b /\ i = j THEN n ELSE 0)
        BY <2>3 DEF Trading!GoodsMoved
      <4> QED
        BY <4>1
    <3> HIDE DEF k
    <3> QED
      BY ONLY <2>2, <3>1, <3>2, Typed, i \in Items, b \in Companies, s \in Companies, HereExchanged
  <2> QED
    BY <1>1, <2>2, <2>4
<1>4. CASE BuildingMove
  <2>1. UNCHANGED <<stock, depot, shipments, jobs, consumed>>
    BY <1>4 DEF BuildingMove, OfBuildings, AcquireBuilding, ReactivateBuilding, ChargeBuilding,
                IssueRefund, Tables
  <2> QED
    BY <2>1, GoodsUntouched
<1>5. CASE PeopleMove
  <2>1. UNCHANGED <<stock, depot, shipments, jobs, consumed>>
    BY <1>5 DEF PeopleMove, OfPeople, SetAllocation, LayOff, Hire, Arrive, PaySalary, Tables
  <2> QED
    BY <2>1, GoodsUntouched
<1>6. CASE ScienceMove
  <2>1. UNCHANGED <<stock, depot, shipments, jobs, consumed>>
    BY <1>6 DEF ScienceMove, OfScience, StartResearch, CancelResearch, CompleteResearch, Tables
  <2> QED
    BY <2>1, GoodsUntouched
<1>7. CASE JobMove
  BY <1>7, JobsKeepGoods
<1>8. CASE ShipmentMove
  BY <1>8, ShipmentsKeepGoods
<1>9. CASE ContractMove
  <2>1. ASSUME NEW k \in DOMAIN contracts, NEW n \in Positive, OfContracts(FulfillContract(k, n))
        PROVE  GoodsKept
    <3> DEFINE b == contracts[k].buyer
               s == contracts[k].seller
               j == contracts[k].item
    <3>1. s \in Players
      BY <2>1 DEF OfContracts, FulfillContract, ContractsSound, ContractSound
    <3>2. n \in Int /\ FulfillContract(k, n)
      BY <2>1 DEF OfContracts, Positive
    <3>5. /\ b \in Companies /\ s \in Companies
          /\ Exchanged(b, s, j, n, n * contracts[k].price)
      BY ONLY <3>1, <3>2, Typed, clock \in Nat, FulfillContractDoes
    <3>6. /\ \A d \in Companies, i \in Items :
                stock'[d][i].quantity = stock[d][i].quantity - (IF d = s /\ i = j THEN n ELSE 0)
                                               + (IF d = b /\ i = j THEN n ELSE 0)
      BY ONLY <3>5 DEF Exchanged
    <3> HIDE DEF b, s, j
    <3>3. UNCHANGED <<depot, consumed, shipments, jobs>>
      BY <2>1 DEF OfContracts, FulfillContract
    <3>4. ASSUME NEW i \in Items PROVE HereOf(stock', depot', i) = HereOf(stock, depot, i)
      <4> DEFINE q == IF i = j THEN n ELSE 0
      <4>1. q \in Int
        BY <3>2
      <4>2. ASSUME NEW d \in Companies
            PROVE  stock'[d][i].quantity = stock[d][i].quantity
                      - (IF d = s THEN q ELSE 0) + (IF d = b THEN q ELSE 0)
        <5>1. stock'[d][i].quantity = stock[d][i].quantity
                 - (IF d = s /\ i = j THEN n ELSE 0) + (IF d = b /\ i = j THEN n ELSE 0)
          BY <3>6
        <5> QED
          BY <5>1
      <4> HIDE DEF q
      <4> QED
        BY ONLY <3>5, <3>3, <4>1, <4>2, Typed, i \in Items, HereExchanged
    <3> QED
      BY <1>1, <3>3, <3>4
  <2>2. \/ UNCHANGED <<stock, depot, shipments, jobs, consumed>>
        \/ \E k \in DOMAIN contracts, n \in Positive : OfContracts(FulfillContract(k, n))
    BY <1>9 DEF ContractMove, OfContracts, AcceptContract, ExpireContracts, OfferContract, Tables
  <2> QED
    BY <2>1, <2>2, GoodsUntouched
<1>10. CASE ConsumeMove
  <2>1. PICK c \in Npcs, j \in DemandItems : OfContracts(Consume(c, j) /\ UNCHANGED contracts)
    BY <1>10 DEF ConsumeMove
  <2>2. PICK n \in Nat : /\ j \in Items /\ c \in Companies /\ Stocked(c, j, -n, 0)
                         /\ \A i \in Items : consumed'[i] = consumed[i] + (IF i = j THEN n ELSE 0)
    BY <2>1, ConsumeDoes DEF OfContracts
  <2>3. UNCHANGED <<depot, shipments, jobs>> /\ -n \in Int
    BY <2>1 DEF OfContracts, Consume
  <2> SUFFICES ASSUME NEW i \in Items
               PROVE  Accounted(stock', depot', shipments', jobs', consumed', i)
                         = Accounted(stock, depot, shipments, jobs, consumed, i)
    BY DEF GoodsKept
  <2>4. HereOf(stock', depot', i) = HereOf(stock, depot, i) + (IF i = j THEN -n ELSE 0)
    BY ONLY <2>2, <2>3, Typed, i \in Items, HereStocked
  <2>5. /\ HereOf(stock, depot, i) \in Int /\ AwayOf(shipments, i) \in Int
        /\ JobsMade(jobs, i) \in Int /\ consumed[i] \in Int
        /\ consumed'[i] = consumed[i] + (IF i = j THEN n ELSE 0)
    BY <2>2, AccountTyped
  <2> QED
    BY ONLY <2>3, <2>4, <2>5, n \in Nat DEF Accounted
<1>11. CASE CandleMove
  <2>1. UNCHANGED <<stock, depot, shipments, jobs, consumed>>
    BY <1>11 DEF CandleMove, OfCandles, UpsertCandles, Tables
  <2> QED
    BY <2>1, GoodsUntouched
<1> QED
  BY <1>2, <1>3, <1>4, <1>5, <1>6, <1>7, <1>8, <1>9, <1>10, <1>11 DEF Move


AtStart(i) == SumFunction([c \in Companies |-> StartStock + StartDepot[c][i]])

AccountedRows ==
    {r \in AllRows :
        \A i \in Items : Accounted(r.stock, r.depot, r.shipments, r.jobs, r.consumed, i) = AtStart(i)}

GoodsExplained ==
    \A i \in Items : Accounted(stock, depot, shipments, jobs, consumed, i) = AtStart(i)

\* That goods are accounted for is said of the tables.
LEMMA RowsAccounted ==
    /\ Rows \in AccountedRows <=> Typed /\ GoodsExplained
    /\ (Rows \in AccountedRows)' <=> Typed' /\ GoodsExplained'
<1>1. /\ Rows.stock = stock /\ Rows.depot = depot /\ Rows.jobs = jobs
      /\ Rows.shipments = shipments /\ Rows.consumed = consumed
      /\ Rows'.stock = stock' /\ Rows'.depot = depot' /\ Rows'.jobs = jobs'
      /\ Rows'.shipments = shipments' /\ Rows'.consumed = consumed'
  BY DEF Rows
<1>2. Rows \in AllRows <=> Typed
  BY RowsTyped
<1>3. Rows' \in AllRows <=> Typed'
  BY RowsTypedNext
<1>4. Rows \in AccountedRows <=> Typed /\ GoodsExplained
  BY <1>1, <1>2 DEF AccountedRows, GoodsExplained
<1>5. (Rows \in AccountedRows)' <=> Typed' /\ GoodsExplained'
  BY <1>1, <1>3 DEF AccountedRows, GoodsExplained
<1> QED
  BY <1>4, <1>5

\* At the start all goods are in the stores.
LEMMA AccountedStart ==
    ASSUME EconomyInit
    PROVE  RowsHold(AccountedRows)
<1>1. /\ stock = [c \in Companies |-> [i \in Items |-> [quantity |-> StartStock, reserved |-> 0]]]
      /\ depot = StartDepot /\ consumed = [i \in Items |-> 0]
      /\ jobs = <<>> /\ shipments = <<>> /\ saved = NoTick
  BY DEF EconomyInit, RowsInit, StartingRows
<1>2. DOMAIN <<>> = {}
  OBVIOUS
<1>3. Typed
  BY SoundStart, RowsSound DEF SoundInv, RowsHold
<1>4. ASSUME NEW i \in Items
      PROVE  Accounted(stock, depot, shipments, jobs, consumed, i) = AtStart(i)
  <2> DEFINE f == [c \in Companies |-> StartStock + StartDepot[c][i]]
  <2>1. AwayOf(shipments, i) = 0 /\ JobsMade(jobs, i) = 0 /\ consumed[i] = 0
    BY <1>1, <1>2, SumEmpty DEF AwayOf, JobsMade
  <2>2. \A c \in Companies : HereTerm(stock, depot, i)[c] = f[c]
    BY <1>1 DEF HereTerm
  <2>3. DOMAIN f = Companies /\ IsFiniteSet(Companies)
    BY AmountsAssumption
  <2>4. AtStart(i) = SumFunctionOnSet(f, Companies)
    BY <2>3 DEF AtStart, SumFunction
  <2> HIDE DEF f
  <2>5. HereOf(stock, depot, i) = AtStart(i)
    BY ONLY <2>2, <2>3, <2>4, SumSame DEF HereOf
  <2>6. HereOf(stock, depot, i) \in Int
    BY <1>3, AccountTyped
  <2> QED
    BY <2>1, <2>5, <2>6 DEF Accounted
<1> QED
  BY <1>1, <1>3, <1>4, RowsAccounted DEF GoodsExplained, RowsHold, Ticking

\* Every step keeps the goods accounted for, also in the rows a tick may put
\* back.
LEMMA AccountedStep ==
    ASSUME SoundInv, RowsHold(AccountedRows), EconomyNext \/ UNCHANGED economyVars
    PROVE  RowsHold(AccountedRows)'
<1>1. /\ clock \in Nat /\ Staged /\ Typed /\ ContractsSound /\ OrdersSound
  BY RowsSound DEF SoundInv, RowsHold
<1>2. /\ GoodsExplained /\ Rows \in AccountedRows /\ (Ticking => saved \in AccountedRows)
  BY RowsAccounted DEF RowsHold
<1>3. AccountedRows \in SUBSET AllRows
  BY DEF AccountedRows
<1>4. ASSUME Move PROVE (Rows \in AccountedRows)'
  <2>1. Typed'
    BY <1>1, <1>4, MoveTyped
  <2>2. GoodsKept
    BY <1>1, <1>4, MoveKeepsGoods
  <2>3. GoodsExplained'
    BY <1>2, <2>2 DEF GoodsKept, GoodsExplained
  <2> QED
    BY <2>1, <2>3, RowsAccounted
<1>5. (Rows \in AccountedRows)' /\ (Ticking => saved \in AccountedRows)'
  BY <1>1, <1>2, <1>3, <1>4, StepPreserves
<1> QED
  BY <1>5 DEF RowsHold

\* The sums of the property are those of the proof.
LEMMA GoodsSummed ==
    ASSUME Typed, NEW i \in Items
    PROVE  /\ SumFunction([c \in Companies |-> stock[c][i].quantity + depot[c][i]])
                 = HereOf(stock, depot, i)
           /\ SumFunctionOnSet([s \in DOMAIN shipments |-> shipments[s].quantity],
                  {s \in DOMAIN shipments : shipments[s].item = i
                                              /\ shipments[s].status = "IN_TRANSIT"})
                 = AwayOf(shipments, i)
           /\ SumFunctionOnSet([j \in DOMAIN jobs |-> MadeBy(jobs[j], i)],
                  {j \in DOMAIN jobs : jobs[j].status = "COMPLETED"})
                 = JobsMade(jobs, i)
<1>1. SumFunction([c \in Companies |-> stock[c][i].quantity + depot[c][i]])
         = HereOf(stock, depot, i)
  <2> DEFINE f == [c \in Companies |-> stock[c][i].quantity + depot[c][i]]
  <2>1. DOMAIN f = Companies
    OBVIOUS
  <2>2. SumFunction(f) = SumFunctionOnSet(f, Companies)
    BY <2>1 DEF SumFunction
  <2> QED
    BY <2>2 DEF HereOf, HereTerm
<1>2. SumFunctionOnSet([s \in DOMAIN shipments |-> shipments[s].quantity],
          {s \in DOMAIN shipments : shipments[s].item = i /\ shipments[s].status = "IN_TRANSIT"})
         = AwayOf(shipments, i)
  <2> DEFINE D == DOMAIN shipments
             f == [s \in D |-> shipments[s].quantity]
             T == {s \in D : shipments[s].item = i /\ shipments[s].status = "IN_TRANSIT"}
             g == AwayTerm(shipments, i)
  <2>1. IsFiniteSet(D) /\ \A s \in D : shipments[s] \in ShipmentRow
    BY RowsOfTable DEF Typed
  <2>2. \A s \in D : f[s] = shipments[s].quantity /\ f[s] \in Int
    BY <2>1, ShipmentFields DEF Positive
  <2>3. /\ T \in SUBSET D
        /\ \A s \in T : f[s] \in Int /\ g[s] = f[s]
        /\ \A s \in D \ T : g[s] = 0
    BY <2>2 DEF AwayTerm
  <2>4. AwayOf(shipments, i) = SumFunctionOnSet(g, D)
    BY DEF AwayOf
  <2> HIDE DEF D, f, T, g
  <2>5. SumFunctionOnSet(g, D) = SumFunctionOnSet(f, T)
    BY ONLY <2>1, <2>3, SumOverPart
  <2>6. SumFunctionOnSet(f, T) = AwayOf(shipments, i)
    BY <2>4, <2>5
  <2> QED
    BY ONLY <2>6 DEF f, T, D
<1>3. SumFunctionOnSet([j \in DOMAIN jobs |-> MadeBy(jobs[j], i)],
          {j \in DOMAIN jobs : jobs[j].status = "COMPLETED"})
         = JobsMade(jobs, i)
  <2> DEFINE D == DOMAIN jobs
             f == [j \in D |-> MadeBy(jobs[j], i)]
             T == {j \in D : jobs[j].status = "COMPLETED"}
             g == JobMade(jobs, i)
  <2>1. IsFiniteSet(D) /\ \A j \in D : jobs[j] \in JobRow
    BY RowsOfTable DEF Typed
  <2>2. \A j \in D : f[j] = MadeBy(jobs[j], i) /\ f[j] \in Int
    BY <2>1, JobRowAmounts
  <2>3. /\ T \in SUBSET D
        /\ \A j \in T : f[j] \in Int /\ g[j] = f[j]
        /\ \A j \in D \ T : g[j] = 0
    BY <2>2 DEF JobMade
  <2>4. JobsMade(jobs, i) = SumFunctionOnSet(g, D)
    BY DEF JobsMade
  <2> HIDE DEF D, f, T, g
  <2>5. SumFunctionOnSet(g, D) = SumFunctionOnSet(f, T)
    BY ONLY <2>1, <2>3, SumOverPart
  <2>6. SumFunctionOnSet(f, T) = JobsMade(jobs, i)
    BY <2>4, <2>5
  <2> QED
    BY ONLY <2>6 DEF f, T, D
<1> QED
  BY ONLY <1>1, <1>2, <1>3

\* Every item is accounted for: what companies started with, what completed jobs
\* made and used up and what the demand took is in the stores and on its way.
THEOREM GoodsAreAccounted == EconomySpec => []GoodsAccounted
<1>1. EconomyInit => RowsHold(AccountedRows)
  BY AccountedStart
<1>2. SoundInv /\ RowsHold(AccountedRows) /\ [EconomyNext]_economyVars => RowsHold(AccountedRows)'
  BY AccountedStep
<1>3. SoundInv /\ RowsHold(AccountedRows) => GoodsAccounted
  <2> SUFFICES ASSUME SoundInv, RowsHold(AccountedRows), NEW i \in Items
               PROVE  SumFunction([c \in Companies |-> stock[c][i].quantity + depot[c][i]])
                      + SumFunctionOnSet([s \in DOMAIN shipments |-> shipments[s].quantity],
                          {s \in DOMAIN shipments : shipments[s].item = i
                                                      /\ shipments[s].status = "IN_TRANSIT"})
                      = SumFunction([c \in Companies |-> StartStock + StartDepot[c][i]])
                        - consumed[i]
                        + SumFunctionOnSet([j \in DOMAIN jobs |-> MadeBy(jobs[j], i)],
                            {j \in DOMAIN jobs : jobs[j].status = "COMPLETED"})
    BY DEF GoodsAccounted
  <2>1. Typed /\ GoodsExplained
    BY RowsSound, RowsAccounted DEF SoundInv, RowsHold
  <2>2. /\ HereOf(stock, depot, i) \in Int /\ AwayOf(shipments, i) \in Int
        /\ JobsMade(jobs, i) \in Int /\ consumed[i] \in Int
    BY <2>1, AccountTyped
  <2>3. HereOf(stock, depot, i) + AwayOf(shipments, i) - JobsMade(jobs, i) + consumed[i] = AtStart(i)
    BY <2>1 DEF GoodsExplained, Accounted
  <2>4. HereOf(stock, depot, i) + AwayOf(shipments, i) = AtStart(i) - consumed[i] + JobsMade(jobs, i)
    BY ONLY <2>2, <2>3
  <2>5. AtStart(i) = SumFunction([c \in Companies |-> StartStock + StartDepot[c][i]])
    BY DEF AtStart
  <2>6. /\ SumFunction([c \in Companies |-> stock[c][i].quantity + depot[c][i]])
              = HereOf(stock, depot, i)
        /\ SumFunctionOnSet([s \in DOMAIN shipments |-> shipments[s].quantity],
               {s \in DOMAIN shipments : shipments[s].item = i
                                           /\ shipments[s].status = "IN_TRANSIT"})
              = AwayOf(shipments, i)
        /\ SumFunctionOnSet([j \in DOMAIN jobs |-> MadeBy(jobs[j], i)],
               {j \in DOMAIN jobs : jobs[j].status = "COMPLETED"})
              = JobsMade(jobs, i)
    BY <2>1, GoodsSummed
  <2> QED
    BY ONLY <2>4, <2>5, <2>6
<1> QED
  BY <1>1, <1>2, <1>3, EconomySound, PTL DEF EconomySpec


-----------------------------------------------------------------------------
(* Research: the status of a node, its jobs and what it unlocks agree.     *)

\* Every move keeps the nodes sound.
LEMMA MoveKeepsResearch ==
    ASSUME Typed, clock \in Nat, ResearchSound, Move
    PROVE  ResearchSound'
<1>1. CASE UNCHANGED science
  BY <1>1 DEF science, ResearchSound, NodeSound, RunningIn
<1>2. ASSUME NEW c \in Companies, NEW n \in Nodes, StartResearch(c, n) PROVE ResearchSound'
  BY <1>2, StartKeepsResearch
<1>3. ASSUME NEW c \in Companies, NEW n \in Nodes, CancelResearch(c, n) PROVE ResearchSound'
  <2>1. PICK k \in Running(c, n) :
              /\ labs' = [labs EXCEPT ![k].status = "CANCELLED"]
              /\ \A d \in Companies, m \in Nodes :
                    research'[d][m] = IF d = c /\ m = n THEN Shelved(c, n) ELSE research[d][m]
    BY <1>3, CancelResearchDoes
  <2>2. k \in RunningIn(labs, c, n) /\ known' = known
    BY <1>3 DEF CancelResearch, Running, RunningIn
  <2>3. Shelved(c, n) \in {"AVAILABLE", "LOCKED", "COMPLETED"} /\ Shelved(c, n) # "COMPLETED"
    BY DEF Shelved
  <2>4. "CANCELLED" \in {"CANCELLED", "COMPLETED"}
    OBVIOUS
  <2>5. \A d \in Companies, r \in Recipes : known[d][r] = "unlocked" => known'[d][r] = "unlocked"
    BY <2>2
  <2> DEFINE new == Shelved(c, n)
  <2>6. /\ new \in {"AVAILABLE", "LOCKED", "COMPLETED"} /\ new # "COMPLETED"
        /\ \A d \in Companies, m \in Nodes :
              research'[d][m] = IF d = c /\ m = n THEN new ELSE research[d][m]
    BY <2>1, <2>3
  <2> HIDE DEF new
  <2> QED
    BY ONLY ZenonT(60), <2>1, <2>2, <2>4, <2>5, <2>6, Typed, ResearchSound, c \in Companies, n \in Nodes,
            EndKeepsResearch
<1>4. ASSUME NEW j \in DOMAIN labs, labs[j].status = "RUNNING", CompleteResearch(j)
      PROVE  ResearchSound'
  <2> DEFINE c == labs[j].company
             n == labs[j].node
  <2>1. /\ c \in Companies /\ n \in Nodes
        /\ labs' = [labs EXCEPT ![j].status = "COMPLETED"]
        /\ \A d \in Companies, m \in Nodes :
              research'[d][m] = IF d = c /\ m = n THEN "COMPLETED" ELSE research[d][m]
        /\ \A d \in Companies, r \in Recipes :
              known'[d][r] = IF d = c /\ r \in Unlocks[n] THEN "unlocked" ELSE known[d][r]
    BY <1>4, CompleteResearchDoes
  <2>2. j \in RunningIn(labs, c, n)
    BY <1>4 DEF RunningIn
  <2> HIDE DEF c, n
  <2>3. Unlocks[n] \subseteq Recipes
    BY <2>1, ResearchAssumption
  <2>4. /\ \A d \in Companies, r \in Recipes : known[d][r] = "unlocked" => known'[d][r] = "unlocked"
        /\ \A r \in Unlocks[n] : known'[c][r] = "unlocked"
    BY <2>1, <2>3
  <2>5. "COMPLETED" \in {"CANCELLED", "COMPLETED"}
        /\ "COMPLETED" \in {"AVAILABLE", "LOCKED", "COMPLETED"}
    OBVIOUS
  <2> QED
    BY ONLY <2>1, <2>2, <2>4, <2>5, Typed, ResearchSound, EndKeepsResearch
<1>5. CASE ScienceMove
  BY <1>2, <1>3, <1>4, <1>5 DEF ScienceMove, OfScience
<1> QED
  BY <1>1, <1>5, MoveLeaves


ResearchedRows ==
    {r \in AllRows :
        \A c \in Companies, n \in Nodes : NodeSound(r.research, r.labs, r.known, c, n)}

\* That research is sound is said of the tables.
LEMMA RowsResearched ==
    /\ Rows \in ResearchedRows <=> Typed /\ ResearchSound
    /\ (Rows \in ResearchedRows)' <=> Typed' /\ ResearchSound'
<1>1. /\ Rows.research = research /\ Rows.labs = labs /\ Rows.known = known
      /\ Rows'.research = research' /\ Rows'.labs = labs' /\ Rows'.known = known'
  BY DEF Rows
<1>2. Rows \in AllRows <=> Typed
  BY RowsTyped
<1>3. Rows' \in AllRows <=> Typed'
  BY RowsTypedNext
<1>4. Rows \in ResearchedRows <=> Typed /\ ResearchSound
  BY <1>1, <1>2 DEF ResearchedRows, ResearchSound
<1>5. (Rows \in ResearchedRows)' <=> Typed' /\ ResearchSound'
  BY <1>1, <1>3 DEF ResearchedRows, ResearchSound
<1> QED
  BY <1>4, <1>5

\* Nothing is researched at the start.
LEMMA ResearchedStart ==
    ASSUME EconomyInit
    PROVE  RowsHold(ResearchedRows)
<1>1. /\ research = [c \in Companies |-> [n \in Nodes |-> "NONE"]] /\ labs = <<>> /\ saved = NoTick
  BY DEF EconomyInit, RowsInit, ResearchInit
<1>2. DOMAIN <<>> = {}
  OBVIOUS
<1>3. Typed
  BY SoundStart, RowsSound DEF SoundInv, RowsHold
<1>4. ResearchSound
  <2> SUFFICES ASSUME NEW c \in Companies, NEW n \in Nodes
               PROVE  NodeSound(research, labs, known, c, n)
    BY DEF ResearchSound
  <2>1. research[c][n] = "NONE" /\ RunningIn(labs, c, n) = {}
    BY <1>1, <1>2 DEF RunningIn
  <2> QED
    BY <2>1 DEF NodeSound
<1> QED
  BY <1>1, <1>3, <1>4, RowsResearched DEF RowsHold, Ticking

\* Every step keeps research sound, also in the rows a tick may put back.
LEMMA ResearchedStep ==
    ASSUME SoundInv, RowsHold(ResearchedRows), EconomyNext \/ UNCHANGED economyVars
    PROVE  RowsHold(ResearchedRows)'
<1>1. /\ clock \in Nat /\ Staged /\ Typed /\ ContractsSound
  BY RowsSound DEF SoundInv, RowsHold
<1>2. /\ ResearchSound /\ Rows \in ResearchedRows /\ (Ticking => saved \in ResearchedRows)
  BY RowsResearched DEF RowsHold
<1>3. ResearchedRows \in SUBSET AllRows
  BY DEF ResearchedRows
<1>4. ASSUME Move PROVE (Rows \in ResearchedRows)'
  <2>1. Typed'
    BY <1>1, <1>4, MoveTyped
  <2>2. ResearchSound'
    BY <1>1, <1>2, <1>4, MoveKeepsResearch
  <2> QED
    BY <2>1, <2>2, RowsResearched
<1>5. (Rows \in ResearchedRows)' /\ (Ticking => saved \in ResearchedRows)'
  BY <1>1, <1>2, <1>3, <1>4, StepPreserves
<1> QED
  BY <1>5 DEF RowsHold

\* The research table agrees with the running jobs, the prerequisites and the
\* recipes, whatever is started, cancelled and completed.
THEOREM ResearchTells == EconomySpec => []ResearchTellsTheTruth
<1>1. EconomyInit => RowsHold(ResearchedRows)
  BY ResearchedStart
<1>2. SoundInv /\ RowsHold(ResearchedRows) /\ [EconomyNext]_economyVars
         => RowsHold(ResearchedRows)'
  BY ResearchedStep
<1>3. RowsHold(ResearchedRows) => ResearchTellsTheTruth
  <2> SUFFICES ASSUME RowsHold(ResearchedRows), NEW c \in Companies, NEW n \in Nodes
               PROVE  /\ Cardinality(Running(c, n)) = IF research[c][n] = "RESEARCHING" THEN 1 ELSE 0
                      /\ research[c][n] \in {"RESEARCHING", "COMPLETED"} => PrerequisitesMet(c, n)
                      /\ research[c][n] = "COMPLETED" => \A r \in Unlocks[n] : known[c][r] = "unlocked"
    BY DEF ResearchTellsTheTruth
  <2>1. NodeSound(research, labs, known, c, n) /\ Running(c, n) = RunningIn(labs, c, n)
    BY RowsResearched DEF RowsHold, ResearchSound, Running, RunningIn
  <2>2. Cardinality({}) = 0 /\ \A j : Cardinality({j}) = 1
    BY FS_EmptySet, FS_Singleton
  <2>3. Cardinality(Running(c, n)) = IF research[c][n] = "RESEARCHING" THEN 1 ELSE 0
    BY <2>1, <2>2 DEF NodeSound
  <2> QED
    BY <2>1, <2>3 DEF NodeSound, PrerequisitesMet
<1> QED
  BY <1>1, <1>2, <1>3, EconomySound, PTL DEF EconomySpec


-----------------------------------------------------------------------------
(* A tick keeps companies solvent.                                         *)

SolventKept == \A c \in Companies : Sound(c) => Sound(c)'

\* A booking that takes no more than is free.
LEMMA FreeBooked ==
    ASSUME Typed, NEW c \in Companies, NEW k \in Int, NEW r \in Int, Booked(c, k, r),
           k >= r \/ r - k <= cash[c].cash - cash[c].reserved
    PROVE  SolventKept
<1> SUFFICES ASSUME NEW d \in Companies, cash[d].reserved <= cash[d].cash
             PROVE  cash'[d].reserved <= cash'[d].cash
  BY DEF SolventKept, Sound
<1>1. /\ cash'[d].cash = cash[d].cash + (IF d = c THEN k ELSE 0)
      /\ cash'[d].reserved = cash[d].reserved + (IF d = c THEN r ELSE 0)
  BY DEF Booked
<1>2. cash[d].cash \in Nat /\ cash[d].reserved \in Nat
  BY TypedBalances
<1>3. CASE d = c
  BY <1>1, <1>2, <1>3
<1>4. CASE d # c
  BY <1>1, <1>2, <1>4
<1> QED
  BY <1>3, <1>4

\* A settled match takes from the buyer what was reserved for it.
LEMMA SettlementSolvent ==
    ASSUME Typed, NEW m, NEW b, NEW s, NEW i, NEW n, NEW N, NEW R, Settlement(m, b, s, i, n, N, R)
    PROVE  SolventKept
<1> SUFFICES ASSUME NEW d \in Companies, cash[d].reserved <= cash[d].cash
             PROVE  cash'[d].reserved <= cash'[d].cash
  BY DEF SolventKept, Sound
<1>1. /\ Trading!PaymentMoved(cash', cash, b, s, N, R)
      /\ N \in Nat /\ R \in Nat /\ cash[b].reserved - R <= cash[b].cash - N
  BY DEF Settlement
<1>2. /\ cash'[d].cash = cash[d].cash - (IF d = b THEN N ELSE 0) + (IF d = s THEN N ELSE 0)
      /\ cash'[d].reserved = cash[d].reserved - (IF d = b THEN R ELSE 0)
  BY <1>1 DEF Trading!PaymentMoved
<1>3. cash[d].cash \in Nat /\ cash[d].reserved \in Nat
  BY TypedBalances
<1>4. CASE d = b
  BY <1>1, <1>2, <1>3, <1>4
<1>5. CASE d # b
  BY <1>1, <1>2, <1>3, <1>5
<1> QED
  BY <1>4, <1>5

\* No round of a tick makes a company reserve more than it has.
LEMMA RoundSolvent ==
    ASSUME Typed, clock \in Nat, Staged, TickRound
    PROVE  SolventKept
<1> DEFINE x == Head(plan)
<1>1. plan # <<>> /\ Round(x)
  BY DEF TickRound
<1>2. ASSUME cash' = cash PROVE SolventKept
  BY <1>2 DEF SolventKept, Sound
<1> HIDE DEF x
<1>3. CASE stage = "withdraw" /\ OfOrders(WithdrawOrder(x) /\ UNCHANGED trades)
  <2>1. x \in ToWithdraw
    BY <1>1, <1>3, ListAdvances DEF Staged, x
  <2>2. x \in DOMAIN orders /\ WithdrawOrder(x)
    BY <1>3, <2>1 DEF ToWithdraw, OfOrders
  <2> DEFINE row == orders[x]
  <2>3. row \in BookRow /\ Booked(row.company, 0, -row.reservedCash)
    BY <2>2, WithdrawOrderDoes
  <2>4. row.company \in Companies /\ row.reservedCash \in Nat
    BY <2>3, BookFields
  <2> HIDE DEF row
  <2>5. -row.reservedCash \in Int /\ 0 >= -row.reservedCash /\ 0 \in Int
    BY <2>4
  <2> QED
    BY <2>3, <2>4, <2>5, FreeBooked
<1>4. CASE stage = "bots" /\ IF IsOrder(x) THEN OfOrders(PlaceBotOrder(x) /\ UNCHANGED trades)
                             ELSE OfJobs(Produce(x))
  <2>1. x \in BotActions
    BY <1>1, <1>4, HeadTyped DEF Staged, x
  <2>2. CASE IsOrder(x)
    <3> DEFINE c == x.company
               i == x.wish.item
               n == x.wish.quantity
               p == x.wish.price
    <3>1. x \in QuoteActions
      BY <2>1, <2>2, BotActionKinds
    <3>2. c \in Companies /\ i \in Items /\ n \in Positive /\ p \in Positive
      BY <3>1, NpcsAssumption, BotsAssumption DEF QuoteActions, WishSet
    <3>3. AddBuyOrder(c, i, n, p) \/ AddSellOrder(c, i, n, p)
      BY <1>4, <2>2 DEF PlaceBotOrder, OfOrders
    <3> HIDE DEF c, i, n, p
    <3>4. CASE AddBuyOrder(c, i, n, p)
      <4>1. n * p \in Nat /\ n * p <= cash[c].cash - cash[c].reserved /\ Booked(c, 0, n * p)
        BY <3>2, <3>4, AddBuyOrderDoes
      <4> DEFINE k == n * p
      <4>2. k \in Int /\ 0 \in Int /\ k - 0 <= cash[c].cash - cash[c].reserved /\ Booked(c, 0, k)
        BY <4>1
      <4> HIDE DEF k
      <4> QED
        BY <3>2, <4>2, FreeBooked
    <3>5. CASE AddSellOrder(c, i, n, p)
      BY <1>2, <3>2, <3>5, AddSellOrderDoes
    <3> QED
      BY <3>3, <3>4, <3>5
  <2>3. CASE ~IsOrder(x)
    <3>1. x \in ProducerActions /\ Produce(x)
      BY <1>4, <2>1, <2>3, BotActionKinds DEF OfJobs
    <3>2. cash' = cash
      BY <3>1, ProduceDoes DEF Tables, StartJob
    <3> QED
      BY <1>2, <3>2
  <2> QED
    BY <2>2, <2>3
<1>5. CASE stage = "costs" /\ OfBuildings(ChargeBuilding(x))
  <2>1. x \in ToCharge
    BY <1>1, <1>5, ListAdvances DEF Staged, x
  <2>2. x \in DOMAIN buildings /\ ChargeBuilding(x)
    BY <1>5, <2>1 DEF ToCharge, OfBuildings
  <2> DEFINE c == buildings[x].company
  <2>3. /\ c \in Companies
        /\ \/ cash' = cash
           \/ \E n \in Nat : Booked(c, -n, 0) /\ n <= cash[c].cash - cash[c].reserved
    BY <2>2, ChargeBuildingDoes
  <2> HIDE DEF c
  <2>4. ASSUME NEW n \in Nat, Booked(c, -n, 0), n <= cash[c].cash - cash[c].reserved
        PROVE  SolventKept
    <3>1. -n \in Int /\ 0 \in Int /\ 0 - (-n) = n
      OBVIOUS
    <3> QED
      BY <2>3, <2>4, <3>1, FreeBooked
  <2> QED
    BY <1>2, <2>3, <2>4
<1>6. CASE stage = "salaries" /\ OfPeople(PaySalary(x))
  <2>1. x \in Companies
    BY <1>1, <1>6, HeadTyped DEF Staged, x
  <2>2. PICK n \in Nat : Booked(x, -n, 0) /\ (n = 0 \/ n <= cash[x].cash - cash[x].reserved)
    BY <1>6, <2>1, PaySalaryDoes DEF OfPeople
  <2>3. -n \in Int /\ 0 \in Int /\ 0 - (-n) = n /\ (n = 0 => -n >= 0)
    OBVIOUS
  <2> QED
    BY <2>1, <2>2, <2>3, FreeBooked
<1>7. CASE stage = "market" /\ OfOrders(Settle(x))
  <2>1. x \in PlacedMatches /\ Settle(x)
    BY <1>1, <1>7, HeadTyped DEF Staged, x, OfOrders
  <2>2. CASE StillOpen(x)
    BY <2>1, <2>2, SettleDoes, SettlementSolvent
  <2>3. CASE ~StillOpen(x)
    BY <1>2, <2>1, <2>3 DEF Settle
  <2> QED
    BY <2>2, <2>3
<1>8. CASE cash' = cash
  BY <1>2, <1>8
<1>9. \/ stage = "production" /\ OfJobs(CompleteJob(x))
      \/ stage = "research" /\ OfScience(CompleteResearch(x))
      \/ stage = "shipments" /\ OfShipments(Deliver(x))
      \/ stage = "arrivals" /\ OfPeople(Arrive(x))
      \/ stage = "demand" /\ OfContracts(Consume(x[1], x[2]) /\ UNCHANGED contracts)
      \/ stage = "expire" /\ OfContracts(ExpireContracts)
      \/ stage = "offers" /\ OfContracts(OfferContract(x))
      \/ stage = "candles" /\ OfCandles(UpsertCandles)
      => cash' = cash
  BY DEF OfJobs, OfScience, OfShipments, OfPeople, OfContracts, OfCandles, CompleteJob,
         CompleteResearch, Deliver, Arrive, Consume, ExpireContracts, OfferContract, UpsertCandles,
         Tables
<1> QED
  BY <1>1, <1>3, <1>4, <1>5, <1>6, <1>7, <1>8, <1>9 DEF Round

\* What a step of the system is, seen from a tick that runs.
LEMMA TickingSteps ==
    ASSUME Ticking, EconomyNext
    PROVE  \/ TickRound \/ TickThrows
           \/ NextStage /\ UNCHANGED <<allRows, saved, clock>>
           \/ CommitTick /\ UNCHANGED allRows /\ saved' = NoTick /\ clock' = ThisTick
<1>1. ~Requests /\ ~BeginTick /\ ~BoundsReached
  BY DEF Requests, TradeRequest, BuildingRequest, WorkforceRequest, ResearchRequest,
         ProductionRequest, ShipmentRequest, ContractRequest, RefundRequest, Requesting,
         BeginTick, BoundsReached
<1> QED
  BY <1>1 DEF EconomyNext, Advance, NextStage, CommitTick

\* No step of a tick makes a company reserve more than it has.
THEOREM TicksSolvent == EconomySpec => TicksKeepSolvency
<1>1. SoundInv /\ [EconomyNext]_economyVars
         => [Ticking => \A c \in Companies : Sound(c) => Sound(c)' \/ TickThrows]_economyVars
  <2> SUFFICES ASSUME SoundInv, EconomyNext, Ticking, ~TickThrows, NEW c \in Companies, Sound(c)
               PROVE  Sound(c)'
    OBVIOUS
  <2>1. Typed /\ clock \in Nat /\ Staged
    BY RowsSound DEF SoundInv, RowsHold
  <2>2. CASE TickRound
    BY <2>1, <2>2, RoundSolvent DEF SolventKept
  <2>3. CASE UNCHANGED allRows
    BY <2>3 DEF allRows, Sound
  <2> QED
    BY <2>2, <2>3, TickingSteps
<1> QED
  BY <1>1, EconomySound, PTL DEF EconomySpec, TicksKeepSolvency


-----------------------------------------------------------------------------
(* What has been closed stays as it is.                                    *)

Unreopened(was, now, closed) ==
    \A k \in DOMAIN was : was[k].status \in closed => k \in DOMAIN now /\ now[k] = was[k]

\* Between the tables of r and those of s nothing is reopened.
ClosedKept(r, s) ==
    /\ Unreopened(r.orders, s.orders, {"FILLED", "CANCELLED"})
    /\ Unreopened(r.jobs, s.jobs, {"CANCELLED", "COMPLETED"})
    /\ Unreopened(r.labs, s.labs, {"CANCELLED", "COMPLETED"})
    /\ Unreopened(r.shipments, s.shipments, {"CANCELLED", "DELIVERED"})
    /\ Unreopened(r.contracts, s.contracts, {"FULFILLED", "EXPIRED"})

\* What is kept by two steps is kept by both.
LEMMA ClosedKeptTwice ==
    ASSUME NEW r, NEW s, NEW t, ClosedKept(r, s), ClosedKept(s, t)
    PROVE  ClosedKept(r, t)
<1>1. ASSUME NEW a, NEW b, NEW c, NEW closed, Unreopened(a, b, closed), Unreopened(b, c, closed)
      PROVE  Unreopened(a, c, closed)
  BY <1>1 DEF Unreopened
<1> QED
  BY <1>1 DEF ClosedKept

\* A row is added, and all others are kept.
LEMMA AddedReopensNone ==
    ASSUME NEW S, NEW s \in Seq(S), NEW row \in S, NEW closed
    PROVE  Unreopened(s, Append(s, row), closed)
BY RowAdded DEF Unreopened

\* A row that is not closed is written, and all others are kept.
LEMMA WrittenReopensNone ==
    ASSUME NEW s, NEW new, NEW closed, NEW k \in DOMAIN s, s[k].status \notin closed,
           DOMAIN new = DOMAIN s, \A j \in DOMAIN s : j # k => new[j] = s[j]
    PROVE  Unreopened(s, new, closed)
BY DEF Unreopened

\* Jobs that are over stay as they are.
LEMMA JobsStayClosed ==
    ASSUME Typed, clock \in Nat, JobMove
    PROVE  Unreopened(jobs, jobs', {"CANCELLED", "COMPLETED"})
<1>1. ASSUME NEW c \in Companies, NEW r \in Recipes, NEW runs \in Positive, NEW tick \in Nat,
             StartJob(c, r, runs, tick)
      PROVE  Unreopened(jobs, jobs', {"CANCELLED", "COMPLETED"})
  <2>1. \E row \in JobRow : jobs' = Append(jobs, row)
    BY <1>1, StartJobDoes
  <2> QED
    BY <2>1, AddedReopensNone DEF Typed
<1>2. ASSUME NEW k \in DOMAIN jobs, jobs[k].status = "IN_PROGRESS", CancelJob(k) \/ CompleteJob(k)
      PROVE  Unreopened(jobs, jobs', {"CANCELLED", "COMPLETED"})
  <2>1. PICK status \in {"IN_PROGRESS", "CANCELLED", "COMPLETED"} :
           jobs' = [jobs EXCEPT ![k].status = status]
    BY <1>2 DEF CancelJob, CompleteJob
  <2>2. DOMAIN jobs' = DOMAIN jobs /\ \A j \in DOMAIN jobs : j # k => jobs'[j] = jobs[j]
    BY ONLY Typed, k \in DOMAIN jobs, <2>1, JobWritten
  <2>3. jobs[k].status \notin {"CANCELLED", "COMPLETED"}
    BY <1>2
  <2> QED
    BY <2>2, <2>3, WrittenReopensNone
<1>3. clock \in Nat /\ ThisTick \in Nat
  BY DEF ThisTick
<1> QED
  BY <1>1, <1>2, <1>3 DEF JobMove, OfJobs, CancelJob

\* Research that is over stays as it is.
LEMMA LabsStayClosed ==
    ASSUME Typed, clock \in Nat, ScienceMove
    PROVE  Unreopened(labs, labs', {"CANCELLED", "COMPLETED"})
<1>1. ASSUME NEW c \in Companies, NEW n \in Nodes, StartResearch(c, n)
      PROVE  Unreopened(labs, labs', {"CANCELLED", "COMPLETED"})
  <2>1. \E row \in LabRow : labs' = Append(labs, row)
    BY <1>1, StartResearchDoes
  <2> QED
    BY <2>1, AddedReopensNone DEF Typed
<1>2. ASSUME NEW k \in DOMAIN labs, labs[k].status = "RUNNING",
             NEW status \in {"RUNNING", "CANCELLED", "COMPLETED"},
             labs' = [labs EXCEPT ![k].status = status]
      PROVE  Unreopened(labs, labs', {"CANCELLED", "COMPLETED"})
  <2>1. DOMAIN labs' = DOMAIN labs /\ \A j \in DOMAIN labs : j # k => labs'[j] = labs[j]
    BY ONLY Typed, <1>2, LabWritten
  <2>2. labs[k].status \notin {"CANCELLED", "COMPLETED"}
    BY <1>2
  <2> QED
    BY <2>1, <2>2, WrittenReopensNone
<1>3. ASSUME NEW c \in Companies, NEW n \in Nodes, CancelResearch(c, n)
      PROVE  Unreopened(labs, labs', {"CANCELLED", "COMPLETED"})
  <2>1. \E k \in DOMAIN labs : labs[k].status = "RUNNING"
                                 /\ labs' = [labs EXCEPT ![k].status = "CANCELLED"]
    BY <1>3 DEF CancelResearch, Running
  <2> QED
    BY <1>2, <2>1
<1>4. ASSUME NEW k \in DOMAIN labs, labs[k].status = "RUNNING", CompleteResearch(k)
      PROVE  Unreopened(labs, labs', {"CANCELLED", "COMPLETED"})
  BY <1>2, <1>4 DEF CompleteResearch
<1> QED
  BY <1>1, <1>3, <1>4 DEF ScienceMove, OfScience

\* Shipments that are over stay as they are.
LEMMA ShipmentsStayClosed ==
    ASSUME Typed, clock \in Nat, ShipmentMove
    PROVE  Unreopened(shipments, shipments', {"CANCELLED", "DELIVERED"})
<1>1. ASSUME NEW c \in Companies, NEW i \in Items, NEW n \in Positive, CreateShipment(c, i, n)
      PROVE  Unreopened(shipments, shipments', {"CANCELLED", "DELIVERED"})
  <2>1. \E row \in ShipmentRow : shipments' = Append(shipments, row)
    BY <1>1, CreateShipmentDoes
  <2> QED
    BY <2>1, AddedReopensNone DEF Typed
<1>2. ASSUME NEW k \in DOMAIN shipments, shipments[k].status = "IN_TRANSIT",
             NEW status \in {"IN_TRANSIT", "CANCELLED", "DELIVERED"},
             shipments' = [shipments EXCEPT ![k].status = status]
      PROVE  Unreopened(shipments, shipments', {"CANCELLED", "DELIVERED"})
  <2>1. /\ DOMAIN shipments' = DOMAIN shipments
        /\ \A j \in DOMAIN shipments : j # k => shipments'[j] = shipments[j]
    BY ONLY Typed, <1>2, ShipmentWritten
  <2>2. shipments[k].status \notin {"CANCELLED", "DELIVERED"}
    BY <1>2
  <2> QED
    BY <2>1, <2>2, WrittenReopensNone
<1>3. ASSUME NEW k \in DOMAIN shipments, CancelShipment(k)
      PROVE  Unreopened(shipments, shipments', {"CANCELLED", "DELIVERED"})
  BY <1>2, <1>3 DEF CancelShipment, InTransit
<1>4. ASSUME NEW k \in DOMAIN shipments, shipments[k].status = "IN_TRANSIT", Deliver(k)
      PROVE  Unreopened(shipments, shipments', {"CANCELLED", "DELIVERED"})
  <2>1. \/ shipments' = [shipments EXCEPT ![k].status = "DELIVERED"]
        \/ shipments' = shipments
    BY <1>4 DEF Deliver
  <2> QED
    BY <1>2, <1>4, <2>1 DEF Unreopened
<1> QED
  BY <1>1, <1>3, <1>4 DEF ShipmentMove, OfShipments

\* Contracts that are over stay as they are.
LEMMA ContractsStayClosed ==
    ASSUME Typed, clock \in Nat, ContractsSound, ContractMove
    PROVE  Unreopened(contracts, contracts', {"FULFILLED", "EXPIRED"})
<1>1. ASSUME NEW k \in DOMAIN contracts, NEW row \in ContractRow,
             contracts' = [contracts EXCEPT ![k] = row], contracts[k].status \in Live
      PROVE  Unreopened(contracts, contracts', {"FULFILLED", "EXPIRED"})
  <2>1. /\ DOMAIN contracts' = DOMAIN contracts
        /\ \A j \in DOMAIN contracts : contracts'[j] = IF j = k THEN row ELSE contracts[j]
    BY ONLY Typed, <1>1, ContractWritten
  <2>2. contracts[k].status \notin {"FULFILLED", "EXPIRED"}
    BY <1>1 DEF Live
  <2> QED
    BY <2>1, <2>2, WrittenReopensNone
<1>2. ASSUME NEW k \in DOMAIN contracts, NEW c \in Players, AcceptContract(c, k)
      PROVE  Unreopened(contracts, contracts', {"FULFILLED", "EXPIRED"})
  <2>1. /\ contracts[k].status = "OPEN"
        /\ \E row \in ContractRow : contracts' = [contracts EXCEPT ![k] = row]
    BY <1>2, AcceptContractDoes
  <2> QED
    BY <1>1, <2>1 DEF Live
<1>3. ASSUME NEW k \in DOMAIN contracts, NEW n \in Positive, FulfillContract(k, n)
      PROVE  Unreopened(contracts, contracts', {"FULFILLED", "EXPIRED"})
  <2>1. contracts[k].status \in {"ACCEPTED", "PARTIALLY_FULFILLED"}
    BY <1>3 DEF FulfillContract
  <2>2. contracts[k].seller \in Players
    BY <2>1 DEF ContractsSound, ContractSound
  <2>3. \E row \in ContractRow : contracts' = [contracts EXCEPT ![k] = row]
    BY <1>3, <2>2, FulfillContractDoes
  <2> QED
    BY <1>1, <2>1, <2>3 DEF Live
<1>4. ASSUME ExpireContracts
      PROVE  Unreopened(contracts, contracts', {"FULFILLED", "EXPIRED"})
  <2>1. /\ DOMAIN contracts' = DOMAIN contracts
        /\ \A k \in DOMAIN contracts :
              contracts[k].status \notin Live => contracts'[k] = contracts[k]
    BY <1>4, ExpireContractsDoes
  <2> QED
    BY <2>1 DEF Unreopened, Live
<1>5. ASSUME NEW k \in Nat, Items # {}, Npcs # {}, OfferContract(k)
      PROVE  Unreopened(contracts, contracts', {"FULFILLED", "EXPIRED"})
  <2>1. contracts' = contracts \/ \E row \in ContractRow : contracts' = Append(contracts, row)
    BY <1>5, OfferContractDoes
  <2>2. ASSUME NEW row \in ContractRow, contracts' = Append(contracts, row)
        PROVE  Unreopened(contracts, contracts', {"FULFILLED", "EXPIRED"})
    BY <2>2, AddedReopensNone DEF Typed
  <2> QED
    BY <2>1, <2>2 DEF Unreopened
<1> QED
  BY <1>2, <1>3, <1>4, <1>5 DEF ContractMove, OfContracts

\* No move reopens what is over.
LEMMA MoveKeepsClosed ==
    ASSUME Typed, clock \in Nat, ContractsSound, OrdersSound, Move
    PROVE  ClosedKept(Rows, Rows')
<1>1. Unreopened(orders, orders', {"FILLED", "CANCELLED"})
  BY OrdersStaySound DEF OrdersKept, Kept, Unreopened
<1>2. Unreopened(jobs, jobs', {"CANCELLED", "COMPLETED"})
  BY MoveLeaves, JobsStayClosed DEF Unreopened
<1>3. Unreopened(labs, labs', {"CANCELLED", "COMPLETED"})
  BY MoveLeaves, LabsStayClosed DEF Unreopened, science
<1>4. Unreopened(shipments, shipments', {"CANCELLED", "DELIVERED"})
  BY MoveLeaves, ShipmentsStayClosed DEF Unreopened
<1>5. Unreopened(contracts, contracts', {"FULFILLED", "EXPIRED"})
  BY MoveLeaves, ContractsStayClosed DEF Unreopened
<1>6. /\ Rows.orders = orders /\ Rows.jobs = jobs /\ Rows.labs = labs
      /\ Rows.shipments = shipments /\ Rows.contracts = contracts
      /\ Rows'.orders = orders' /\ Rows'.jobs = jobs' /\ Rows'.labs = labs'
      /\ Rows'.shipments = shipments' /\ Rows'.contracts = contracts'
  BY DEF Rows
<1> QED
  BY <1>1, <1>2, <1>3, <1>4, <1>5, <1>6 DEF ClosedKept


ClosedInv == Ticking => ClosedKept(saved, Rows)

\* Nothing is reopened where nothing is written.
LEMMA SameRowsKept ==
    ASSUME NEW r
    PROVE  ClosedKept(r, r)
BY DEF ClosedKept, Unreopened

\* Every step keeps what is over, for those who see the last commit and for
\* the tick that runs.
LEMMA ClosedStep ==
    ASSUME SoundInv, ClosedInv, EconomyNext \/ UNCHANGED economyVars
    PROVE  ClosedInv' /\ ClosedKept(Committed, Committed')
<1>1. /\ clock \in Nat /\ Staged /\ Typed /\ ContractsSound /\ OrdersSound
      /\ Rows \in AllRows /\ (Ticking => saved \in AllRows)
  BY RowsSound DEF SoundInv, RowsHold, SoundRows
<1>2. ASSUME Move PROVE ClosedKept(Rows, Rows')
  BY <1>1, <1>2, MoveKeepsClosed
<1>3. ASSUME UNCHANGED <<allRows, saved>>
      PROVE  ClosedInv' /\ ClosedKept(Committed, Committed')
  <2>1. Rows' = Rows /\ saved' = saved
    BY <1>3, RowsAreKept
  <2> QED
    BY <2>1, SameRowsKept DEF ClosedInv, Committed, Ticking
<1>4. CASE Requests
  <2>1. ~Ticking /\ saved' = saved /\ Move
    BY <1>1, <1>4, RequestMoves
  <2>2. ~Ticking'
    BY <2>1 DEF Ticking
  <2> QED
    BY <1>2, <2>1, <2>2 DEF ClosedInv, Committed
<1>5. CASE BeginTick
  <2>1. ~Ticking /\ saved' = Rows /\ Rows' = Rows
    BY <1>5, RowsAreKept DEF BeginTick
  <2>2. Ticking'
    BY <2>1, RowsAreNotNoTick DEF Ticking
  <2> QED
    BY <2>1, <2>2, SameRowsKept DEF ClosedInv, Committed
<1>6. CASE TickRound
  <2>1. Ticking /\ saved' = saved /\ (Move \/ UNCHANGED allRows)
    BY <1>1, <1>6, RoundMoves
  <2>2. CASE UNCHANGED allRows
    BY <1>3, <2>1, <2>2
  <2>3. CASE Move
    <3>1. ClosedKept(saved, Rows) /\ ClosedKept(Rows, Rows')
      BY <1>2, <2>1, <2>3 DEF ClosedInv
    <3>2. ClosedKept(saved, Rows')
      BY ONLY <3>1, ClosedKeptTwice
    <3>3. Ticking'
      BY <2>1 DEF Ticking
    <3> QED
      BY <2>1, <3>2, <3>3, SameRowsKept DEF ClosedInv, Committed
  <2> QED
    BY <2>1, <2>2, <2>3
<1>7. CASE NextStage
  BY <1>3, <1>7 DEF NextStage
<1>8. CASE CommitTick
  <2>1. Ticking /\ saved' = NoTick /\ Rows' = Rows
    BY <1>8, RowsAreKept DEF CommitTick
  <2>2. ~Ticking'
    BY <2>1 DEF Ticking
  <2> QED
    BY <2>1, <2>2 DEF ClosedInv, Committed
<1>9. CASE TickThrows
  <2>1. Ticking /\ saved \in AllRows
    BY <1>1, <1>9 DEF TickThrows
  <2>2. Rows' = saved /\ saved' = NoTick
    BY <1>9, <2>1, RowsSame DEF TickThrows
  <2>3. ~Ticking'
    BY <2>2 DEF Ticking
  <2> QED
    BY <2>1, <2>2, <2>3, SameRowsKept DEF ClosedInv, Committed
<1>10. CASE BoundsReached \/ UNCHANGED economyVars
  BY <1>3, <1>10 DEF BoundsReached, economyVars
<1> QED
  BY <1>4, <1>5, <1>6, <1>7, <1>8, <1>9, <1>10 DEF EconomyNext, Advance

\* What is over stays as it is: no tick, request or failure reopens it.
THEOREM ClosedStays == EconomySpec => ClosedStaysClosed
<1>1. EconomyInit => ClosedInv
  BY DEF EconomyInit, RowsInit, ClosedInv, Ticking
<1>2. SoundInv /\ ClosedInv /\ [EconomyNext]_economyVars => ClosedInv'
  BY ClosedStep
<1>3. SoundInv /\ ClosedInv /\ [EconomyNext]_economyVars
         => [/\ Kept(Committed.orders, Committed'.orders, {"FILLED", "CANCELLED"})
             /\ Kept(Committed.jobs, Committed'.jobs, {"CANCELLED", "COMPLETED"})
             /\ Kept(Committed.labs, Committed'.labs, {"CANCELLED", "COMPLETED"})
             /\ Kept(Committed.shipments, Committed'.shipments, {"CANCELLED", "DELIVERED"})
             /\ Kept(Committed.contracts, Committed'.contracts, {"FULFILLED", "EXPIRED"})]_economyVars
  BY ClosedStep DEF ClosedKept, Unreopened, Kept
<1> QED
  BY <1>1, <1>2, <1>3, EconomySound, PTL DEF EconomySpec, ClosedStaysClosed


-----------------------------------------------------------------------------
(* Candles: their volume is what has been bought, but for the trades of    *)
(* the tick that is running, whose candles are drawn last.                 *)

\* The candles of the running tick have been drawn.
CandlesDrawn == stage = "candles" /\ plan = <<>>

CandleInv ==
    /\ ~Ticking => Shown(Rows, clock)
    /\ Ticking => Shown(saved, clock)
    /\ stage = "candles" => plan \in {<<>>, <<1>>}
    /\ Ticking /\ CandlesDrawn => Shown(Rows, ThisTick)
    /\ Ticking /\ ~CandlesDrawn =>
          /\ TradedBy(trades, ThisTick) /\ DrawnBy(candles, clock)
          /\ \A i \in Items : VolumeOf(candles, i) + TradedVolume(i, ThisTick) = BoughtOf(orders, i)

\* A move enters a trade of the tick for what an order buys, or none.
LEMMA MoveTrades ==
    ASSUME Typed, clock \in Nat, ContractsSound, OrdersSound, Move
    PROVE  \/ trades' = trades /\ \A i : BoughtOf(orders', i) = BoughtOf(orders, i)
           \/ \E i \in Items, n \in Positive, row \in TradeRow :
                 /\ row.item = i /\ row.quantity = n /\ row.tick = ThisTick
                 /\ trades' = Append(trades, row)
                 /\ \A j : BoughtOf(orders', j) = BoughtOf(orders, j) + (IF i = j THEN n ELSE 0)
<1>1. CASE OrderMove \/ WithdrawMove
  BY <1>1, ReserveMoves
<1>2. CASE SettleMove
  <2>1. \E m \in PlacedMatches, b \in Companies, s \in Companies, i \in Items,
           n \in Positive, R \in Nat :
           /\ OrdersSettled(m, b, s, i, n, R)
           /\ \E row \in TradeRow : /\ row.item = i /\ row.quantity = n /\ row.tick = ThisTick
                                    /\ trades' = Append(trades, row)
    BY <1>2, SettleMoves
  <2>2. PICK m \in PlacedMatches, b \in Companies, s \in Companies, i \in Items,
             n \in Positive, R \in Nat :
           /\ OrdersSettled(m, b, s, i, n, R)
           /\ \E row \in TradeRow : /\ row.item = i /\ row.quantity = n /\ row.tick = ThisTick
                                    /\ trades' = Append(trades, row)
    BY ONLY <2>1
  <2>3. \A j : BoughtOf(orders', j) = BoughtOf(orders, j) + (IF i = j THEN n ELSE 0)
    BY ONLY <2>2 DEF OrdersSettled
  <2> QED
    BY ONLY <2>2, <2>3
<1>3. CASE orders' = orders /\ trades' = trades
  BY <1>3
<1> QED
  BY <1>1, <1>2, <1>3, MoneyMoves


\* A round that is not the last stage's keeps what was drawn and traded in
\* step with what was bought.
LEMMA RoundKeepsVolumes ==
    ASSUME Typed, clock \in Nat, ContractsSound, OrdersSound, Move, candles' = candles,
           clock' = clock, TradedBy(trades, ThisTick),
           \A i \in Items :
              VolumeOf(candles, i) + TradedVolume(i, ThisTick) = BoughtOf(orders, i)
    PROVE  /\ TradedBy(trades', ThisTick)
           /\ \A i \in Items :
                 VolumeOf(candles', i) + TradedVolume(i, ThisTick)' = BoughtOf(orders', i)
<1>1. \A i : TradedVolume(i, ThisTick)'
         = SumFunctionOnSet([k \in DOMAIN trades' |-> trades'[k].quantity],
               {k \in DOMAIN trades' : trades'[k].item = i /\ trades'[k].tick = ThisTick})
  BY DEF TradedVolume, TradedIn, ThisTick
<1>2. CASE trades' = trades /\ \A i : BoughtOf(orders', i) = BoughtOf(orders, i)
  <2>1. \A i : TradedVolume(i, ThisTick)' = TradedVolume(i, ThisTick)
    <3>1. ThisTick' = ThisTick
      BY DEF ThisTick
    <3> QED
      BY <1>2, <3>1 DEF TradedVolume, TradedIn
  <2> QED
    BY <1>2, <2>1
<1>3. ASSUME NEW i \in Items, NEW n \in Positive, NEW row \in TradeRow,
             row.item = i, row.quantity = n, row.tick = ThisTick, trades' = Append(trades, row),
             \A j : BoughtOf(orders', j) = BoughtOf(orders, j) + (IF i = j THEN n ELSE 0)
      PROVE  /\ TradedBy(trades', ThisTick)
             /\ \A j \in Items :
                   VolumeOf(candles', j) + TradedVolume(j, ThisTick)' = BoughtOf(orders', j)
  <2>1. TradedBy(trades', ThisTick)
    <3>1. trades \in Seq(TradeRow)
      BY DEF Typed
    <3>2. /\ DOMAIN trades' = DOMAIN trades \cup {Len(trades) + 1}
          /\ \A k \in DOMAIN trades : trades'[k] = trades[k]
          /\ trades'[Len(trades) + 1] = row
      BY <1>3, <3>1, RowAdded
    <3>3. ThisTick \in Nat
      BY DEF ThisTick
    <3> QED
      BY <1>3, <3>2, <3>3 DEF TradedBy
  <2>2. ASSUME NEW j \in Items
        PROVE  VolumeOf(candles', j) + TradedVolume(j, ThisTick)' = BoughtOf(orders', j)
    <3>1. TradedVolume(j, ThisTick)'
             = TradedVolume(j, ThisTick) + (IF row.item = j THEN row.quantity ELSE 0)
      <4>1. SumFunctionOnSet([k \in DOMAIN trades' |-> trades'[k].quantity],
               {k \in DOMAIN trades' : trades'[k].item = j /\ trades'[k].tick = ThisTick})
               = TradedVolume(j, ThisTick) + (IF row.item = j THEN row.quantity ELSE 0)
        <5>1. /\ Typed /\ row \in TradeRow /\ trades' = Append(trades, row) /\ row.tick = ThisTick
          BY <1>3
        <5> QED
          BY ONLY <5>1, TradeEntered
      <4> QED
        BY ONLY <1>1, <4>1
    <3>2. /\ VolumeOf(candles, j) \in Int /\ TradedVolume(j, ThisTick) \in Int
          /\ n \in Int
      BY VolumesTyped DEF Positive
    <3>3. VolumeOf(candles, j) + TradedVolume(j, ThisTick) = BoughtOf(orders, j)
      OBVIOUS
    <3>4. VolumeOf(candles', j) = VolumeOf(candles, j)
      OBVIOUS
    <3>5. BoughtOf(orders', j) = BoughtOf(orders, j) + (IF i = j THEN n ELSE 0)
      BY <1>3
    <3> QED
      BY ONLY <1>3, <3>1, <3>2, <3>3, <3>4, <3>5
  <2> QED
    BY <2>1, <2>2
<1> QED
  BY <1>2, <1>3, MoveTrades

\* Candles keep showing what was bought, whatever step is made.
LEMMA CandleStep ==
    ASSUME SoundInv, CandleInv, EconomyNext \/ UNCHANGED economyVars
    PROVE  CandleInv'
<1>1. /\ clock \in Nat /\ Staged /\ Typed /\ ContractsSound /\ OrdersSound
      /\ Rows \in AllRows /\ (Ticking => saved \in AllRows)
      /\ (stage = "idle" <=> ~Ticking) /\ stage \in Stages \cup {"idle"}
  BY RowsSound DEF SoundInv, RowsHold, SoundRows, Staged
<1>2. /\ Rows.trades = trades /\ Rows.candles = candles /\ Rows.orders = orders
      /\ Rows'.trades = trades' /\ Rows'.candles = candles' /\ Rows'.orders = orders'
  BY DEF Rows
<1>3. ASSUME UNCHANGED economyVars PROVE CandleInv'
  <2>1. Rows' = Rows /\ saved' = saved /\ clock' = clock /\ stage' = stage /\ plan' = plan
        /\ trades' = trades /\ candles' = candles /\ orders' = orders
    BY <1>3, RowsAreKept DEF economyVars, allRows
  <2> QED
    BY <2>1 DEF CandleInv, Ticking, CandlesDrawn, ThisTick, TradedVolume, TradedIn
<1>4. CASE Requests
  <2>1. /\ ~Ticking /\ UNCHANGED <<clock, stage, plan, saved>> /\ Move
        /\ trades' = trades /\ candles' = candles
    BY <1>1, <1>4, RequestMoves, TradesAndCandlesKept
  <2>2. \A i : BoughtOf(orders', i) = BoughtOf(orders, i)
    <3>1. \A row \in TradeRow : trades' # Append(trades, row)
      <4>1. trades \in Seq(TradeRow)
        BY <1>1 DEF Typed
      <4>2. \A row \in TradeRow : Len(Append(trades, row)) = Len(trades) + 1 /\ Len(trades) \in Nat
        BY <4>1, RowAdded
      <4> QED
        BY <2>1, <4>2
    <3> QED
      BY <1>1, <2>1, <3>1, MoveTrades
  <2>3. ~Ticking' /\ stage' # "candles"
    BY <1>1, <2>1 DEF Ticking, Stages
  <2>4. Shown(Rows, clock)'
    BY <1>2, <2>1, <2>2 DEF CandleInv, Shown
  <2> QED
    BY <2>3, <2>4 DEF CandleInv
<1>5. CASE BeginTick
  <2>1. /\ ~Ticking /\ saved' = Rows /\ UNCHANGED allRows /\ clock' = clock /\ Rows' = Rows
        /\ stage' = "withdraw"
    BY <1>5, RowsAreKept, PipelineIs DEF BeginTick
  <2>2. Ticking' /\ stage' # "candles"
    BY <2>1, RowsAreNotNoTick DEF Ticking
  <2>3. Shown(Rows, clock)
    BY <2>1 DEF CandleInv
  <2>4. \A i : TradedVolume(i, ThisTick) = 0
    BY <1>1, <1>2, <2>3, NothingTradedYet DEF Shown
  <2>5. TradedBy(trades, ThisTick)
    <3>1. \A k \in DOMAIN trades : trades[k].tick <= clock /\ trades[k].tick \in Nat
      <4>1. \A k \in DOMAIN trades : trades[k] \in TradeRow
        BY <1>1, RowsOfTable DEF Typed
      <4> QED
        BY <1>2, <2>3, <4>1 DEF Shown, TradedBy, TradeRow
    <3> QED
      BY <1>1, <3>1 DEF TradedBy, ThisTick
  <2>6. /\ DrawnBy(candles, clock)
        /\ \A i \in Items : VolumeOf(candles, i) + TradedVolume(i, ThisTick) = BoughtOf(orders, i)
    <3>1. \A i : VolumeOf(candles, i) \in Int
      BY <1>1, VolumesTyped
    <3> QED
      BY <1>2, <2>3, <2>4, <3>1 DEF Shown
  <2>7. /\ ThisTick' = ThisTick /\ trades' = trades /\ candles' = candles /\ orders' = orders
        /\ \A i : TradedVolume(i, ThisTick)' = TradedVolume(i, ThisTick)
    BY <2>1 DEF ThisTick, allRows, TradedVolume, TradedIn
  <2>8. /\ TradedBy(trades, ThisTick)' /\ DrawnBy(candles, clock)'
        /\ \A i \in Items : VolumeOf(candles', i) + TradedVolume(i, ThisTick)' = BoughtOf(orders', i)
    BY <2>1, <2>5, <2>6, <2>7
  <2>9. Shown(saved, clock)'
    BY <2>1, <2>3
  <2> QED
    BY <2>2, <2>8, <2>9 DEF CandleInv, CandlesDrawn
<1>6. CASE TickRound /\ stage # "candles"
  <2>1. /\ Ticking /\ UNCHANGED <<clock, stage, saved>> /\ candles' = candles
        /\ (Move \/ UNCHANGED allRows)
    BY <1>1, <1>6, RoundMoves, TradesAndCandlesKept
  <2>2. /\ Ticking' /\ stage' # "candles" /\ ~CandlesDrawn
    BY <1>6, <2>1 DEF Ticking, CandlesDrawn
  <2>3. /\ TradedBy(trades, ThisTick) /\ DrawnBy(candles, clock) /\ Shown(saved, clock)
        /\ \A i \in Items : VolumeOf(candles, i) + TradedVolume(i, ThisTick) = BoughtOf(orders, i)
    BY <2>1, <2>2 DEF CandleInv
  <2>4. /\ TradedBy(trades', ThisTick)
        /\ \A i \in Items : VolumeOf(candles', i) + TradedVolume(i, ThisTick)' = BoughtOf(orders', i)
    <3>1. CASE Move
      BY <1>1, <2>1, <2>3, <3>1, RoundKeepsVolumes
    <3>2. CASE UNCHANGED allRows
      <4>1. /\ ThisTick' = ThisTick /\ trades' = trades /\ candles' = candles /\ orders' = orders
            /\ \A i : TradedVolume(i, ThisTick)' = TradedVolume(i, ThisTick)
        BY <2>1, <3>2 DEF ThisTick, allRows, TradedVolume, TradedIn
      <4> QED
        BY <2>3, <4>1
    <3> QED
      BY <2>1, <3>1, <3>2
  <2>5. ThisTick' = ThisTick
    BY <2>1 DEF ThisTick
  <2>6. /\ TradedBy(trades, ThisTick)' /\ DrawnBy(candles, clock)' /\ Shown(saved, clock)'
    BY <2>1, <2>3, <2>4, <2>5
  <2> QED
    BY <2>2, <2>4, <2>6 DEF CandleInv, CandlesDrawn
<1>7. CASE TickRound /\ stage = "candles"
  <2>1. /\ Ticking /\ UNCHANGED <<clock, stage, saved>> /\ plan # <<>> /\ plan' = Tail(plan)
        /\ orders' = orders /\ trades' = trades /\ UpsertCandles
    BY <1>1, <1>7, RoundMoves, RoundLeaves, TradesAndCandlesKept
  <2>2. plan = <<1>> /\ plan' = <<>>
    BY <1>7, <2>1 DEF CandleInv
  <2>3. Ticking' /\ ~CandlesDrawn /\ CandlesDrawn'
    BY <1>7, <2>1, <2>2 DEF Ticking, CandlesDrawn
  <2>4. /\ TradedBy(trades, ThisTick) /\ DrawnBy(candles, clock) /\ Shown(saved, clock)
        /\ \A i \in Items : VolumeOf(candles, i) + TradedVolume(i, ThisTick) = BoughtOf(orders, i)
    BY <2>1, <2>3 DEF CandleInv
  <2>5. /\ DrawnBy(candles', ThisTick)
        /\ \A i \in Items : VolumeOf(candles', i) = VolumeOf(candles, i) + TradedVolume(i, ThisTick)
    BY <1>1, <2>1, <2>4, CandlesAdd
  <2>6. ThisTick' = ThisTick
    BY <2>1 DEF ThisTick
  <2>7. Shown(Rows', ThisTick)
    BY <1>2, <2>1, <2>4, <2>5 DEF Shown
  <2>8. Shown(Rows, ThisTick)' /\ Shown(saved, clock)'
    BY <2>1, <2>4, <2>6, <2>7
  <2> QED
    BY <2>2, <2>3, <2>8 DEF CandleInv
<1>8. CASE NextStage
  <2>1. /\ Ticking /\ UNCHANGED allRows /\ UNCHANGED <<clock, saved>>
    BY <1>8 DEF NextStage
  <2>2. stage \in Stages /\ stage # "candles" /\ (stage' = "candles" => plan' = <<1>>)
    BY <1>1, <1>8, <2>1, Succession
  <2>3. Ticking' /\ ~CandlesDrawn /\ ~CandlesDrawn'
    BY <2>1, <2>2 DEF Ticking, CandlesDrawn
  <2>4. /\ TradedBy(trades, ThisTick) /\ DrawnBy(candles, clock) /\ Shown(saved, clock)
        /\ \A i \in Items : VolumeOf(candles, i) + TradedVolume(i, ThisTick) = BoughtOf(orders, i)
    BY <2>1, <2>3 DEF CandleInv
  <2>5. /\ ThisTick' = ThisTick /\ trades' = trades /\ candles' = candles /\ orders' = orders
        /\ \A i : TradedVolume(i, ThisTick)' = TradedVolume(i, ThisTick)
    BY <2>1 DEF ThisTick, allRows, TradedVolume, TradedIn
  <2>6. /\ TradedBy(trades, ThisTick)' /\ DrawnBy(candles, clock)' /\ Shown(saved, clock)'
        /\ \A i \in Items : VolumeOf(candles', i) + TradedVolume(i, ThisTick)' = BoughtOf(orders', i)
    BY <2>1, <2>4, <2>5
  <2> QED
    BY <2>2, <2>3, <2>6 DEF CandleInv
<1>9. CASE CommitTick
  <2>1. /\ Ticking /\ UNCHANGED allRows /\ saved' = NoTick /\ clock' = ThisTick /\ plan = <<>>
        /\ stage' = "idle" /\ Rows' = Rows
    BY <1>9, RowsAreKept DEF CommitTick
  <2>2. stage = "candles"
    BY <1>1, <1>9, <2>1, CommitIsLast
  <2>3. Shown(Rows, ThisTick)
    BY <2>1, <2>2 DEF CandleInv, CandlesDrawn
  <2>4. Shown(Rows, clock)'
    BY <2>1, <2>3
  <2>5. ~Ticking'
    BY <2>1 DEF Ticking
  <2> QED
    BY <2>1, <2>4, <2>5 DEF CandleInv
<1>10. CASE TickThrows
  <2>1. Ticking /\ saved \in AllRows /\ Shown(saved, clock)
    BY <1>1, <1>10 DEF TickThrows, CandleInv
  <2>2. Rows' = saved /\ saved' = NoTick /\ clock' = clock /\ stage' = "idle"
    BY <1>10, <2>1, RowsSame DEF TickThrows
  <2>3. ~Ticking'
    BY <2>2 DEF Ticking
  <2>4. Shown(Rows, clock)'
    BY <2>1, <2>2
  <2> QED
    BY <2>2, <2>3, <2>4 DEF CandleInv
<1> QED
  BY <1>3, <1>4, <1>5, <1>6, <1>7, <1>8, <1>9, <1>10 DEF EconomyNext, Advance, BoundsReached

\* After every committed tick, candles show what orders bought, however often
\* the tick was rolled back before.
THEOREM CandlesShow == EconomySpec => []CandlesShowFills
<1>1. EconomyInit => CandleInv
  <2> SUFFICES ASSUME EconomyInit PROVE CandleInv
    OBVIOUS
  <2>1. /\ ~Ticking /\ stage = "idle" /\ orders = <<>> /\ trades = <<>> /\ candles = {}
    BY DEF EconomyInit, RowsInit, StartingRows, Ticking
  <2>2. \A i : VolumeOf({}, i) = 0
    <3>1. \A i : {r \in {} : r.item = i} = {}
      OBVIOUS
    <3> QED
      BY <3>1, SumEmpty DEF VolumeOf
  <2>3. \A i : BoughtOf(<<>>, i) = 0
    <3>1. DOMAIN <<>> = {}
      OBVIOUS
    <3> QED
      BY <3>1, SumEmpty DEF BoughtOf
  <2>4. TradedBy(<<>>, clock) /\ DrawnBy({}, clock)
    BY DEF TradedBy, DrawnBy
  <2>5. Rows.trades = <<>> /\ Rows.candles = {} /\ Rows.orders = <<>>
    BY <2>1 DEF Rows
  <2>6. Shown(Rows, clock)
    BY <2>2, <2>3, <2>4, <2>5 DEF Shown
  <2> QED
    BY <2>1, <2>6 DEF CandleInv
<1>2. SoundInv /\ CandleInv /\ [EconomyNext]_economyVars => CandleInv'
  BY CandleStep
<1>3. SoundInv /\ CandleInv => CandlesShowFills
  <2> SUFFICES ASSUME SoundInv, CandleInv, ~Ticking
               PROVE  /\ \A i \in Items :
                            SumFunction([row \in {r \in candles : r.item = i} |-> row.volume])
                              = SumFunctionOnSet(
                                  [o \in DOMAIN orders |-> orders[o].quantity - orders[o].remaining],
                                  {o \in DOMAIN orders : orders[o].side = "BUY" /\ orders[o].item = i})
                      /\ \A row \in candles : {row.open, row.close, row.vwap} \subseteq row.low .. row.high
    BY DEF CandlesShowFills
  <2>1. Typed /\ Rows.trades = trades /\ Rows.candles = candles /\ Rows.orders = orders
    BY RowsSound DEF SoundInv, RowsHold, Rows
  <2>2. DrawnBy(candles, clock) /\ \A i \in Items : VolumeOf(candles, i) = BoughtOf(orders, i)
    BY <2>1 DEF CandleInv, Shown
  <2>3. ASSUME NEW i \in Items
        PROVE  SumFunction([row \in {r \in candles : r.item = i} |-> row.volume])
                 = SumFunctionOnSet(
                     [o \in DOMAIN orders |-> orders[o].quantity - orders[o].remaining],
                     {o \in DOMAIN orders : orders[o].side = "BUY" /\ orders[o].item = i})
    <3> DEFINE S == {r \in candles : r.item = i}
               v == [row \in S |-> row.volume]
               D == DOMAIN orders
               f == [o \in D |-> orders[o].quantity - orders[o].remaining]
               T == {o \in D : orders[o].side = "BUY" /\ orders[o].item = i}
               g == Received(orders, i)
    <3>1. SumFunction(v) = VolumeOf(candles, i)
      <4>1. DOMAIN v = S
        OBVIOUS
      <4> QED
        BY <4>1 DEF SumFunction, VolumeOf
    <3>2. BoughtOf(orders, i) = SumFunctionOnSet(g, D)
      BY DEF BoughtOf
    <3>3. IsFiniteSet(D) /\ \A o \in D : g[o] \in Int
      <4>1. orders \in Seq(BookRow)
        BY <2>1 DEF Typed
      <4> QED
        BY ONLY <4>1, ReceivedInt
    <3>4. /\ T \in SUBSET D
          /\ \A o \in T : f[o] = g[o]
          /\ \A o \in D \ T : g[o] = 0
      BY DEF Received
    <3>5. \A o \in T : f[o] \in Int /\ g[o] = f[o]
      BY <3>3, <3>4
    <3> HIDE DEF S, v, D, f, T, g
    <3>6. SumFunctionOnSet(g, D) = SumFunctionOnSet(f, T)
      BY ONLY <3>3, <3>4, <3>5, SumOverPart
    <3>7. SumFunction(v) = SumFunctionOnSet(f, T)
      BY <2>2, <3>1, <3>2, <3>6
    <3> QED
      BY ONLY <3>7 DEF S, v, D, f, T
  <2> QED
    BY <2>2, <2>3 DEF DrawnBy, CandleSound
<1> QED
  BY <1>1, <1>2, <1>3, EconomySound, PTL DEF EconomySpec


-----------------------------------------------------------------------------
(* Storage: a round never fills a store beyond its capacity.               *)

\* One round of any stage.
LEMMA RoundStores ==
    ASSUME Typed, clock \in Nat, Staged, TickRound
    PROVE  StoresKept
<1> DEFINE x == Head(plan)
<1>1. plan # <<>> /\ Round(x)
  BY DEF TickRound
<1>2. ASSUME stock' = stock, depot' = depot PROVE StoresKept
  BY <1>2, QuantitiesKept
<1> HIDE DEF x
<1>3. CASE stage = "withdraw" /\ OfOrders(WithdrawOrder(x) /\ UNCHANGED trades)
  <2>1. x \in ToWithdraw
    BY <1>1, <1>3, ListAdvances DEF Staged, x
  <2>2. x \in DOMAIN orders /\ WithdrawOrder(x) /\ depot' = depot
    BY <1>3, <2>1 DEF ToWithdraw, OfOrders
  <2> DEFINE row == orders[x]
  <2>3. Stocked(row.company, row.item, 0, -row.reservedQuantity)
    BY <2>2, WithdrawOrderDoes
  <2>4. \A c \in Companies, i \in Items : stock[c][i].quantity \in Nat
    BY TypedBalances
  <2>5. \A c \in Companies, i \in Items : stock'[c][i].quantity = stock[c][i].quantity
    BY <2>3, <2>4 DEF Stocked
  <2> QED
    BY <2>2, <2>5, QuantitiesKept
<1>4. CASE stage = "bots" /\ IF IsOrder(x) THEN OfOrders(PlaceBotOrder(x) /\ UNCHANGED trades)
                             ELSE OfJobs(Produce(x))
  <2>1. x \in BotActions
    BY <1>1, <1>4, HeadTyped DEF Staged, x
  <2>2. \A d \in Companies, j \in Items : stock[d][j].quantity \in Nat
    BY TypedBalances
  <2>3. CASE IsOrder(x)
    <3> DEFINE c == x.company
               i == x.wish.item
               n == x.wish.quantity
               p == x.wish.price
    <3>1. x \in QuoteActions
      BY <2>1, <2>3, BotActionKinds
    <3>2. c \in Companies /\ i \in Items /\ n \in Positive /\ p \in Positive
      BY <3>1, NpcsAssumption, BotsAssumption DEF QuoteActions, WishSet
    <3>3. (AddBuyOrder(c, i, n, p) \/ AddSellOrder(c, i, n, p)) /\ depot' = depot
      BY <1>4, <2>3 DEF PlaceBotOrder, OfOrders
    <3> HIDE DEF c, i, n, p
    <3>4. CASE AddBuyOrder(c, i, n, p)
      BY <1>2, <3>2, <3>3, <3>4, AddBuyOrderDoes
    <3>5. CASE AddSellOrder(c, i, n, p)
      <4>1. Stocked(c, i, 0, n)
        BY <3>2, <3>5, AddSellOrderDoes
      <4>2. \A d \in Companies, j \in Items : stock'[d][j].quantity = stock[d][j].quantity
        BY <2>2, <4>1 DEF Stocked
      <4> QED
        BY <3>3, <4>2, QuantitiesKept
    <3> QED
      BY <3>3, <3>4, <3>5
  <2>4. CASE ~IsOrder(x)
    <3>1. x \in ProducerActions /\ Produce(x)
      BY <1>4, <2>1, <2>4, BotActionKinds DEF OfJobs
    <3>2. x.company \in Companies /\ 1 \in Positive /\ ThisTick \in Nat
      BY <3>1, NpcsAssumption DEF ProducerActions, Positive, ThisTick
    <3>3. CASE UNCHANGED <<Tables, jobs>>
      BY <1>2, <3>3 DEF Tables
    <3>4. ASSUME NEW r \in Recipes, StartJob(x.company, r, 1, ThisTick) PROVE StoresKept
      <4>1. Restocked(x.company, [i \in Items |-> 0], [i \in Items |-> Required(r, 1, i)])
        BY <3>2, <3>4, StartJobDoes
      <4>2. depot' = depot
        BY <3>4 DEF StartJob
      <4>3. \A d \in Companies, j \in Items : stock'[d][j].quantity = stock[d][j].quantity
        BY <2>2, <4>1 DEF Restocked
      <4> QED
        BY <4>2, <4>3, QuantitiesKept
    <3> QED
      BY <3>1, <3>3, <3>4, ProduceDoes
  <2> QED
    BY <2>3, <2>4
<1>5. CASE stage = "costs" /\ OfBuildings(ChargeBuilding(x))
  BY <1>2, <1>5 DEF OfBuildings, ChargeBuilding
<1>6. CASE stage = "production" /\ OfJobs(CompleteJob(x))
  <2>1. x \in ToFinish
    BY <1>1, <1>6, ListAdvances DEF Staged, x
  <2>2. x \in DOMAIN jobs /\ CompleteJob(x) /\ buildings' = buildings
    BY <1>6, <2>1 DEF ToFinish, OfJobs
  <2> QED
    BY <2>2, OutputIsStored
<1>7. CASE stage = "research" /\ OfScience(CompleteResearch(x))
  BY <1>2, <1>7 DEF OfScience, CompleteResearch, Tables
<1>8. CASE stage = "market" /\ OfOrders(Settle(x))
  <2>1. x \in PlacedMatches /\ depot' = depot /\ buildings' = buildings
    BY <1>1, <1>8, HeadTyped DEF Staged, x, OfOrders
  <2>2. CASE ~StillOpen(x)
    BY <1>2, <1>8, <2>1, <2>2 DEF OfOrders, Settle
  <2>3. CASE StillOpen(x)
    <3> DEFINE b == orders[x.buy].company
               s == orders[x.sell].company
               i == orders[x.buy].item
               n == x.quantity
    <3>1. Settle(x) /\ CanSettle(x)
      BY <1>8, <2>3 DEF OfOrders, Settle
    <3>2. Settlement(x, b, s, i, n, Notional(x), Reduction(x))
      BY <2>1, <2>3, <3>1, SettleDoes
    <3>3. /\ b \in Companies /\ s \in Companies /\ i \in Items /\ n \in Positive
          /\ Trading!GoodsMoved(stock', stock, b, s, i, n)
      BY <3>2 DEF Settlement
    <3>4. b = s \/ HasRoom(b, "home", n)
      BY <3>1 DEF CanSettle
    <3> HIDE DEF b, s, i, n
    <3> QED
      BY <2>1, <3>3, <3>4, PurchaseFits
  <2> QED
    BY <2>2, <2>3
<1>9. CASE stage = "shipments" /\ OfShipments(Deliver(x))
  <2>1. x \in InFlight
    BY <1>1, <1>9, ListAdvances DEF Staged, x
  <2>2. x \in DOMAIN shipments /\ Deliver(x) /\ buildings' = buildings
    BY <1>9, <2>1 DEF InFlight, OfShipments
  <2> DEFINE it == shipments[x]
  <2>3. /\ it \in ShipmentRow
        /\ \/ /\ Stowed(it.company, it.item, it.quantity) /\ stock' = stock
              /\ HasRoom(it.company, "away", it.quantity)
           \/ /\ Stocked(it.company, it.item, it.quantity, 0) /\ depot' = depot
              /\ HasRoom(it.company, "home", it.quantity)
           \/ stock' = stock /\ depot' = depot
    BY <2>2, DeliverDoes
  <2>4. it.company \in Companies /\ it.item \in Items /\ it.quantity \in Int
    BY <2>3, ShipmentFields DEF Positive
  <2> HIDE DEF it
  <2>5. CASE /\ Stowed(it.company, it.item, it.quantity) /\ stock' = stock
             /\ HasRoom(it.company, "away", it.quantity)
    BY <2>2, <2>4, <2>5, AwayFilled
  <2>6. CASE /\ Stocked(it.company, it.item, it.quantity, 0) /\ depot' = depot
             /\ HasRoom(it.company, "home", it.quantity)
    BY <2>2, <2>4, <2>6, HomeFilled DEF Stocked
  <2> QED
    BY <1>2, <2>3, <2>5, <2>6
<1>10. CASE stage = "arrivals" /\ OfPeople(Arrive(x))
  BY <1>2, <1>10 DEF OfPeople, Arrive, Tables
<1>11. CASE stage = "salaries" /\ OfPeople(PaySalary(x))
  BY <1>2, <1>11 DEF OfPeople, PaySalary, Tables
<1>12. CASE stage = "demand" /\ OfContracts(Consume(x[1], x[2]) /\ UNCHANGED contracts)
  <2>1. x \in Npcs \X DemandItems
    BY <1>1, <1>12, HeadTyped DEF Staged, x
  <2> DEFINE c == x[1]
             i == x[2]
  <2>2. c \in Npcs /\ i \in DemandItems /\ Consume(c, i) /\ depot' = depot /\ buildings' = buildings
    BY <1>12, <2>1 DEF OfContracts, Consume
  <2> HIDE DEF c, i
  <2>3. PICK n \in Nat : i \in Items /\ c \in Companies /\ Stocked(c, i, -n, 0)
    BY <2>2, ConsumeDoes
  <2>4. -n \in Int /\ -n <= 0
    OBVIOUS
  <2> QED
    BY <2>2, <2>3, <2>4, HomeFilled DEF Stocked
<1>13. CASE \/ stage = "expire" /\ OfContracts(ExpireContracts)
            \/ stage = "offers" /\ OfContracts(OfferContract(x))
            \/ stage = "candles" /\ OfCandles(UpsertCandles)
  BY <1>2, <1>13 DEF OfContracts, OfCandles, ExpireContracts, OfferContract, UpsertCandles, Tables
<1> QED
  BY <1>1, <1>3, <1>4, <1>5, <1>6, <1>7, <1>8, <1>9, <1>10, <1>11, <1>12, <1>13 DEF Round

\* No step of a tick fills a store beyond its capacity.
THEOREM StoresRespected == EconomySpec => StorageRespected
<1>1. SoundInv /\ [EconomyNext]_economyVars
         => [Ticking /\ ~TickThrows =>
                \A c \in Companies, region \in {"home", "away"} :
                    StoredIn(c, region)' > StoredIn(c, region)
                        => StoredIn(c, region)' <= CapacityIn(c, region)']_economyVars
  <2> SUFFICES ASSUME SoundInv, EconomyNext, Ticking, ~TickThrows
               PROVE  StoresKept
    BY DEF StoresKept
  <2>1. Typed /\ clock \in Nat /\ Staged
    BY RowsSound DEF SoundInv, RowsHold
  <2>2. CASE TickRound
    BY <2>1, <2>2, RoundStores
  <2>3. CASE UNCHANGED allRows
    BY <2>1, <2>3, QuantitiesKept DEF allRows
  <2> QED
    BY <2>2, <2>3, TickingSteps
<1> QED
  BY <1>1, EconomySound, PTL DEF EconomySpec, StorageRespected


-----------------------------------------------------------------------------
(* The orders of the bots can be placed.                                   *)

\* In the stage of the bots what each trader has lasts for what is still
\* planned for it.
BotsCovered ==
    stage = "bots" =>
        \A c \in Traders, i \in Items, side \in {"BUY", "SELL"} :
            \E b \in Int : Lasts(Available(c, i, side), Needs(plan, c, i, side), b)

\* What each trader has when the orders are planned lasts for them.
LEMMA PlanCovered ==
    ASSUME Typed, StockBacked, NextStage, stage \in Stages
    PROVE  BotsCovered'
<1> SUFFICES ASSUME stage' = "bots", NEW c \in Traders, NEW i \in Items, NEW side \in {"BUY", "SELL"}
             PROVE  (\E b \in Int : Lasts(Available(c, i, side), Needs(plan, c, i, side), b))'
  BY DEF BotsCovered
<1>1. plan' = PlanBotActions
  BY Succession
<1>2. cash' = cash /\ stock' = stock
  BY DEF NextStage, allRows
<1>3. c \in Companies
  BY NpcsAssumption, BotsAssumption
<1>4. \E b \in Int : Lasts(Available(c, i, side), Needs(PlanBotActions, c, i, side), b)
  BY <1>3, PlanLasts DEF StockBacked
<1>5. Available(c, i, side)' = Available(c, i, side)
  BY <1>2 DEF Available, AvailableCash, AvailableStock
<1>6. Needs(plan, c, i, side)' = Needs(plan', c, i, side)
  BY DEF Needs
<1> QED
  BY <1>1, <1>4, <1>5, <1>6

\* Each action takes what it needs, so that the rest still lasts.
LEMMA RoundCovered ==
    ASSUME Typed, clock \in Nat, Staged, BotsCovered, TickRound
    PROVE  BotsCovered'
<1> SUFFICES ASSUME stage' = "bots", NEW c \in Traders, NEW i \in Items, NEW side \in {"BUY", "SELL"}
             PROVE  (\E b \in Int : Lasts(Available(c, i, side), Needs(plan, c, i, side), b))'
  BY DEF BotsCovered
<1> DEFINE x == Head(plan)
           a == Available(c, i, side)
<1>1. stage = "bots" /\ plan # <<>> /\ plan' = Tail(plan) /\ plan \in Seq(BotActions)
  BY DEF TickRound, Staged
<1>2. x \in BotActions
  BY <1>1, HeadTyped
<1>3. IF IsOrder(x) THEN PlaceBotOrder(x) ELSE Produce(x)
  BY <1>1 DEF TickRound, Round, OfOrders, OfJobs
<1>4. PICK b \in Int : Lasts(a, Needs(plan, c, i, side), b)
  BY <1>1 DEF BotsCovered
<1>5. a \in Int
  <2>1. c \in Companies
    BY NpcsAssumption, BotsAssumption
  <2> QED
    BY <2>1, TypedBalances DEF Available, AvailableCash, AvailableStock
<1>6. a' = a - Need(x, c, i, side)
  BY <1>2, <1>3, ActionTakes
<1> HIDE DEF a
<1>7. Lasts(a - Need(x, c, i, side), Needs(Tail(plan), c, i, side), b)
  BY <1>1, <1>4, <1>5, FirstNeed
<1>8. Needs(plan, c, i, side)' = Needs(plan', c, i, side)
  BY DEF Needs
<1> HIDE DEF x
<1>9. Lasts(a', Needs(plan', c, i, side), b)
  BY <1>1, <1>6, <1>7
<1> QED
  BY <1>8, <1>9 DEF a

\* Every other step is made in another stage, or changes nothing of this one.
LEMMA CoveredStep ==
    ASSUME SoundInv, RowsHold(BackedRows), BotsCovered, EconomyNext \/ UNCHANGED economyVars
    PROVE  BotsCovered'
<1>1. /\ Typed /\ clock \in Nat /\ Staged /\ StockBacked
  BY RowsSound, RowsBacked DEF SoundInv, RowsHold
<1>2. CASE TickRound
  BY <1>1, <1>2, RoundCovered
<1>3. CASE NextStage
  <2>1. stage \in Stages
    BY <1>1, <1>3 DEF NextStage, Staged
  <2> QED
    BY <1>1, <1>3, <2>1, PlanCovered
<1>4. CASE Requests
  <2>1. stage' = stage /\ ~Ticking
    BY <1>1, <1>4, RequestMoves
  <2> QED
    BY <1>1, <2>1 DEF Staged, BotsCovered
<1>5. CASE BeginTick
  <2>1. stage' = "withdraw"
    BY <1>5, PipelineIs DEF BeginTick
  <2> QED
    BY <2>1 DEF BotsCovered
<1>6. CASE CommitTick \/ TickThrows
  <2>1. stage' = "idle"
    BY <1>6 DEF CommitTick, TickThrows
  <2> QED
    BY <2>1 DEF BotsCovered
<1>7. CASE UNCHANGED economyVars
  <2>1. /\ stage' = stage /\ plan' = plan /\ cash' = cash /\ stock' = stock
    BY <1>7 DEF economyVars, allRows
  <2> QED
    BY <2>1 DEF BotsCovered, Needs, Available, AvailableCash, AvailableStock
<1> QED
  BY <1>2, <1>3, <1>4, <1>5, <1>6, <1>7 DEF EconomyNext, Advance, BoundsReached

\* The next order of a bot can be covered, since what it needs is there.
LEMMA CoveredNow ==
    ASSUME SoundInv, BotsCovered
    PROVE  BotOrdersAreCovered
<1> SUFFICES ASSUME stage = "bots", plan # <<>>, IsOrder(Head(plan))
             PROVE  Coverable(Head(plan))
  BY DEF BotOrdersAreCovered
<1> DEFINE x == Head(plan)
           c == x.company
           w == x.wish
<1>1. Typed /\ plan \in Seq(BotActions)
  BY RowsSound DEF SoundInv, RowsHold, Staged
<1>2. x \in QuoteActions /\ IsOrder(x)
  BY <1>1, HeadTyped, BotActionKinds
<1>3. /\ c \in Traders /\ c \in Companies /\ w.item \in Items /\ w.side \in {"BUY", "SELL"}
      /\ w.quantity \in Positive /\ w.price \in Positive
  BY <1>2, NpcsAssumption, BotsAssumption DEF QuoteActions, WishSet
<1> DEFINE a == Available(c, w.item, w.side)
           n == Need(x, c, w.item, w.side)
<1>4. a \in Int
  BY <1>1, <1>3, TypedBalances DEF Available, AvailableCash, AvailableStock
<1>5. PICK b \in Int : Lasts(a, Needs(plan, c, w.item, w.side), b)
  BY <1>3 DEF BotsCovered
<1>6. n > 0 => n <= a
  <2> HIDE DEF c, w, a
  <2> QED
    BY ONLY <1>1, plan # <<>>, <1>4, <1>5, FirstNeed DEF x
<1> HIDE DEF x, c, w
<1>7. CASE w.side = "BUY"
  <2>1. n = w.quantity * w.price /\ a = AvailableCash(c)
    BY <1>2, <1>7 DEF Need, WishNeed, Available, c, w
  <2>2. w.quantity * w.price > 0
    BY <1>3 DEF Positive
  <2> HIDE DEF n, a
  <2>3. AvailableCash(c) >= w.quantity * w.price
    BY <1>4, <1>6, <2>1, <2>2
  <2> QED
    BY <1>7, <2>3 DEF Coverable, CanReserve, x, c, w
<1>8. CASE w.side = "SELL"
  <2>1. n = w.quantity /\ a = AvailableStock(c, w.item)
    BY <1>2, <1>8 DEF Need, WishNeed, Available, c, w
  <2>2. w.quantity \in Nat /\ w.quantity > 0
    BY <1>3 DEF Positive
  <2> HIDE DEF n, a
  <2>3. AvailableStock(c, w.item) >= w.quantity
    BY <1>4, <1>6, <2>1, <2>2
  <2> QED
    BY <1>8, <2>3 DEF Coverable, x, c, w
<1> QED
  BY <1>3, <1>7, <1>8

\* The orders that runBotsForTick plans for all traders at once can be placed
\* one after the other: no bot makes a tick fail.
THEOREM BotsAreCovered == EconomySpec => []BotOrdersAreCovered
<1>1. EconomyInit => RowsHold(BackedRows) /\ BotsCovered
  <2>1. EconomyInit => stage = "idle"
    BY DEF EconomyInit, RowsInit
  <2> QED
    BY <2>1, BackedStart DEF BotsCovered
<1>2. SoundInv /\ (RowsHold(BackedRows) /\ BotsCovered) /\ [EconomyNext]_economyVars
         => (RowsHold(BackedRows) /\ BotsCovered)'
  BY BackedStep, CoveredStep
<1>3. SoundInv /\ (RowsHold(BackedRows) /\ BotsCovered) => BotOrdersAreCovered
  BY CoveredNow
<1> QED
  BY <1>1, <1>2, <1>3, EconomySound, PTL DEF EconomySpec
=============================================================================
