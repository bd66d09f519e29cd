------------------------------ MODULE OpenClose ------------------------------
(***************************************************************************)
(* What ends jobs, shipments and a contract, statement by statement.       *)
(* Requests to cancel or to hand over run beside a tick that completes,    *)
(* delivers and expires the same rows, each in a transaction at READ       *)
(* COMMITTED: a statement sees what has been committed and what its own    *)
(* transaction has written.  Requests change stock and balances by         *)
(* increments, which wait for the row and add to its newest value; states  *)
(* are changed by updates of which some name the state they expect.  Other *)
(* stages of the tick write the same stock and balances back as what they  *)
(* have read, more or less: operating costs, the market and salaries.      *)
(*                                                                         *)
(* One company, whose jobs smelt ore into no more ingots than the ore they *)
(* use, so that a completed job needs no room; one contract for ore that   *)
(* the company has accepted, one order by which it sells ore.  Whether a   *)
(* delivery finds room, a building is due or the order meets a buyer is    *)
(* open.  The company belongs to a player: bots and the demand sink leave  *)
(* it alone.                                                               *)
(***************************************************************************)
EXTENDS Integers, Sequences, FiniteSets, TLC, SequencesExt

CONSTANTS
    Jobs, Shipments, \* rows that are there at the beginning
    Asks,            \* requests: [kind, row, n, by], `by' tells equal ones apart
    Meetings,        \* sets of requests that come while the ticks are made
    JobDue, Arrives, \* the tick each of the rows is due at
    ContractEnds,    \* tickExpires of the contract
    Need, Made,      \* ore that a job uses, ingots it makes
    Load,            \* ore that a shipment carries
    Agreed, Price,   \* items of the contract, and the price of one
    StartOre, BuyerCash,
    StartDepot,      \* ore in another region: [quantity, reserved]
    Ordered,         \* ore that the order sells, at the same price
    Cost, Wage,      \* of a building that is due, of a company for a tick
    MaxTicks         \* bound for model checking

ASSUME DataAssumption ==
    /\ Meetings \subseteq SUBSET Asks
    /\ {Need, Made, Load, Agreed, Price, StartOre, BuyerCash, Ordered, Cost, Wage, MaxTicks}
         \subseteq Nat
    /\ StartDepot \in [quantity : Nat, reserved : Nat]
    /\ Made <= Need /\ StartOre >= Need * Cardinality(Jobs) + Ordered

VARIABLES
    clock,  \* WorldTickState.currentTick
    db,     \* the committed rows
    tx      \* for the tick and each request: where it is, what it has read and written

vars == <<clock, db, tx>>

TheTick == [kind |-> "tick", row |-> "none", n |-> 0, by |-> 0]
Transactions == {TheTick} \cup Asks

NoRows == [r \in {} |-> r]
Start == [pc |-> "idle", work |-> <<>>, read |-> NoRows, draft |-> NoRows]
Over == [Start EXCEPT !.pc = "over"]

\* Histories of the stages that write back what they have read: what they meant
\* to add to each row, and what others had added to it since it was read.
Nothing == [ore |-> 0, seller |-> 0, buyer |-> 0]

StartRows ==
    [r \in Jobs |-> "IN_PROGRESS"] @@ [r \in Shipments |-> "IN_TRANSIT"]
    @@ [ore |-> [quantity |-> StartOre, reserved |-> Need * Cardinality(Jobs) + Ordered],
        depot |-> StartDepot, ingots |-> 0, handed |-> 0, buyer |-> BuyerCash, seller |-> 0,
        contract |-> [status |-> "ACCEPTED", remaining |-> Agreed], order |-> Ordered,
        meant |-> Nothing, lost |-> Nothing]

Init ==
    /\ clock = 0 /\ db = StartRows
    /\ \E asked \in Meetings :
          tx = [t \in Transactions |-> IF t \in asked \cup {TheTick} THEN Start ELSE Over]

-----------------------------------------------------------------------------
(* Statements.                                                             *)

\* What a transaction sees of a row.
View(t, r) == IF r \in DOMAIN tx[t].draft THEN tx[t].draft[r] ELSE db[r]

\* A row is locked by the transaction that has written it, until its end.
Unlocked(t, r) == \A u \in Transactions \ {t} : r \notin DOMAIN tx[u].draft

\* The seller's stock that is still as it was read, in whatever region.
AsRead(t) == {r \in {"ore", "depot"} : db[r] = tx[t].read.ore}

\* The rows that the next statement of a transaction writes.
Rows(t) ==
    LET pc == tx[t].pc IN
    CASE pc \in {"release", "consume", "settle goods", "return", "unload home"} -> {"ore"}
      [] pc = "take" -> AsRead(t)
      [] pc = "produce" -> {"ingots"}
      [] pc = "unload away" -> {"depot"}
      [] pc = "give" -> {"handed"}
      [] pc \in {"charge", "pay buyer"} -> {"buyer"}
      [] pc \in {"credit", "pay costs", "settle cash", "pay seller"} -> {"seller"}
      [] pc \in {"close job", "complete", "withdraw", "deliver"} -> {Head(tx[t].work)}
      [] pc \in {"fulfill", "expire"} -> {"contract"}
      [] OTHER -> {}

Goto(t, pc) == tx' = [tx EXCEPT ![t].pc = pc] /\ UNCHANGED <<clock, db>>

\* An update waits until no other transaction has its row.
Free(t) == \A r \in Rows(t) : Unlocked(t, r)

Write(t, value, pc) ==
    /\ Free(t)
    /\ tx' = [tx EXCEPT ![t].draft = [r \in Rows(t) |-> value] @@ @, ![t].pc = pc]
    /\ UNCHANGED <<clock, db>>

\* Rolled back by an error: nothing that was written remains.  A failed tick is
\* tried again.
Fail(t) ==
    /\ tx' = [tx EXCEPT ![t] = IF t = TheTick THEN Start ELSE Over]
    /\ UNCHANGED <<clock, db>>

Commit(t) ==
    /\ tx[t].pc = "commit"
    /\ db' = tx[t].draft @@ db
    /\ tx' = [tx EXCEPT ![t] = IF t = TheTick THEN Start ELSE Over]
    /\ clock' = IF t = TheTick THEN clock + 1 ELSE clock

\* The transaction that has the row another one wants.
Waiting == {t \in Transactions : ~Free(t)}
Blocker(t) == CHOOSE u \in Transactions \ {t} : Rows(t) \cap DOMAIN tx[u].draft # {}

\* Of transactions that wait for each other in a circle the database ends one.
BreakDeadlock == \E circle \in SUBSET Waiting \ {{}} :
    {Blocker(t) : t \in circle} = circle /\ \E t \in circle : Fail(t)

-----------------------------------------------------------------------------
(* cancelProductionJobWithTx                                               *)

\* A job that is not in progress is returned as it is.
BeginCancelJob(t) ==
    /\ tx[t].pc = "idle" /\ t.kind = "job"
    /\ tx' = [tx EXCEPT ![t] = IF db[t.row] = "IN_PROGRESS"
                                 THEN [Start EXCEPT !.pc = "check", !.work = <<t.row>>] ELSE Over]
    /\ UNCHANGED <<clock, db>>

\* releaseReservedInventoryForProduction looks at the stock without locking it.
CheckReserve(t) ==
    /\ tx[t].pc = "check"
    /\ IF db["ore"].reserved >= Need THEN Goto(t, "release") ELSE Fail(t)

ReleaseReserve(t) ==
    /\ tx[t].pc = "release"
    /\ Write(t, [db["ore"] EXCEPT !.reserved = @ - Need], "close job")

\* The update names the job only, not the state it was in.
CloseJob(t) == tx[t].pc = "close job" /\ Write(t, "CANCELLED", "commit")

CancelJob(t) == BeginCancelJob(t) \/ CheckReserve(t) \/ ReleaseReserve(t) \/ CloseJob(t)

-----------------------------------------------------------------------------
(* cancelShipmentWithTx                                                    *)

BeginCancelShipment(t) ==
    /\ tx[t].pc = "idle" /\ t.kind = "shipment"
    /\ tx' = [tx EXCEPT ![t] = IF db[t.row] = "IN_TRANSIT"
                                 THEN [Start EXCEPT !.pc = "withdraw", !.work = <<t.row>>] ELSE Over]
    /\ UNCHANGED <<clock, db>>

\* Mutant: whatever state the shipment is in.
InAnyState(r) == TRUE

\* The condition that updates of a shipment's state name.
StillInTransit(r) == db[r] = "IN_TRANSIT"

WithdrawShipment(t) ==
    /\ tx[t].pc = "withdraw"
    /\ IF StillInTransit(Head(tx[t].work)) THEN Write(t, "CANCELLED", "return") ELSE Fail(t)

ReturnLoad(t) ==
    /\ tx[t].pc = "return"
    /\ Write(t, [View(t, "ore") EXCEPT !.quantity = @ + Load], "commit")

CancelShipment(t) == BeginCancelShipment(t) \/ WithdrawShipment(t) \/ ReturnLoad(t)

-----------------------------------------------------------------------------
(* fulfillContract                                                         *)

Fulfillable == {"ACCEPTED", "PARTIALLY_FULFILLED"}

\* Contract, clock and buyer are read and found in order.
BeginFulfill(t) ==
    /\ tx[t].pc = "idle" /\ t.kind = "fulfill"
    /\ tx' = [tx EXCEPT ![t] =
          IF /\ db["contract"].status \in Fulfillable /\ clock < ContractEnds
             /\ t.n <= db["contract"].remaining /\ db["buyer"] >= t.n * Price
          THEN [Start EXCEPT !.pc = "look", !.read = [contract |-> db["contract"]]] ELSE Over]
    /\ UNCHANGED <<clock, db>>

LookAtStock(t) ==
    /\ tx[t].pc = "look"
    /\ IF db["ore"].quantity - db["ore"].reserved >= t.n
       THEN /\ tx' = [tx EXCEPT ![t].pc = "take", ![t].read = [ore |-> db["ore"]] @@ @]
            /\ UNCHANGED <<clock, db>>
       ELSE Fail(t)

\* One row of the seller's stock must be as it was read.  The update names no
\* region: it finds too many, or the wrong one when the right one has changed.
TakeStock(t) ==
    /\ tx[t].pc = "take" /\ Free(t)
    /\ IF Cardinality(AsRead(t)) = 1
       THEN Write(t, [tx[t].read.ore EXCEPT !.quantity = @ - t.n], "give") ELSE Fail(t)

GiveStock(t) == tx[t].pc = "give" /\ Write(t, db["handed"] + t.n, "charge")

ChargeBuyer(t) ==
    /\ tx[t].pc = "charge"
    /\ IF db["buyer"] >= t.n * Price THEN Write(t, db["buyer"] - t.n * Price, "credit") ELSE Fail(t)

CreditSeller(t) == tx[t].pc = "credit" /\ Write(t, db["seller"] + t.n * Price, "fulfill")

\* The state and the remaining quantity must be as they were read.
ContractAsRead(t) ==
    /\ db["contract"].status \in Fulfillable
    /\ db["contract"].remaining = tx[t].read.contract.remaining

CloseContract(t) ==
    LET left == tx[t].read.contract.remaining - t.n IN
    /\ tx[t].pc = "fulfill"
    /\ IF ContractAsRead(t)
       THEN Write(t, [remaining |-> left, status |-> IF left = 0 THEN "FULFILLED"
                                                          ELSE "PARTIALLY_FULFILLED"], "commit")
       ELSE Fail(t)

Fulfill(t) == \/ BeginFulfill(t) \/ LookAtStock(t) \/ TakeStock(t) \/ GiveStock(t)
              \/ ChargeBuyer(t) \/ CreditSeller(t) \/ CloseContract(t)

-----------------------------------------------------------------------------
(* The stages of a tick that write rows back as they have read them.       *)

\* What is written is what was read and what the stage adds to it.
WriteBack(r, value, added, pc) ==
    LET t == TheTick
        now == View(t, r)
        Amount(v) == IF r = "ore" THEN v.quantity ELSE v
    IN  /\ Unlocked(t, r)
        /\ tx' = [tx EXCEPT ![t].pc = pc, ![t].draft =
               (r :> value)
               @@ ("meant" :> [View(t, "meant") EXCEPT ![r] = @ + added])
               @@ ("lost" :> [View(t, "lost") EXCEPT ![r] = @ + Amount(now) - Amount(value) + added])
               @@ @]
        /\ UNCHANGED <<clock, db>>

TakeReading(pc, rows) ==
    /\ tx' = [tx EXCEPT ![TheTick].pc = pc, ![TheTick].read = [r \in rows |-> View(TheTick, r)]]
    /\ UNCHANGED <<clock, db>>

Read(r) == tx[TheTick].read[r]

\* applyBuildingOperatingCostsWithTx: a building is due and can be paid, or not.
BeginTick ==
    /\ tx[TheTick].pc = "idle" /\ clock < MaxTicks
    /\ \/ db["seller"] >= Cost /\ TakeReading("pay costs", {"seller"})
       \/ Goto(TheTick, "jobs")

PayCosts ==
    /\ tx[TheTick].pc = "pay costs"
    /\ WriteBack("seller", Read("seller") - Cost, -Cost, "jobs")

\* runMarketMatchingForTick: the order has met a buyer, or not.
MeetBuyer ==
    /\ tx[TheTick].pc = "market"
    /\ \/ View(TheTick, "order") > 0 /\ TakeReading("look", {"order", "seller"})
       \/ Goto(TheTick, "shipments")

ReadGoods ==
    LET ore == View(TheTick, "ore") IN
    /\ tx[TheTick].pc = "look"
    /\ IF ore.quantity >= Read("order") /\ ore.reserved >= Read("order")
       THEN /\ tx' = [tx EXCEPT ![TheTick].pc = "settle cash", ![TheTick].read = ("ore" :> ore) @@ @]
            /\ UNCHANGED <<clock, db>>
       ELSE Fail(TheTick)

SettleCash ==
    LET gain == Read("order") * Price IN
    /\ tx[TheTick].pc = "settle cash"
    /\ WriteBack("seller", Read("seller") + gain, gain, "settle goods")

SettleGoods ==
    LET n == Read("order")
        left == [quantity |-> Read("ore").quantity - n, reserved |-> Read("ore").reserved - n]
    IN  tx[TheTick].pc = "settle goods" /\ WriteBack("ore", left, -n, "close order")

CloseOrder ==
    /\ tx[TheTick].pc = "close order"
    /\ tx' = [tx EXCEPT ![TheTick].pc = "shipments", ![TheTick].draft = ("order" :> 0) @@ @]
    /\ UNCHANGED <<clock, db>>

\* Mutant: a balance that an earlier stage has read is not read again.
KeepReadings ==
    /\ tx' = [tx EXCEPT ![TheTick].pc = "pay buyer",
                        ![TheTick].read = @ @@ [r \in {"seller", "buyer"} |-> View(TheTick, r)]]
    /\ UNCHANGED <<clock, db>>

\* runWorkforceForTick: all companies are read, then paid from one after the other.
ReadCompanies == TakeReading("pay buyer", {"seller", "buyer"})

Salary(r) == IF Read(r) < Wage THEN Read(r) ELSE Wage

PayBuyersStaff ==
    /\ tx[TheTick].pc = "pay buyer"
    /\ WriteBack("buyer", Read("buyer") - Salary("buyer"), -Salary("buyer"), "pay seller")

PaySellersStaff ==
    /\ tx[TheTick].pc = "pay seller"
    /\ WriteBack("seller", Read("seller") - Salary("seller"), -Salary("seller"), "contracts")

WriteBackStages ==
    \/ BeginTick \/ PayCosts \/ MeetBuyer \/ ReadGoods \/ SettleCash \/ SettleGoods
    \/ CloseOrder \/ PayBuyersStaff \/ PaySellersStaff

-----------------------------------------------------------------------------
(* The stages of a tick that work off jobs, shipments and contracts.       *)

DueOf(rows, Due, state) ==
    SetToSortSeq({r \in rows : db[r] = state /\ Due[r] <= clock + 1},
                 LAMBDA a, b : Due[a] < Due[b])

\* The due jobs are read once; each is completed in its turn.
ReadJobs ==
    /\ tx[TheTick].pc = "jobs"
    /\ tx' = [tx EXCEPT ![TheTick].pc = "smelt",
                        ![TheTick].work = DueOf(Jobs, JobDue, "IN_PROGRESS")]
    /\ UNCHANGED <<clock, db>>

\* consumeReservedInventoryForProduction throws when the reserve is not there.
ReadInputs ==
    LET ore == View(TheTick, "ore") IN
    /\ tx[TheTick].pc = "smelt" /\ tx[TheTick].work # <<>>
    /\ IF ore.quantity >= Need /\ ore.reserved >= Need THEN Goto(TheTick, "consume") ELSE Fail(TheTick)

ConsumeInputs ==
    LET ore == View(TheTick, "ore") IN
    /\ tx[TheTick].pc = "consume"
    /\ Write(TheTick, [quantity |-> ore.quantity - Need, reserved |-> ore.reserved - Need], "produce")

ProduceOutput ==
    tx[TheTick].pc = "produce" /\ Write(TheTick, View(TheTick, "ingots") + Made, "complete")

\* The next entry of the loop at hand.
NextOf(loop, t) == [t EXCEPT !.pc = loop, !.work = Tail(@)]

\* As in a cancellation, the update does not name the state.
CompleteJob ==
    /\ tx[TheTick].pc = "complete" /\ Free(TheTick)
    /\ tx' = [tx EXCEPT ![TheTick] = NextOf("smelt", [@ EXCEPT
                 !.draft = (Head(tx[TheTick].work) :> "COMPLETED") @@ @])]
    /\ UNCHANGED <<clock, db>>

LeaveJobs == tx[TheTick].pc = "smelt" /\ tx[TheTick].work = <<>> /\ Goto(TheTick, "market")

\* The due shipments are read, whatever is being done to them.
ReadShipments ==
    /\ tx[TheTick].pc = "shipments"
    /\ tx' = [tx EXCEPT ![TheTick].pc = "ship",
                        ![TheTick].work = DueOf(Shipments, Arrives, "IN_TRANSIT")]
    /\ UNCHANGED <<clock, db>>

\* There is room at the destination, else at the origin, or nowhere.
FindRoom ==
    /\ tx[TheTick].pc = "ship" /\ tx[TheTick].work # <<>>
    /\ \/ \E place \in {"unload away", "unload home"} :
             tx' = [tx EXCEPT ![TheTick].pc = "deliver", ![TheTick].read = [place |-> place]]
       \/ tx' = [tx EXCEPT ![TheTick] = NextOf("ship", @)]
    /\ UNCHANGED <<clock, db>>

\* Mutant: a shipment that is gone is tried again.
TryAgain == tx' = [tx EXCEPT ![TheTick].pc = "ship"] /\ UNCHANGED <<clock, db>>

\* A shipment that has been closed by someone else is skipped.
PassOver == tx' = [tx EXCEPT ![TheTick] = NextOf("ship", @)] /\ UNCHANGED <<clock, db>>

MarkDelivered ==
    /\ tx[TheTick].pc = "deliver"
    /\ IF StillInTransit(Head(tx[TheTick].work))
       THEN Write(TheTick, "DELIVERED", tx[TheTick].read.place) ELSE PassOver

Unload ==
    /\ tx[TheTick].pc \in {"unload away", "unload home"} /\ Free(TheTick)
    /\ tx' = [tx EXCEPT ![TheTick] = NextOf("ship", [@ EXCEPT
                 !.draft = [r \in Rows(TheTick) |-> [View(TheTick, r) EXCEPT !.quantity = @ + Load]] @@ @])]
    /\ UNCHANGED <<clock, db>>

LeaveShipments == tx[TheTick].pc = "ship" /\ tx[TheTick].work = <<>> /\ ReadCompanies

ReachExpiry ==
    /\ tx[TheTick].pc = "contracts"
    /\ Goto(TheTick, IF ContractEnds <= clock + 1 THEN "expire" ELSE "commit")

ExpireContract ==
    /\ tx[TheTick].pc = "expire"
    /\ IF db["contract"].status \in Fulfillable
       THEN Write(TheTick, [db["contract"] EXCEPT !.status = "EXPIRED"], "commit")
       ELSE Goto(TheTick, "commit")

Tick == \/ WriteBackStages
        \/ ReadJobs \/ ReadInputs \/ ConsumeInputs \/ ProduceOutput \/ CompleteJob \/ LeaveJobs
        \/ ReadShipments \/ FindRoom \/ MarkDelivered \/ Unload \/ LeaveShipments
        \/ ReachExpiry \/ ExpireContract \/ Commit(TheTick)

-----------------------------------------------------------------------------

Request(t) == CancelJob(t) \/ CancelShipment(t) \/ Fulfill(t) \/ Commit(t)

\* The bound leaves nothing to do.
AllDone == clock = MaxTicks /\ (\A t \in Asks : tx[t].pc = "over") /\ UNCHANGED vars

Next == Tick \/ BreakDeadlock \/ (\E t \in Asks : Request(t)) \/ AllDone

\* The database carries out every statement whose row is free, finds deadlocks,
\* and gives a row to those who wait for it: a tick that fails and is tried
\* again does not take it from them for ever.
Spec == /\ Init /\ [][Next]_vars
        /\ WF_vars(Tick) /\ WF_vars(BreakDeadlock) /\ \A t \in Asks : SF_vars(Request(t))

-----------------------------------------------------------------------------
(* Properties.                                                             *)

\* What a row would hold had the other stages left it alone.
Without(r, amount) == amount - db["meant"][r] + db["lost"][r]

Promised == INSTANCE Consignments WITH
    moving <- {r \in Shipments : db[r] = "IN_TRANSIT"},
    home <- Without("ore", db["ore"].quantity)
            + IF Made = 0 THEN 0 ELSE (db["ingots"] \div Made) * Need,
    away <- db["depot"].quantity,
    handed <- db["handed"],
    paid <- Without("seller", db["seller"]),
    charged <- BuyerCash - Without("buyer", db["buyer"]),
    remaining <- db["contract"].remaining,
    expired <- db["contract"].status = "EXPIRED",
    StartHome <- StartOre,
    StartAway <- StartDepot.quantity

\* The committed rows implement Consignments, but for what other stages of the
\* tick have written over: the load of a shipment that is cancelled while it
\* arrives is put down once, and of two deliveries on a contract, or one and its
\* expiry, each that commits is paid and within what was agreed.
GoodsMoveOnce == Promised!Spec

\* A stage that writes a balance back as it has read it loses at most what came
\* in between: a payment for the contract is lost once or not at all, on either
\* side, and never what another stage has written.
PaymentsLostOnce ==
    LET due == db["handed"] * Price IN
    db["lost"].seller \in 0 .. due /\ db["lost"].buyer \in -due .. 0

UnderWay(t) == tx[t].pc \notin {"idle", "over"}

\* Whatever runs beside it, a transaction that has begun ends: a tick that meets
\* rows closed by others finishes or gives way, and after the last request and
\* the last tick everything is quiet.
EveryTransactionEnds == (\E t \in Transactions : UnderWay(t)) ~> (\A t \in Transactions : ~UnderWay(t))

\* production.ts: only jobs in progress can be cancelled or completed, which
\* prevents double processing.  Each job then takes its inputs off the reserve
\* once, and what is reserved is what the jobs in progress hold.
OnlyJobsInProgressEnd ==
    db["ore"].reserved = db["order"] + Need * Cardinality({j \in Jobs : db[j] = "IN_PROGRESS"})
=============================================================================
