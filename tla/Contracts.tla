----------------------------- MODULE Contracts -----------------------------
(***************************************************************************)
(* Contracts (contracts.ts): offers by companies without an owner, made by *)
(* the ticks; a player accepts one, delivers it in one or more parts, or   *)
(* lets it expire.                                                         *)
(***************************************************************************)
EXTENDS CompanyRows

CONSTANTS
    ContractsPerTick, ContractTtl,  \* ContractLifecycleConfig
    PriceBand, PriceScale,          \* priceBandBps of 10,000
    UsualPrice, UsualQuantity,      \* the fallbacks, of each item
    NoCompany

\* What resolveContractLifecycleConfig lets pass.
ASSUME ContractsAssumption ==
    /\ ContractsPerTick \in Nat /\ ContractTtl \in Nat \ {0}
    /\ PriceBand \in Nat /\ PriceScale \in Nat \ {0}
    /\ UsualPrice \in [Items -> Nat \ {0}]
    /\ UsualQuantity \in [Items -> Nat \ {0}]
    /\ NoCompany \notin Companies

VARIABLE contracts

Live == {"OPEN", "ACCEPTED", "PARTIALLY_FULFILLED"}

\* shouldExpireContract
Expired(k) == clock >= contracts[k].expires

\* acceptContract
AcceptContract(c, k) ==
    /\ contracts[k].status = "OPEN" /\ ~Expired(k)
    /\ contracts' = [contracts EXCEPT ![k].status = "ACCEPTED", ![k].seller = c]
    /\ UNCHANGED Tables

\* The update of the seller's stock names no region: when the rows of two
\* regions are equal it would change both, and the request is given up.
OneRowMatches(c, i) == ~(stock[c][i].reserved = 0 /\ depot[c][i] = stock[c][i].quantity)

\* Mutant: every part closes the contract.
ClosedByAnyPart(contract, n) == "FULFILLED"

StatusAfter(contract, n) ==
    IF contract.remaining = n THEN "FULFILLED" ELSE "PARTIALLY_FULFILLED"

\* fulfillContract: the buyer pays from all cash it has, reserved or not, and
\* takes the goods whether or not there is room.
FulfillContract(k, n) ==
    LET it == contracts[k]
        price == n * it.price
    IN
    /\ it.status \in {"ACCEPTED", "PARTIALLY_FULFILLED"} /\ ~Expired(k)
    /\ n <= it.remaining
    /\ AvailableStock(it.seller, it.item) >= n
    /\ OneRowMatches(it.seller, it.item)
    /\ cash[it.buyer].cash >= price
    /\ stock' = [stock EXCEPT ![it.seller][it.item].quantity = @ - n,
                              ![it.buyer][it.item].quantity = @ + n]
    /\ cash' = [cash EXCEPT ![it.buyer].cash = @ - price, ![it.seller].cash = @ + price]
    /\ ledger' = [ledger EXCEPT ![it.buyer].cash = @ - price, ![it.seller].cash = @ + price]
    /\ contracts' = [contracts EXCEPT ![k].remaining = @ - n, ![k].status = StatusAfter(it, n)]
    /\ UNCHANGED <<depot, consumed>>

-----------------------------------------------------------------------------
(* The contract stage of a tick.                                           *)

\* Mutant: accepted contracts do not expire.
OpenOnly == {"OPEN"}

Expirable == Live

\* expireContractsForTick, one statement for all of them.
ExpireContracts ==
    /\ contracts' = [k \in DOMAIN contracts |->
                        IF contracts[k].status \in Expirable /\ contracts[k].expires <= ThisTick
                        THEN [contracts[k] EXCEPT !.status = "EXPIRED"] ELSE contracts[k]]
    /\ UNCHANGED Tables

\* loadRecentTradeAveragesByItem, over all trades.
BasePrice(i) ==
    LET prices == PricesOf(i) IN
    IF prices = <<>> THEN UsualPrice[i] ELSE SumFunction(prices) \div Len(prices)

\* resolveContractUnitPriceCents: above and below the base price by turns.
ContractPrice(i, k) ==
    LET band == (BasePrice(i) * PriceBand) \div PriceScale
        price == IF (ThisTick + k) % 2 = 0 THEN BasePrice(i) + band ELSE BasePrice(i) - band
    IN  IF price > 0 THEN price ELSE 1

\* Without items, or without companies to buy them, there are no offers.
OffersPerTick == IF Items = {} \/ Npcs = {} THEN 0 ELSE ContractsPerTick

\* Round k of generateContractsForTick, with k from zero.
OfferContract(k) ==
    LET items == SetToSeq(Items)
        npcs == SetToSeq(Npcs)
        i == items[((ThisTick + k) % Len(items)) + 1]
        c == npcs[((ThisTick + k * 3) % Len(npcs)) + 1]
        n == UsualQuantity[i] + ((ThisTick + k) % 3)
        offer == [buyer |-> c, seller |-> NoCompany, item |-> i, remaining |-> n,
                  price |-> ContractPrice(i, k), status |-> "OPEN",
                  expires |-> ThisTick + ContractTtl]
    IN
    /\ contracts' = IF cash[c].cash >= n * offer.price THEN Append(contracts, offer) ELSE contracts
    /\ UNCHANGED Tables
=============================================================================
