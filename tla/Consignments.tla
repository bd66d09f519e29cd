---------------------------- MODULE Consignments ----------------------------
(***************************************************************************)
(* What shipments and a contract promise about goods and money, whichever  *)
(* of them end at the same time: the load of a shipment is put down once,  *)
(* at its destination or back at its origin, and a contract is paid for    *)
(* what is handed over, never beyond what was agreed and never after its   *)
(* end.                                                                    *)
(***************************************************************************)
EXTENDS Integers, FiniteSets

CONSTANTS
    Shipments,  \* shipments under way at the beginning, from home to away
    Load,       \* items that each of them carries
    Price,      \* agreed for an item of the contract
    Agreed,     \* number of items agreed
    StartHome,  \* items the seller has at home
    StartAway   \* and in the other region

VARIABLES
    moving,          \* shipments not yet put down
    home, away,      \* the seller's items in the two regions
    handed,          \* items the buyer has received
    charged, paid,   \* money taken from the buyer for them, and given to the seller
    remaining,       \* items still to be handed over
    expired          \* whether the contract is over

TypeOK ==
    /\ moving \subseteq Shipments
    /\ {home, away, handed, charged, paid, remaining} \subseteq Nat
    /\ expired \in BOOLEAN

Init ==
    /\ moving = Shipments
    /\ home = StartHome /\ away = StartAway
    /\ handed = 0 /\ charged = 0 /\ paid = 0 /\ remaining = Agreed
    /\ expired = FALSE

\* Some shipments arrive or come back; one that has been put down stays there.
PutDown(back, there) ==
    /\ moving' = moving \ (back \cup there)
    /\ home' = home + Load * Cardinality(back)
    /\ away' = away + Load * Cardinality(there)
    /\ UNCHANGED <<handed, charged, paid, remaining>>

\* The items come from one region, which is not the seller's to choose.
HandOver(n) ==
    /\ ~expired /\ n \in 1 .. remaining
    /\ <<home', away'>> \in {<<home - n, away>>, <<home, away - n>>}
    /\ handed' = handed + n
    /\ charged' = charged + n * Price
    /\ paid' = paid + n * Price
    /\ remaining' = remaining - n
    /\ UNCHANGED <<moving, expired>>

\* A tick may end the contract, unless everything has been handed over.
Expire == expired' \in {expired, remaining > 0}

Next ==
    \/ \E back \in SUBSET moving : \E there \in SUBSET (moving \ back) :
          PutDown(back, there) /\ Expire
    \/ \E n \in 1 .. Agreed : HandOver(n)

Spec == Init /\ [][Next]_<<moving, home, away, handed, charged, paid, remaining, expired>>
=============================================================================
