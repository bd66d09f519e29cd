----------------------------- MODULE MCOpenClose -----------------------------
(* Values for the runs of OpenClose: what is asked for, and when it is due. *)
EXTENDS OpenClose

CONSTANTS j1, j2, s1

AtOnce == [r \in Jobs |-> 1]
AtFirst == [r \in Shipments |-> 1]

\* As much of everything as at home, when home has one job and one order.
Alike == [quantity |-> 4, reserved |-> 2]

Ask(kind, row, n, by) == [kind |-> kind, row |-> row, n |-> n, by |-> by]

\* Everything that can meet on the ore of a company.
Crossing == {Ask("job", j1, 0, 1), Ask("shipment", s1, 0, 1), Ask("fulfill", "contract", 1, 1),
             Ask("fulfill", "contract", 2, 2)}
OneDelivery == {ask \in Crossing : ask.n < 2}
TwoDeliveries == {ask \in Crossing : ask.kind # "job"}
Threes == {OneDelivery, TwoDeliveries}

TwoCancels == {Ask("job", j1, 0, 1), Ask("job", j1, 0, 2)}
Both == {TwoCancels}
=============================================================================
