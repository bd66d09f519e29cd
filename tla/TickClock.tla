------------------------------ MODULE TickClock ------------------------------
(***************************************************************************)
(* What the tick engine promises whoever asks it to advance the world: a   *)
(* clock that counts 1, 2, 3, ... with no tick skipped and none run twice, *)
(* and that runs at most one tick for an execution key as long as the key  *)
(* is remembered.  The engine may forget a key whose tick lies Retention   *)
(* ticks or more in the past (Retention = 0: never).                       *)
(***************************************************************************)
EXTENDS Integers

CONSTANTS ExecutionKeys, NoKey, Retention

VARIABLES tick, log

\* No remembered tick ran under key k.
Unused(k) ==
    \/ k = NoKey
    \/ \A e \in log : e.key = k => Retention > 0 /\ e.tick <= tick - Retention

Advance(k) ==
    /\ Unused(k)
    /\ tick' = tick + 1
    /\ log' = log \cup {[tick |-> tick + 1, key |-> k]}

Init == tick = 0 /\ log = {}
Next == \E k \in ExecutionKeys \cup {NoKey} : Advance(k)
Spec == Init /\ [][Next]_<<tick, log>>
=============================================================================
