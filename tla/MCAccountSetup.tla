---------------------------- MODULE MCAccountSetup ----------------------------
(* Values for the run of AccountSetup. *)
EXTENDS AccountSetup

CONSTANTS ann, bob, root

Roles == [u \in Users |-> IF u = root THEN "ADMIN" ELSE "USER"]
Tours == <<"/overview", "/overview">>

\* ann may have got anywhere; bob is ready to play and has played here before.
Some == /\ Init
        /\ bob \in taught /\ stored = bob /\ account \in {Nobody, ann}

FromSome == Some /\ [][Next]_vars /\ Fairness
=============================================================================
