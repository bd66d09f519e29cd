----------------------------- MODULE MCExchange -----------------------------
(* Symmetry for the runs of Exchange: no action and no property tells one    *)
(* company from another.                                                     *)
EXTENDS Exchange, TLC

Symmetry == Permutations(Companies)
=============================================================================
