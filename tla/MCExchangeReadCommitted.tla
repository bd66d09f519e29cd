---------------------- MODULE MCExchangeReadCommitted ----------------------
(* Symmetry for the runs of ExchangeReadCommitted: no action and no property *)
(* tells one company, or one request, from another.                          *)
EXTENDS ExchangeReadCommitted, TLC

Symmetry == Permutations(Companies) \cup Permutations(Requests)
=============================================================================
