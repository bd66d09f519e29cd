-------------------------- MODULE MCTickProcessing --------------------------
(* Symmetry for the safety runs of TickProcessing: no action and no property *)
(* of those runs tells one worker, or one job, from another.                 *)
EXTENDS TickProcessing, TLC

Symmetry == Permutations(Workers) \cup Permutations(Jobs)
=============================================================================
