-------------------------- MODULE MCThreadSafeQueue --------------------------
(* Model-checking instance of ThreadSafeQueue: threads and values are        *)
(* interchangeable, so the safety run may use symmetry.                      *)
EXTENDS ThreadSafeQueue, TLC

Symmetry == Permutations(Threads) \cup Permutations(Values)
=============================================================================
