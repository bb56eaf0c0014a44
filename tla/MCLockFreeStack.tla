--------------------------- MODULE MCLockFreeStack ---------------------------
(* Model-checking instance of LockFreeStack: threads and addresses are       *)
(* interchangeable.                                                          *)
EXTENDS LockFreeStack, TLC

Symmetry == Permutations(Threads) \cup Permutations(Nodes)
=============================================================================
