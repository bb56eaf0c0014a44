---------------------------- MODULE MCThreadPool ----------------------------
(* Model-checking instance of ThreadPool: which task enqueues which.         *)
EXTENDS ThreadPool, TLC

CONSTANTS x1, x2, x3, x4

\* x1 enqueues x4 when it runs; the owner enqueues the others.
OneSpawns == [x \in Tasks |-> IF x = x1 THEN {x4} ELSE {}]
=============================================================================
