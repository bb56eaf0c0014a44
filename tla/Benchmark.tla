------------------------------ MODULE Benchmark ------------------------------
(* Memory-Pool-in-CPP/MemPool/main.cpp: run_once<Object1> makes LIVE        *)
(* objects in a pool of Amount chunks, reads and deletes them, again and    *)
(* again; the pool keeps its state from one run_once to the next.  The runs *)
(* with Object, on the ordinary heap, and the statistics are left out.      *)
EXTENDS Integers, Sequences
CONSTANTS
  Amount, Data,       \* of MemPool
  LIVE, ITERATIONS    \* objects o1, o2, ... and iterations of all rounds
VARIABLES
  pc, current, freeListHead_, word, held, granted, result, free,  \* the pool
  stage,      \* what run_once does next, or "crashed"
  i, o,       \* the iteration, and the addresses of its objects
  read        \* what the get() of the latest iteration returned

poolVars == <<pc, current, freeListHead_, word, held, granted, result, free>>
vars == <<poolVars, stage, i, o, read>>

Pool == INSTANCE MemPool

BenchmarkAssumption == Amount \in Nat /\ LIVE \in 1 .. Amount /\ 1 .. ITERATIONS + LIVE \subseteq Data

Init == Pool!Init /\ stage = "new" /\ i = 0 /\ o = <<>> /\ read = <<>>

memoryManager == (Pool!LinkNext \/ Pool!TerminateList) /\ UNCHANGED <<stage, i, o, read>>

New ==
  /\ stage = "new" /\ Len(o) < LIVE /\ i < ITERATIONS
  /\ Pool!Allocate
  /\ o' = Append(o, result') /\ stage' = "constructor"
  /\ UNCHANGED <<i, read>>

\* operator new has returned nullptr, and the constructor stores through it.
NewCrashes ==
  /\ stage = "new" /\ Len(o) < LIVE /\ i < ITERATIONS
  /\ Pool!AllocateFails
  /\ stage' = "crashed"
  /\ UNCHANGED <<i, o, read>>

Object1 ==
  /\ stage = "constructor"
  /\ Pool!ClientWrites(result) /\ word'[result] = i + Len(o)
  /\ stage' = "new"
  /\ UNCHANGED <<i, o, read>>

get ==
  /\ stage = "new" /\ Len(o) = LIVE
  /\ read' = [k \in 1 .. LIVE |-> word[o[k]]]
  /\ stage' = "delete"
  /\ UNCHANGED <<poolVars, i, o>>

Delete_KeepsLast ==
  /\ stage = "delete"
  /\ Pool!Deallocate(Head(o))
  /\ IF Len(o) > 2 THEN o' = Tail(o) /\ UNCHANGED <<stage, i>>
     ELSE o' = <<>> /\ stage' = "new" /\ i' = i + 1
  /\ UNCHANGED read

Delete ==
  /\ stage = "delete"
  /\ Pool!Deallocate(Head(o))
  /\ o' = Tail(o)
  /\ IF Len(o) > 1 THEN UNCHANGED <<stage, i>> ELSE stage' = "new" /\ i' = i + 1
  /\ UNCHANGED read

Finished == i = ITERATIONS /\ UNCHANGED vars

Next == memoryManager \/ New \/ NewCrashes \/ Object1 \/ get \/ Delete \/ Finished
Spec == Init /\ [][Next]_vars
-----------------------------------------------------------------------------
\* The pool serves the benchmark: operator new never returns nullptr, every
\* object still holds what it was constructed with when all of them are read,
\* and however often run_once is called it stays within the first LIVE chunks
\* (the reuse that makes it fast).
PoolServesBenchmark ==
  /\ stage # "crashed"
  /\ stage = "delete" => read = [k \in 1 .. LIVE |-> i + k]
  /\ held \subseteq 1 .. LIVE
=============================================================================
