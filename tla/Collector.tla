----------------------------- MODULE Collector -----------------------------
(* What a garbage collector promises: a collection, seen as one step, frees *)
(* every object that no path of references leads to from a root, and no     *)
(* other.                                                                   *)
EXTENDS Functions, Sequences
CONSTANT Objects
VARIABLES
  graph,   \* graph[o]: the references of live object o, a sequence
  roots

vars == <<graph, roots>>

Live == DOMAIN graph

(* The least set that has the roots and is closed under references. *)
Reachable ==
  LET Closed(S) == /\ Range(roots) \subseteq S
                   /\ \A o \in S \intersect Live : Range(graph[o]) \subseteq S
  IN {o \in Objects : \A S \in SUBSET Objects : Closed(S) => o \in S}

Init == graph = [o \in {} |-> <<>>] /\ roots = <<>>

(* Between collections the program shapes the graph of live objects. *)
New ==
  \E o \in Objects \ Live :
    /\ graph' = [p \in Live \union {o} |-> IF p = o THEN <<>> ELSE graph[p]]
    /\ UNCHANGED roots

Assign ==
  \E o \in Live :
    /\ DOMAIN graph' = Live
    /\ Range(graph'[o]) \subseteq Live
    /\ graph' = [graph EXCEPT ![o] = graph'[o]]
    /\ UNCHANGED roots

SetRoots == Range(roots') \subseteq Live /\ UNCHANGED graph

Collect == graph' = Restrict(graph, Reachable) /\ UNCHANGED roots

Next == New \/ Assign \/ SetRoots \/ Collect

Spec == Init /\ [][Next]_vars
=============================================================================
