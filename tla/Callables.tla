------------------------------ MODULE Callables ------------------------------
(* What my::function promises: each function object has its own copy of the *)
(* callable it was given, and no other copy of a callable exists.           *)
EXTENDS Integers, FiniteSets
CONSTANTS Functions, Targets, None
VARIABLES
  target,  \* target[f]: the callable of function object f; its domain is those that exist
  copies,  \* the number of callables that exist
  answer   \* the callable that the latest call reached, or None for a throw

vars == <<target, copies, answer>>

Init == target = [f \in {} |-> None] /\ copies = 0 /\ answer = None

Owners == DOMAIN target
Become(new) ==
  /\ target' = new
  /\ copies' = Cardinality({f \in DOMAIN new : new[f] # None})
  /\ UNCHANGED answer
With(f, t) == [g \in Owners \cup {f} |-> IF g = f THEN t ELSE target[g]]

\* f is created, from a callable or empty, or is emptied: by nullptr, or by a copy
\* that throws.  Or it is created or assigned from another object, by copy or move.
Create(f)  == f \notin Owners /\ \E t \in Targets \cup {None} : Become(With(f, t))
Clear(f)   == f \in Owners /\ Become(With(f, None))
Copy(f, g) == Become(With(f, target[g]))
Move(f, g) == Become([With(f, target[g]) EXCEPT ![g] = None])
Destroy(f) == Become([g \in Owners \ {f} |-> target[g]])
Invoke(f)  == answer' = target[f] /\ UNCHANGED <<target, copies>>

Next ==
  \/ \E f \in Functions : Create(f)
  \/ \E f \in Functions, g \in Owners : f # g /\ (Copy(f, g) \/ Move(f, g))
  \/ \E f \in Owners : Clear(f) \/ Destroy(f) \/ Invoke(f)

Spec == Init /\ [][Next]_vars
=============================================================================
