------------------------- MODULE GarbageCollector -------------------------
(* The mark-and-sweep collector.  mark is recursive: its activations are    *)
(* kept on an explicit stack, so that one step is one call of mark or one   *)
(* return from it.  The program uses the collector's public fields between  *)
(* collections, as main does.                                               *)
EXTENDS Integers, Sequences, FiniteSets, SequencesExt
CONSTANTS
  Objects,     \* addresses that new may return
  MaxRefs,     \* bound on the references of all objects together
  MaxRoots     \* bound on the number of registered roots

VARIABLES
  allocated,    \* objects created and not deleted
  objects, roots, references, marked,
  phase,        \* "idle", "mark" or "sweep"
  rootIndex,    \* the loop of markAll: roots already visited
  stack,        \* activations of mark: the object, the references visited
  todo          \* the loop of sweep: objects the iterator has yet to reach

vars == <<allocated, objects, roots, references, marked, phase, rootIndex,
          stack, todo>>

mutatorVars == <<allocated, objects, roots, references>>
collectorVars == <<phase, rootIndex, stack, todo>>

Init ==
  /\ allocated = {} /\ objects = {} /\ roots = <<>>
  /\ references = [o \in Objects |-> <<>>]
  /\ marked = [o \in Objects |-> FALSE]
  /\ phase = "idle" /\ rootIndex = 0 /\ stack = <<>> /\ todo = {}

(* new Node: a freed address may come back. *)
New(o) ==
  /\ phase = "idle"
  /\ o \notin allocated
  /\ allocated' = allocated \union {o}
  /\ references' = [references EXCEPT ![o] = <<>>]
  /\ marked' = [marked EXCEPT ![o] = FALSE]
  /\ UNCHANGED <<objects, roots, collectorVars>>

track(o) ==
  /\ phase = "idle"
  /\ o \in allocated
  /\ objects' = objects \union {o}
  /\ UNCHANGED <<allocated, roots, references, marked, collectorVars>>

addRoot(o) ==
  /\ phase = "idle"
  /\ o \in allocated
  /\ Len(roots) < MaxRoots
  /\ roots' = Append(roots, o)
  /\ UNCHANGED <<allocated, objects, references, marked, collectorVars>>

(* gc.roots.clear() *)
ClearRoots ==
  /\ phase = "idle"
  /\ roots # <<>>
  /\ roots' = <<>>
  /\ UNCHANGED <<allocated, objects, references, marked, collectorVars>>

RefCount ==
  Cardinality(UNION {{<<o, i>> : i \in DOMAIN references[o]} : o \in Objects})

(* o->references.push_back(p): p may be o itself, or be there already. *)
AddReference(o, p) ==
  /\ phase = "idle"
  /\ o \in allocated /\ p \in allocated
  /\ RefCount < MaxRefs
  /\ references' = [references EXCEPT ![o] = Append(@, p)]
  /\ UNCHANGED <<allocated, objects, roots, marked, collectorVars>>

DropReferences(o) ==
  /\ phase = "idle"
  /\ o \in allocated
  /\ references[o] # <<>>
  /\ references' = [references EXCEPT ![o] = <<>>]
  /\ UNCHANGED <<allocated, objects, roots, marked, collectorVars>>

(* All objects are registered before a collection, as the README asks. *)
collect ==
  /\ phase = "idle"
  /\ objects = allocated
  /\ phase' = "mark"
  /\ rootIndex' = 0
  /\ stack' = <<>>
  /\ UNCHANGED <<mutatorVars, marked, todo>>

(* The body of mark up to its loop; a marked object is left at once. *)
Enter(o, callers) ==
  IF marked[o]
  THEN /\ stack' = callers
       /\ UNCHANGED marked
  ELSE /\ marked' = [marked EXCEPT ![o] = TRUE]
       /\ stack' = Append(callers, [obj |-> o, next |-> 0])

(* markAll: the next root. *)
MarkRoot ==
  /\ phase = "mark"
  /\ stack = <<>>
  /\ rootIndex < Len(roots)
  /\ rootIndex' = rootIndex + 1
  /\ Enter(roots[rootIndex + 1], <<>>)
  /\ UNCHANGED <<mutatorVars, phase, todo>>

(* The loop over the references starts at the second one. *)
MarkReference_SkipsFirst ==
  /\ phase = "mark"
  /\ stack # <<>>
  /\ LET top == Last(stack)
         i == top.next + 1
     IN /\ i < Len(references[top.obj])
        /\ Enter(references[top.obj][i + 1],
                 Append(Front(stack), [top EXCEPT !.next = i]))
  /\ UNCHANGED <<mutatorVars, phase, rootIndex, todo>>

(* The iterator is not advanced. *)
MarkReference_Stays ==
  /\ phase = "mark"
  /\ stack # <<>>
  /\ LET top == Last(stack)
         i == top.next + 1
     IN /\ i <= Len(references[top.obj])
        /\ Enter(references[top.obj][i], stack)
  /\ UNCHANGED <<mutatorVars, phase, rootIndex, todo>>

(* mark's loop: the next reference of the innermost activation. *)
MarkReference ==
  /\ phase = "mark"
  /\ stack # <<>>
  /\ LET top == Last(stack)
         i == top.next + 1
     IN /\ i <= Len(references[top.obj])
        /\ Enter(references[top.obj][i],
                 Append(Front(stack), [top EXCEPT !.next = i]))
  /\ UNCHANGED <<mutatorVars, phase, rootIndex, todo>>

MarkReturns ==
  /\ phase = "mark"
  /\ stack # <<>>
  /\ Last(stack).next = Len(references[Last(stack).obj])
  /\ stack' = Front(stack)
  /\ UNCHANGED <<mutatorVars, marked, phase, rootIndex, todo>>

(* The loop of markAll stops one root short. *)
StartSweep_RootLeft ==
  /\ phase = "mark"
  /\ stack = <<>>
  /\ rootIndex + 1 >= Len(roots)
  /\ phase' = "sweep"
  /\ todo' = objects
  /\ rootIndex' = 0
  /\ UNCHANGED <<mutatorVars, marked, stack>>

(* markAll returns and sweep begins. *)
StartSweep ==
  /\ phase = "mark"
  /\ stack = <<>>
  /\ rootIndex = Len(roots)
  /\ phase' = "sweep"
  /\ todo' = objects
  /\ rootIndex' = 0
  /\ UNCHANGED <<mutatorVars, marked, stack>>

(* The set keeps the address of the deleted object. *)
Delete_Unerased(o) ==
  /\ ~marked[o]
  /\ allocated' = allocated \ {o}
  /\ references' = [references EXCEPT ![o] = <<>>]
  /\ UNCHANGED <<marked, objects>>

(* delete: the references go with the object. *)
Delete(o) ==
  /\ ~marked[o]
  /\ allocated' = allocated \ {o}
  /\ objects' = objects \ {o}
  /\ references' = [references EXCEPT ![o] = <<>>]
  /\ UNCHANGED marked

(* The flag is not reset for the next cycle. *)
Keep_Marked(o) ==
  /\ marked[o]
  /\ UNCHANGED <<marked, allocated, objects, references>>

Keep(o) ==
  /\ marked[o]
  /\ marked' = [marked EXCEPT ![o] = FALSE]
  /\ UNCHANGED <<allocated, objects, references>>

(* ++it after erase: the element behind a deleted one is passed over. *)
SweepOne_SkipsAfterErase ==
  /\ phase = "sweep"
  /\ \E o \in todo : \/ Keep(o) /\ todo' = todo \ {o}
                     \/ Delete(o) /\ \E p \in todo : todo' = todo \ {o, p}
  /\ UNCHANGED <<roots, phase, rootIndex, stack>>

(* unordered_set promises no order. *)
SweepOne ==
  /\ phase = "sweep"
  /\ \E o \in todo : /\ Delete(o) \/ Keep(o)
                     /\ todo' = todo \ {o}
  /\ UNCHANGED <<roots, phase, rootIndex, stack>>

EndSweep ==
  /\ phase = "sweep"
  /\ todo = {}
  /\ phase' = "idle"
  /\ UNCHANGED <<mutatorVars, marked, rootIndex, stack, todo>>

Mutator ==
  \/ \E o \in Objects : New(o) \/ track(o) \/ addRoot(o) \/ DropReferences(o)
  \/ \E o, p \in Objects : AddReference(o, p)
  \/ ClearRoots

Collection ==
  MarkRoot \/ MarkReference \/ MarkReturns \/ StartSweep \/ SweepOne \/ EndSweep

Next == Mutator \/ collect \/ Collection

Spec == Init /\ [][Next]_vars
(* The thread that called collect runs on. *)
FairSpec == Spec /\ WF_vars(Collection)
-----------------------------------------------------------------------------
(* The collector knows no object that is deleted, and sweep visits only     *)
(* objects it knows.                                                        *)
TypeOK ==
  /\ objects \subseteq allocated /\ allocated \subseteq Objects
  /\ roots \in Seq(Objects)
  /\ references \in [Objects -> Seq(Objects)]
  /\ marked \in [Objects -> BOOLEAN]
  /\ phase \in {"idle", "mark", "sweep"}
  /\ rootIndex \in 0 .. Len(roots)
  /\ stack \in Seq([obj : Objects, next : Nat])
  /\ todo \subseteq objects

(* The depth-first search misses nothing: every reference of a marked       *)
(* object is marked, or the loop of an activation of mark that is still on  *)
(* the stack has yet to reach it; every root behind the loop is marked; and *)
(* no object is on the stack twice, so cycles do not recurse for ever.      *)
NothingIsMissed ==
  phase = "mark" =>
    /\ \A i \in 1 .. rootIndex : marked[roots[i]]
    /\ \A o \in Objects : marked[o] =>
         \A i \in 1 .. Len(references[o]) :
           \/ marked[references[o][i]]
           \/ \E f \in Range(stack) : f.obj = o /\ f.next < i
    /\ \A i, j \in 1 .. Len(stack) : stack[i].obj = stack[j].obj => i = j

(* A cycle leaves no mark behind that the next one would take for its own. *)
NoMarkSurvives == phase = "idle" => \A o \in Objects : ~marked[o]

(* What a cycle needs to be right about the graph, and to leave for the next. *)
HeapInvariant == TypeOK /\ NothingIsMissed /\ NoMarkSurvives

(* Objects sweep has yet to delete are already lost to the program. *)
Doomed == IF phase = "sweep" THEN {o \in todo : ~marked[o]} ELSE {}

(* A collection amounts to freeing, when marking ends, exactly the objects  *)
(* that cannot be reached from the roots.                                   *)
Promised == INSTANCE Collector WITH
              graph <- [o \in allocated \ Doomed |-> references[o]]
ImplementsCollector == Promised!Spec

(* Every collection ends, in a graph with cycles too. *)
CollectionEnds == phase # "idle" ~> phase = "idle"
=============================================================================
