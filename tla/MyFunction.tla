----------------------------- MODULE MyFunction -----------------------------
(* my_function/my_function.hpp: a function object holds its callable in its *)
(* own buffer if it is small, and else in a block of the heap.  A place is  *)
(* a buffer, named like the object it is part of, or a heap block.          *)
EXTENDS Integers, FiniteSets
CONSTANTS
  Functions,      \* function objects
  Small, Large,   \* callables that fit into the buffer, and those that do not
  Blocks,         \* heap blocks
  nullptr, Nothing,
  MaxNesting      \* calls that fit on the stack
VARIABLES
  exists,      \* the function objects whose lifetime has begun and not ended
  callable_,   \* callable_[f]: a place, or nullptr
  holds,       \* holds[p]: the callable that lives in place p
  answer,      \* the callable that the latest operator() invoked
  nesting,     \* constructors on the stack in the endless copy below
  terminated   \* the stack has overflowed

objectVars == <<exists, callable_, holds>>
vars == <<objectVars, answer, nesting, terminated>>

Places == Functions \cup Blocks
Targets == Small \cup Large

\* A buffer is no heap block, and neither is at the null address.
FunctionAssumption ==
  /\ IsFiniteSet(Places) /\ Functions \cap Blocks = {} /\ nullptr \notin Places
  /\ Nothing \notin Targets

Init ==
  /\ exists = {} /\ nesting = 0 /\ terminated = FALSE /\ answer = Nothing
  /\ callable_ = [f \in Functions |-> nullptr]
  /\ holds = [p \in Places |-> Nothing]

Empty(f)  == callable_[f] = nullptr
is_sbo(f) == callable_[f] = f
fits_in_sbo(t) == t \in Small

\* A clear() that takes its callable for a heap block and forgets the buffer.
Cleared_HeapOnly(f) ==
  IF Empty(f) \/ is_sbo(f) THEN holds ELSE [holds EXCEPT ![callable_[f]] = Nothing]

\* The places after clear() of f: destroyed in the buffer, or deleted.
Cleared(f) == IF Empty(f) THEN holds ELSE [holds EXCEPT ![callable_[f]] = Nothing]

\* A new callable for f in its buffer or in a free block, given the places h.
PutInto(f, t, in_buffer, h) ==
  \E p \in IF in_buffer THEN {f} ELSE {b \in Blocks : h[b] = Nothing} :
    /\ holds' = [h EXCEPT ![p] = t]
    /\ callable_' = [callable_ EXCEPT ![f] = p]

LeaveEmpty(f, h) == holds' = h /\ callable_' = [callable_ EXCEPT ![f] = nullptr]

\* clone() into f, given the places h.
CopyFrom(f, g, h) ==
  IF Empty(g) THEN LeaveEmpty(f, h) ELSE PutInto(f, holds[callable_[g]], is_sbo(g), h)

\* The heap pointer is copied and left in g as well.
MoveFrom_Shares(f, g, h) ==
  IF is_sbo(g)
  THEN /\ holds' = [h EXCEPT ![f] = h[g], ![g] = Nothing]
       /\ callable_' = [callable_ EXCEPT ![f] = f, ![g] = nullptr]
  ELSE holds' = h /\ callable_' = [callable_ EXCEPT ![f] = callable_[g]]

\* move_clone() from buffer to buffer and clear() of g, or the stolen block.
MoveFrom(f, g, h) ==
  IF is_sbo(g)
  THEN /\ holds' = [h EXCEPT ![f] = h[g], ![g] = Nothing]
       /\ callable_' = [callable_ EXCEPT ![f] = f, ![g] = nullptr]
  ELSE holds' = h /\ callable_' = [callable_ EXCEPT ![f] = callable_[g], ![g] = nullptr]
-----------------------------------------------------------------------------
Running  == nesting = 0 /\ UNCHANGED <<answer, nesting, terminated>>
Begin(f) == Running /\ f \notin exists /\ exists' = exists \cup {f}

ConstructEmpty(f) == Begin(f) /\ LeaveEmpty(f, holds)
Construct(f, t)   == Begin(f) /\ PutInto(f, t, fits_in_sbo(t), holds)
CopyConstruct(f, g) == Begin(f) /\ g \in exists /\ CopyFrom(f, g, holds)
MoveConstruct(f, g) == Begin(f) /\ g \in exists /\ MoveFrom(f, g, holds)

Destroy(f) ==
  /\ Running /\ f \in exists
  /\ exists' = exists \ {f}
  /\ LeaveEmpty(f, Cleared(f))

Assigning(f) == Running /\ f \in exists /\ UNCHANGED exists

\* Assignment from itself is caught before clear().
CopyAssign(f, g) == Assigning(f) /\ g \in exists \ {f} /\ CopyFrom(f, g, Cleared(f))
MoveAssign(f, g) == Assigning(f) /\ g \in exists \ {f} /\ MoveFrom(f, g, Cleared(f))
AssignNull(f)    == Assigning(f) /\ LeaveEmpty(f, Cleared(f))

\* clone() throws after clear(): the callable is gone and f stays empty.
CopyAssignThrows(f, g) == Assigning(f) /\ g \in exists \ {f} /\ ~Empty(g) /\ LeaveEmpty(f, Cleared(f))

\* operator(): an empty object throws std::bad_function_call.
Invoke(f) ==
  /\ nesting = 0 /\ f \in exists
  /\ answer' = IF Empty(f) THEN Nothing ELSE holds[callable_[f]]
  /\ UNCHANGED <<objectVars, nesting, terminated>>

\* function g(f) where f is not const: the constructor template is the better
\* match, because std::decay<F> is never the type function.  Its callable is a
\* function itself, which is constructed from f in the same way.
CopyNonConst(f, g) ==
  /\ f \notin exists /\ g \in exists
  /\ nesting < MaxNesting
  /\ nesting' = nesting + 1
  /\ UNCHANGED <<objectVars, answer, terminated>>

StackOverflows ==
  /\ nesting = MaxNesting
  /\ terminated' = TRUE
  /\ UNCHANGED <<objectVars, answer, nesting>>

Next ==
  \/ \E f \in Functions :
       \/ ConstructEmpty(f) \/ Destroy(f) \/ AssignNull(f) \/ Invoke(f)
       \/ \E t \in Targets : Construct(f, t)
       \/ \E g \in Functions :
            \/ CopyConstruct(f, g) \/ MoveConstruct(f, g) \/ CopyNonConst(f, g)
            \/ CopyAssign(f, g) \/ MoveAssign(f, g) \/ CopyAssignThrows(f, g)
  \/ StackOverflows

Spec == Init /\ [][Next]_vars
-----------------------------------------------------------------------------
\* Whatever is constructed, copied, moved, assigned and destroyed, each object
\* calls what it was given and owns it alone: no callable is leaked, shared or
\* destroyed twice.
Promised == INSTANCE Callables WITH
              target <- [f \in exists |-> IF Empty(f) THEN Nothing ELSE holds[callable_[f]]],
              copies <- Cardinality({p \in Places : holds[p] # Nothing}),
              None <- Nothing
ImplementsCallables == Promised!Spec
=============================================================================
