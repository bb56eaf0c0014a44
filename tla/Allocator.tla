----------------------------- MODULE Allocator -----------------------------
(* What a fixed-size allocator promises: a chunk is given to one client at  *)
(* a time, its contents are what the client wrote there last, and a request *)
(* fails only when every chunk is taken.                                    *)
EXTENDS Naturals, Functions
CONSTANTS Chunks, Words, None
VARIABLES
  contents,   \* contents[c]: what chunk c holds; its domain is the chunks given out
  granted,    \* how often Allocate gave out a chunk that has not come back
  result      \* the answer to the latest request

vars == <<contents, granted, result>>

Init == contents = [c \in {} |-> None] /\ granted = 0 /\ result = None

(* A free chunk changes hands; what it contains is unspecified. *)
Allocate ==
  \E c \in Chunks \ DOMAIN contents, w \in Words :
    /\ contents' = [d \in DOMAIN contents \union {c} |->
                      IF d = c THEN w ELSE contents[d]]
    /\ granted' = granted + 1
    /\ result' = c

Exhausted == DOMAIN contents = Chunks /\ result' = None /\ UNCHANGED <<contents, granted>>

Deallocate ==
  \E c \in DOMAIN contents :
    /\ contents' = Restrict(contents, DOMAIN contents \ {c})
    /\ granted' = granted - 1
    /\ UNCHANGED result

Write ==
  \E c \in DOMAIN contents, w \in Words :
    /\ contents' = [contents EXCEPT ![c] = w]
    /\ UNCHANGED <<granted, result>>

Next == Allocate \/ Exhausted \/ Deallocate \/ Write

Spec == Init /\ [][Next]_vars
=============================================================================
