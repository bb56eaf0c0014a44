----------------------------- MODULE AtomicStack -----------------------------
(***************************************************************************)
(* What a concurrent stack promises: every push and every pop takes effect *)
(* at one instant.  LockFreeStack implements this specification.           *)
(***************************************************************************)
EXTENDS Naturals, Sequences

CONSTANTS Threads, Keys

VARIABLES items, \* the keys on the stack, top first
          got    \* got[t]: the result of t's last pop that has taken effect

vars == <<items, got>>

Init ==
  /\ items = <<>>
  /\ got = [t \in Threads |-> 0]

Push(k) ==
  /\ items' = <<k>> \o items
  /\ UNCHANGED got

Pop(t) ==
  /\ items # <<>>
  /\ got' = [got EXCEPT ![t] = Head(items)]
  /\ items' = Tail(items)

\* pop reports an empty stack by returning 0.
PopEmpty(t) ==
  /\ items = <<>>
  /\ got' = [got EXCEPT ![t] = 0]
  /\ UNCHANGED items

Next ==
  \/ \E k \in Keys : Push(k)
  \/ \E t \in Threads : Pop(t) \/ PopEmpty(t)

Spec == Init /\ [][Next]_vars
=============================================================================
