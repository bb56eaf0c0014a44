------------------------------ MODULE StackDemo ------------------------------
(***************************************************************************)
(* Lock-free-stack/main.cpp, produce, consume and main: one producer       *)
(* pushes 1 .. total_items, the consumers pop until each has its share,    *)
(* and main compares the sums.  The steps inside push and pop are those of *)
(* LockFreeStack.                                                          *)
(***************************************************************************)
EXTENDS Integers, Sequences, FiniteSets, Functions

CONSTANTS Producer, Consumers, ITEMS_PER_CONSUMER,
          Nodes, nullptr, MaxTag, MaxSpurious \* see LockFreeStack

total_items == Cardinality(Consumers) * ITEMS_PER_CONSUMER

\* Enough addresses that new never fails; the bound on tags is out of reach.
StackDemoAssumption ==
  /\ IsFiniteSet(Consumers) /\ Consumers # {} /\ Producer \notin Consumers
  /\ ITEMS_PER_CONSUMER \in Nat \ {0}
  /\ Cardinality(Nodes) >= total_items
  /\ nullptr \notin Nodes /\ MaxTag \in Nat /\ MaxSpurious \in Nat

VARIABLES top, tag_counter, allocated, key, next, pc, old_top, new_top, ret, stack, spurious,
          fpc,       \* where each thread stands in produce, consume or main
          i,         \* its loop variable
          local_sum, \* its subtotal
          producer_sum, consumer_sum, \* the atomics
          verdict    \* what main prints

stackVars == <<top, tag_counter, allocated, key, next, pc, old_top, new_top, ret, stack, spurious>>
vars == <<stackVars, fpc, i, local_sum, producer_sum, consumer_sum, verdict>>

Workers == Consumers \cup {Producer}
Stack == INSTANCE LockFreeStack WITH Threads <- Workers, Keys <- 1 .. total_items

Goto(t, label) == fpc' = [fpc EXCEPT ![t] = label]

Init ==
  /\ Stack!Init
  /\ fpc = [t \in Workers |-> "loop"]
  /\ i = [t \in Workers |-> 0]
  /\ local_sum = [t \in Workers |-> 0]
  /\ producer_sum = 0 /\ consumer_sum = 0
  /\ verdict = "none"
-----------------------------------------------------------------------------
\* stack.push(i): i counts the items handed to push so far.
ProducerPushes ==
  /\ fpc[Producer] = "loop" /\ i[Producer] < total_items
  /\ Stack!PushAlloc(Producer, i[Producer] + 1)
  /\ i' = [i EXCEPT ![Producer] = @ + 1]
  /\ Goto(Producer, "calling")
  /\ UNCHANGED <<local_sum, producer_sum, consumer_sum, verdict>>

ProducerAdds ==
  /\ fpc[Producer] = "calling" /\ pc[Producer] = "idle"
  /\ local_sum' = [local_sum EXCEPT ![Producer] = @ + i[Producer]]
  /\ Goto(Producer, "loop")
  /\ UNCHANGED <<stackVars, i, producer_sum, consumer_sum, verdict>>

ProducerStores ==
  /\ fpc[Producer] = "loop" /\ i[Producer] = total_items
  /\ producer_sum' = local_sum[Producer]
  /\ Goto(Producer, "exited")
  /\ UNCHANGED <<stackVars, i, local_sum, consumer_sum, verdict>>

ConsumerPops(c) ==
  /\ fpc[c] = "loop" /\ i[c] < ITEMS_PER_CONSUMER
  /\ Stack!PopLoad(c)
  /\ Goto(c, "calling")
  /\ UNCHANGED <<i, local_sum, producer_sum, consumer_sum, verdict>>

\* An empty pop is retried; anything else is added to the subtotal.
ConsumerAdds_CountsEmpty(c) ==
  /\ fpc[c] = "calling" /\ pc[c] = "idle"
  /\ local_sum' = [local_sum EXCEPT ![c] = @ + ret[c]]
  /\ i' = [i EXCEPT ![c] = @ + 1]
  /\ Goto(c, "loop")
  /\ UNCHANGED <<stackVars, producer_sum, consumer_sum, verdict>>

ConsumerAdds(c) ==
  /\ fpc[c] = "calling" /\ pc[c] = "idle"
  /\ local_sum' = [local_sum EXCEPT ![c] = @ + ret[c]]
  /\ i' = [i EXCEPT ![c] = IF ret[c] = 0 THEN @ ELSE @ + 1]
  /\ Goto(c, "loop")
  /\ UNCHANGED <<stackVars, producer_sum, consumer_sum, verdict>>

ConsumerStores_Overwrites(c) ==
  /\ fpc[c] = "loop" /\ i[c] = ITEMS_PER_CONSUMER
  /\ consumer_sum' = local_sum[c]
  /\ Goto(c, "exited")
  /\ UNCHANGED <<stackVars, i, local_sum, producer_sum, verdict>>

ConsumerStores(c) ==
  /\ fpc[c] = "loop" /\ i[c] = ITEMS_PER_CONSUMER
  /\ consumer_sum' = consumer_sum + local_sum[c]
  /\ Goto(c, "exited")
  /\ UNCHANGED <<stackVars, i, local_sum, producer_sum, verdict>>

InStack(t) ==
  /\ Stack!Proceed(t)
  /\ UNCHANGED <<fpc, i, local_sum, producer_sum, consumer_sum, verdict>>

\* main joins every thread and compares the sums.
MainChecks ==
  /\ verdict = "none"
  /\ \A t \in Workers : fpc[t] = "exited"
  /\ verdict' = IF producer_sum = consumer_sum /\ producer_sum # 0 THEN "PASS" ELSE "FAIL"
  /\ UNCHANGED <<stackVars, fpc, i, local_sum, producer_sum, consumer_sum>>

Finished == verdict # "none" /\ UNCHANGED vars
-----------------------------------------------------------------------------
ProducerStep    == ProducerPushes \/ ProducerAdds \/ ProducerStores \/ InStack(Producer)
ConsumerStep(c) == ConsumerPops(c) \/ ConsumerAdds(c) \/ ConsumerStores(c) \/ InStack(c)

Next ==
  \/ ProducerStep
  \/ \E c \in Consumers : ConsumerStep(c)
  \/ MainChecks
  \/ Finished

Spec == Init /\ [][Next]_vars
-----------------------------------------------------------------------------
\* At every moment the keys not yet pushed, inside push, on the stack, inside
\* pop, and already summed by the consumers add up to the same total: no key
\* is lost or counted twice.
SumOfKeys(keys) == SumFunctionOnSet([k \in 1 .. total_items |-> k], keys)
Unpushed  == SumOfKeys(i[Producer] + 1 .. total_items)
InFlight  == SumFunctionOnSet(key, allocated)
Returning == {c \in Consumers : fpc[c] = "calling" /\ pc[c] = "idle"}
Summed    == consumer_sum + SumFunctionOnSet(local_sum, {c \in Consumers : fpc[c] # "exited"})
SumIsConserved ==
  Unpushed + InFlight + SumFunctionOnSet(ret, Returning) + Summed = SumOfKeys(1 .. total_items)

\* Nobody is left to free a node once main returns: the class has no destructor.
NothingLeaks == verdict # "none" => allocated = {}

\* "A high-performance, thread-safe stack" (Readme.md:3): pop only dereferences
\* nodes that have not been deleted, at least in the program shipped with it.
NoReadAfterDelete == Stack!NoReadAfterDelete

\* What the program promises to reach.
Passed == verdict = "PASS"
=============================================================================
