------------------------------ MODULE QueueDemo ------------------------------
(***************************************************************************)
(* Thread_Safe_Queue/main.cpp: producers, consumers and the main thread    *)
(* around one ThreadSafeQueue.  The queue steps are the actions of         *)
(* ThreadSafeQueue; this module adds where each thread stands in its       *)
(* function and the two atomic counters of main().                         *)
(***************************************************************************)
EXTENDS Integers, Sequences, FiniteSets

CONSTANTS Producers, Consumers, Main, \* the threads
          ItemsPerProducer,           \* ITEMS_PER_PRODUCER
          QueueCapacity               \* QUEUE_CAPACITY

DemoAssumption ==
  /\ IsFiniteSet(Producers) /\ IsFiniteSet(Consumers)
  /\ Consumers # {}
  /\ Producers \cap Consumers = {}
  /\ Main \notin Producers \cup Consumers
  /\ ItemsPerProducer \in Nat
  /\ QueueCapacity \in Nat \ {0}

VARIABLES queue_, done_, not_full_, not_empty_, call, ret, accepted, delivered,
          pc,             \* where each thread stands in its function
          i,              \* i[p]: the loop variable of producer p
          total_produced, total_consumed

queueVars == <<queue_, done_, not_full_, not_empty_, call, ret, accepted, delivered>>
vars == <<queueVars, pc, i, total_produced, total_consumed>>

AllThreads  == Producers \cup Consumers \cup {Main}
Items       == Producers \X (0 .. ItemsPerProducer - 1) \* producer_id * 1000 + i
TOTAL_ITEMS == Cardinality(Producers) * ItemsPerProducer

Queue == INSTANCE ThreadSafeQueue
         WITH Threads <- AllThreads, Values <- Items,
              max_size_ <- QueueCapacity, MaxPushes <- TOTAL_ITEMS

Goto(t, label) == pc' = [pc EXCEPT ![t] = label]
Returned(t)    == pc[t] = "calling" /\ call[t] = Queue!Idle
Joined(group)  == \A t \in group : pc[t] = "exited"

Init ==
  /\ Queue!Init
  /\ pc = [t \in AllThreads |-> IF t = Main THEN "join producers" ELSE "loop"]
  /\ i = [p \in Producers |-> 0]
  /\ total_produced = 0
  /\ total_consumed = 0
-----------------------------------------------------------------------------
ProducerPushes(p) ==
  /\ pc[p] = "loop" /\ i[p] < ItemsPerProducer
  /\ Queue!CallPush(p, <<p, i[p]>>)
  /\ Goto(p, "calling")
  /\ UNCHANGED <<i, total_produced, total_consumed>>

\* push returned true: the item is counted, after the queue was unlocked.
ProducerCounts(p) ==
  /\ Returned(p) /\ ret[p].ok
  /\ total_produced' = total_produced + 1
  /\ i' = [i EXCEPT ![p] = @ + 1]
  /\ Goto(p, "loop")
  /\ UNCHANGED <<queueVars, total_consumed>>

\* push returned false (shutdown), or the loop is over.
ProducerExits(p) ==
  /\ \/ Returned(p) /\ ~ret[p].ok
     \/ pc[p] = "loop" /\ i[p] = ItemsPerProducer
  /\ Goto(p, "exited")
  /\ UNCHANGED <<queueVars, i, total_produced, total_consumed>>

\* A consumer that may give up on an empty queue without waiting for shutdown.
ConsumerPops_TryPop(c) ==
  /\ pc[c] = "loop"
  /\ Queue!TryPop(c)
  /\ Goto(c, "calling")
  /\ UNCHANGED <<i, total_produced, total_consumed>>

ConsumerPops(c) ==
  /\ pc[c] = "loop"
  /\ Queue!CallPop(c)
  /\ Goto(c, "calling")
  /\ UNCHANGED <<i, total_produced, total_consumed>>

ConsumerCounts(c) ==
  /\ Returned(c) /\ ret[c].ok
  /\ total_consumed' = total_consumed + 1
  /\ Goto(c, "loop")
  /\ UNCHANGED <<queueVars, i, total_produced>>

\* pop returned std::nullopt.
ConsumerExits(c) ==
  /\ Returned(c) /\ ~ret[c].ok
  /\ Goto(c, "exited")
  /\ UNCHANGED <<queueVars, i, total_produced, total_consumed>>

MainShutsDown_Forgotten ==
  /\ pc[Main] = "join producers" /\ Joined(Producers)
  /\ Goto(Main, "join consumers")
  /\ UNCHANGED <<queueVars, i, total_produced, total_consumed>>

\* main joins every producer, then signals shutdown.
MainShutsDown ==
  /\ pc[Main] = "join producers" /\ Joined(Producers)
  /\ Queue!Shutdown(Main)
  /\ Goto(Main, "join consumers")
  /\ UNCHANGED <<i, total_produced, total_consumed>>

\* main joins every consumer and compares the totals.
MainChecks ==
  /\ pc[Main] = "join consumers" /\ Joined(Consumers)
  /\ Goto(Main, IF /\ total_produced = TOTAL_ITEMS
                   /\ total_consumed = TOTAL_ITEMS
                   /\ queue_ = <<>>
                THEN "PASS" ELSE "FAIL")
  /\ UNCHANGED <<queueVars, i, total_produced, total_consumed>>

\* The critical sections of the blocking calls, and spurious wakeups.
InQueue(t) ==
  /\ Queue!Proceed(t)
  /\ UNCHANGED <<pc, i, total_produced, total_consumed>>

WakesSpuriously(t) ==
  /\ Queue!SpuriousWakeup(t)
  /\ UNCHANGED <<pc, i, total_produced, total_consumed>>

\* main has returned.
Finished == pc[Main] \in {"PASS", "FAIL"} /\ UNCHANGED vars
-----------------------------------------------------------------------------
ProducerStep(p) == ProducerPushes(p) \/ ProducerCounts(p) \/ ProducerExits(p) \/ InQueue(p)
ConsumerStep(c) == ConsumerPops(c) \/ ConsumerCounts(c) \/ ConsumerExits(c) \/ InQueue(c)
MainStep        == MainShutsDown \/ MainChecks

Next ==
  \/ \E p \in Producers : ProducerStep(p)
  \/ \E c \in Consumers : ConsumerStep(c)
  \/ MainStep
  \/ \E t \in AllThreads : WakesSpuriously(t)
  \/ Finished

Spec == Init /\ [][Next]_vars
-----------------------------------------------------------------------------
\* No consumer leaves while an item is still to come: a consumer gone means
\* that every item was produced and handed out ("no leaks", main.cpp:117).
NoConsumerLeavesEarly ==
  (\E c \in Consumers : pc[c] = "exited") =>
    /\ Len(delivered) = TOTAL_ITEMS
    /\ {delivered[n] : n \in 1 .. Len(delivered)} = Items

\* What the program promises to reach: "no leaks, no hangs" (main.cpp:117).
Passed == pc[Main] = "PASS"
=============================================================================
