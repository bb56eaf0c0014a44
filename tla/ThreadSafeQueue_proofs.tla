------------------------ MODULE ThreadSafeQueue_proofs ------------------------
(***************************************************************************)
(* Proofs about ThreadSafeQueue, for any number of threads, any set of     *)
(* values and any capacity.                                                *)
(***************************************************************************)
EXTENDS ThreadSafeQueue, SequenceTheorems, FiniteSetTheorems, TLAPS

-----------------------------------------------------------------------------
(* What the helpers of the module return.                                    *)

\* A thread inside push carries a value to push.
LEMMA PushCarriesValue ==
  ASSUME TypeOK, NEW t \in Threads, call[t].op = "push"
  PROVE  call[t].value \in Values
<1>1. call[t] \in Calls
  BY DEF TypeOK
<1>2. CASE call[t] = Idle
  BY <1>2 DEF Idle
<1>3. CASE call[t] = PopCall
  BY <1>3 DEF PopCall
<1>4. CASE \E v \in Values : call[t] = PushCall(v)
  BY <1>4 DEF PushCall
<1> QED BY <1>1, <1>2, <1>3, <1>4 DEF Calls

\* notify_one never puts a thread to sleep, and wakes at most one.
LEMMA NotifyOneSubset ==
  ASSUME NEW cv, NEW next \in NotifyOne(cv)
  PROVE  /\ next \subseteq cv
         /\ \/ next = cv /\ cv = {}
            \/ \E t \in cv : next = cv \ {t}
BY DEF NotifyOne

\* Appending to the deque and to the history keeps FIFO; so does moving the
\* front of the deque to the end of the other history.
LEMMA PushKeepsFIFO ==
  ASSUME NEW S, NEW acc \in Seq(S), NEW del \in Seq(S), NEW q \in Seq(S), NEW v \in S,
         acc = del \o q
  PROVE  Append(acc, v) = del \o Append(q, v)
<1>1. Append(acc, v) = acc \o <<v>> /\ Append(q, v) = q \o <<v>>
  BY AppendIsConcat
<1>2. <<v>> \in Seq(S)
  OBVIOUS
<1> QED BY <1>1, <1>2, ConcatAssociative

LEMMA PopKeepsFIFO ==
  ASSUME NEW S, NEW del \in Seq(S), NEW q \in Seq(S), q # <<>>
  PROVE  del \o q = Append(del, Head(q)) \o Tail(q)
<1>1. Head(q) \in S /\ Tail(q) \in Seq(S) /\ <<Head(q)>> \in Seq(S)
  BY HeadTailProperties
<1>2. q = <<Head(q)>> \o Tail(q)
  <2>1. Len(q) \in Nat \ {0}
    BY EmptySeq
  <2>2. SubSeq(q, 1, Len(q)) = <<q[1]>> \o SubSeq(q, 2, Len(q))
    BY <2>1, SubSeqRecursiveFirst
  <2>3. SubSeq(q, 1, Len(q)) = q /\ Tail(q) = SubSeq(q, 2, Len(q)) /\ Head(q) = q[1]
    BY SubSeqFull, TailIsSubSeq
  <2> QED BY <2>2, <2>3
<1>3. Append(del, Head(q)) = del \o <<Head(q)>>
  BY <1>1, AppendIsConcat
<1> QED BY <1>1, <1>2, <1>3, ConcatAssociative
-----------------------------------------------------------------------------
(* Type correctness.                                                         *)

\* Init and every step of every operation keep the types, the capacity bound
\* and the discipline of the two sets of sleepers.
LEMMA InitTypeOK == Init => TypeOK
<1> SUFFICES ASSUME Init PROVE TypeOK
  OBVIOUS
<1>1. <<>> \in Seq(Values) /\ Len(<<>>) <= max_size_
  BY QueueAssumption, EmptySeq
<1>2. call \in [Threads -> Calls] /\ ret \in [Threads -> Returns]
  BY DEF Init, Calls, Returns
<1> QED BY <1>1, <1>2 DEF Init, TypeOK

LEMMA NextTypeOK == TypeOK /\ [Next]_vars => TypeOK'
<1> SUFFICES ASSUME TypeOK, [Next]_vars PROVE TypeOK'
  OBVIOUS
<1> USE QueueAssumption
<1>0. /\ \A op \in {"push", "try_push"}, ok \in BOOLEAN : Pushed(op, ok) \in Returns
      /\ \A op \in {"pop", "try_pop"}, v \in Values : Popped(op, v) \in Returns
      /\ \A op \in {"pop", "try_pop"} : nullopt(op) \in Returns
  BY DEF Returns
<1>1. CASE UNCHANGED vars
  BY <1>1 DEF vars, TypeOK, Calls, Returns
<1>2. ASSUME NEW t \in Threads, NEW v \in Values, NEW op \in {"push", "try_push"},
             PushBack(t, v, op), has_space,
             call' \in [Threads -> Calls], \A u \in Threads \ {t} : call'[u] = call[u],
             t \notin Asleep
      PROVE  TypeOK'
  <2>1. queue_' \in Seq(Values) /\ Len(queue_') <= max_size_ /\ accepted' \in Seq(Values)
    BY <1>2, AppendProperties DEF TypeOK, PushBack, has_space
  <2>2. ret' \in [Threads -> Returns]
    BY <1>0, <1>2 DEF TypeOK, PushBack
  <2>3. not_full_'  \subseteq {u \in Threads : call'[u].op = "push"}
    BY <1>2 DEF TypeOK, PushBack, Asleep
  <2>4. not_empty_' \subseteq {u \in Threads : call'[u].op = "pop"}
    <3>1. not_empty_' \subseteq not_empty_
      BY <1>2, NotifyOneSubset DEF PushBack
    <3> QED BY <1>2, <3>1 DEF TypeOK, Asleep
  <2> QED BY <1>2, <2>1, <2>2, <2>3, <2>4 DEF TypeOK, PushBack, Calls
<1>3. ASSUME NEW t \in Threads, NEW op \in {"pop", "try_pop"},
             PopFront(t, op), has_item,
             call' \in [Threads -> Calls], \A u \in Threads \ {t} : call'[u] = call[u],
             t \notin Asleep
      PROVE  TypeOK'
  <2>1. Head(queue_) \in Values /\ queue_' \in Seq(Values) /\ Len(queue_') <= max_size_
    BY <1>3, HeadTailProperties, LenProperties DEF TypeOK, PopFront, has_item
  <2>2. delivered' \in Seq(Values) /\ ret' \in [Threads -> Returns]
    BY <1>0, <1>3, <2>1, AppendProperties DEF TypeOK, PopFront
  <2>3. not_full_'  \subseteq {u \in Threads : call'[u].op = "push"}
    <3>1. not_full_' \subseteq not_full_
      BY <1>3, NotifyOneSubset DEF PopFront
    <3> QED BY <1>3, <3>1 DEF TypeOK, Asleep
  <2>4. not_empty_' \subseteq {u \in Threads : call'[u].op = "pop"}
    BY <1>3 DEF TypeOK, PopFront, Asleep
  <2> QED BY <1>3, <2>1, <2>2, <2>3, <2>4 DEF TypeOK, PopFront, Calls
<1>4. ASSUME NEW t \in Threads, NEW r \in Returns,
             ReturnWith(t, r),
             call' \in [Threads -> Calls], \A u \in Threads \ {t} : call'[u] = call[u],
             t \notin Asleep
      PROVE  TypeOK'
  BY <1>4 DEF TypeOK, ReturnWith, Asleep, Calls
<1>5. ASSUME NEW t \in Threads, call[t] = Idle PROVE t \notin Asleep
  BY <1>5 DEF TypeOK, Asleep, Idle
<1>6. ASSUME NEW t \in Threads, NEW v \in Values, CallPush(t, v) PROVE TypeOK'
  <2>1. t \notin Asleep
    BY <1>5, <1>6 DEF CallPush
  <2> QED BY <1>6, <2>1 DEF TypeOK, CallPush, Asleep, Calls, Returns
<1>7. ASSUME NEW t \in Threads, CallPop(t) PROVE TypeOK'
  <2>1. t \notin Asleep
    BY <1>5, <1>7 DEF CallPop
  <2> QED BY <1>7, <2>1 DEF TypeOK, CallPop, Asleep, Calls, Returns
<1>8. ASSUME NEW t \in Threads, Proceed(t) PROVE TypeOK'
  <2> DEFINE Back == call' = [call EXCEPT ![t] = Idle]
  <2>1. Back => call' \in [Threads -> Calls] /\ \A u \in Threads \ {t} : call'[u] = call[u]
    BY DEF TypeOK, Calls
  <2>2. CASE PushSleep(t)
    BY <2>2 DEF TypeOK, PushSleep, InPush, Calls, Returns
  <2>3. CASE PushRefused(t)
    BY <2>1, <2>3, <1>0, <1>4 DEF PushRefused, InPush
  <2>4. CASE PushAccepted(t)
    BY <2>1, <2>4, <1>2, PushCarriesValue DEF PushAccepted, InPush
  <2>5. CASE PopSleep(t)
    BY <2>5 DEF TypeOK, PopSleep, InPop, Calls, Returns
  <2>6. CASE PopEmpty(t)
    BY <2>1, <2>6, <1>0, <1>4 DEF PopEmpty, InPop
  <2>7. CASE PopItem(t)
    BY <2>1, <2>7, <1>3 DEF PopItem, InPop
  <2> QED BY <1>8, <2>2, <2>3, <2>4, <2>5, <2>6, <2>7 DEF Proceed
<1>9. ASSUME NEW t \in Threads, NEW v \in Values, TryPush(t, v) PROVE TypeOK'
  <2>1. t \notin Asleep /\ call' \in [Threads -> Calls] /\ \A u \in Threads \ {t} : call'[u] = call[u]
    BY <1>5, <1>9 DEF TryPush, TypeOK, Calls
  <2>2. CASE done_ \/ ~has_space
    BY <2>1, <2>2, <1>0, <1>4, <1>9 DEF TryPush
  <2>3. CASE ~(done_ \/ ~has_space)
    BY <2>1, <2>3, <1>2, <1>9 DEF TryPush
  <2> QED BY <2>2, <2>3
<1>10. ASSUME NEW t \in Threads, TryPop(t) PROVE TypeOK'
  <2>1. t \notin Asleep /\ call' \in [Threads -> Calls] /\ \A u \in Threads \ {t} : call'[u] = call[u]
    BY <1>5, <1>10 DEF TryPop, TypeOK, Calls
  <2>2. CASE has_item
    BY <2>1, <2>2, <1>3, <1>10 DEF TryPop
  <2>3. CASE ~has_item
    BY <2>1, <2>3, <1>0, <1>4, <1>10 DEF TryPop
  <2> QED BY <2>2, <2>3
<1>11. ASSUME NEW t \in Threads, Shutdown(t) PROVE TypeOK'
  BY <1>11 DEF TypeOK, Shutdown, Calls, Returns
<1>12. ASSUME NEW t \in Threads, SpuriousWakeup(t) PROVE TypeOK'
  BY <1>12 DEF TypeOK, SpuriousWakeup, Calls, Returns
<1> QED
  BY <1>1, <1>6, <1>7, <1>8, <1>9, <1>10, <1>11, <1>12 DEF Next

\* The queue never holds more than max_size_ items, and a sleeping thread is
\* always inside the call whose condition variable it sleeps on.
THEOREM TypeCorrect == Spec => []TypeOK
BY InitTypeOK, NextTypeOK, PTL DEF Spec
-----------------------------------------------------------------------------
(* The order of the values.                                                  *)

\* Only three things happen to the data: a value enters an open queue that
\* has space, the front leaves, or nothing.
LEMMA DataSteps ==
  ASSUME TypeOK, Next
  PROVE  \/ \E t \in Threads, v \in Values, op \in {"push", "try_push"} :
              PushBack(t, v, op) /\ has_space /\ ~done_
         \/ \E t \in Threads, op \in {"pop", "try_pop"} : PopFront(t, op) /\ has_item
         \/ UNCHANGED <<queue_, accepted, delivered>>
<1>1. ASSUME NEW t \in Threads, NEW v \in Values, CallPush(t, v) \/ CallPop(t)
      PROVE  UNCHANGED <<queue_, accepted, delivered>>
  BY <1>1 DEF CallPush, CallPop
<1>2. ASSUME NEW t \in Threads, PushAccepted(t)
      PROVE  \E v \in Values : PushBack(t, v, "push") /\ has_space /\ ~done_
  BY <1>2, PushCarriesValue DEF PushAccepted, InPush
<1>3. ASSUME NEW t \in Threads, PopItem(t)
      PROVE  PopFront(t, "pop") /\ has_item
  BY <1>3 DEF PopItem
<1>4. ASSUME NEW t \in Threads,
             PushSleep(t) \/ PushRefused(t) \/ PopSleep(t) \/ PopEmpty(t)
      PROVE  UNCHANGED <<queue_, accepted, delivered>>
  BY <1>4 DEF PushSleep, PushRefused, PopSleep, PopEmpty, ReturnWith
<1>5. ASSUME NEW t \in Threads, NEW v \in Values, TryPush(t, v)
      PROVE  \/ PushBack(t, v, "try_push") /\ has_space /\ ~done_
             \/ UNCHANGED <<queue_, accepted, delivered>>
  BY <1>5 DEF TryPush, ReturnWith
<1>6. ASSUME NEW t \in Threads, TryPop(t)
      PROVE  \/ PopFront(t, "try_pop") /\ has_item
             \/ UNCHANGED <<queue_, accepted, delivered>>
  BY <1>6 DEF TryPop, ReturnWith
<1>7. ASSUME NEW t \in Threads, Shutdown(t) \/ SpuriousWakeup(t)
      PROVE  UNCHANGED <<queue_, accepted, delivered>>
  BY <1>7 DEF Shutdown, SpuriousWakeup
<1>8. ASSUME NEW t \in Threads, CallPop(t)
      PROVE  UNCHANGED <<queue_, accepted, delivered>>
  BY <1>8 DEF CallPop
<1> QED BY <1>1, <1>2, <1>3, <1>4, <1>5, <1>6, <1>7, <1>8 DEF Next, Proceed

LEMMA NextFIFO == TypeOK /\ FIFO /\ [Next]_vars => FIFO'
<1> SUFFICES ASSUME TypeOK, FIFO, [Next]_vars PROVE FIFO'
  OBVIOUS
<1>1. CASE UNCHANGED <<queue_, accepted, delivered>>
  BY <1>1 DEF FIFO
<1>2. ASSUME NEW t \in Threads, NEW v \in Values, NEW op \in {"push", "try_push"},
             PushBack(t, v, op)
      PROVE  FIFO'
  BY <1>2, PushKeepsFIFO DEF TypeOK, FIFO, PushBack
<1>3. ASSUME NEW t \in Threads, NEW op \in {"pop", "try_pop"},
             PopFront(t, op), has_item
      PROVE  FIFO'
  BY <1>3, PopKeepsFIFO DEF TypeOK, FIFO, PopFront, has_item
<1> QED BY <1>1, <1>2, <1>3, DataSteps DEF vars

\* Nothing is lost, duplicated or reordered between the threads that push and
\* the threads that pop.
THEOREM NothingLostOrReordered == Spec => []FIFO
<1>1. Init => FIFO
  BY EmptySeq, ConcatEmptySeq DEF Init, FIFO
<1> QED BY <1>1, TypeCorrect, NextFIFO, PTL DEF Spec
-----------------------------------------------------------------------------
(* Shutdown.                                                                 *)

\* shutdown wakes everybody while it holds the mutex, and a thread only goes
\* to sleep holding the mutex and having found done_ false.
THEOREM NobodySleepsOnceShutDown == Spec => []NobodySleepsAfterShutdown
<1>1. Init => NobodySleepsAfterShutdown
  BY DEF Init, NobodySleepsAfterShutdown
<1>2. TypeOK /\ NobodySleepsAfterShutdown /\ [Next]_vars => NobodySleepsAfterShutdown'
  <2> SUFFICES ASSUME TypeOK, NobodySleepsAfterShutdown, [Next]_vars
               PROVE  NobodySleepsAfterShutdown'
    OBVIOUS
  <2> USE DEF NobodySleepsAfterShutdown, Asleep
  <2>1. CASE UNCHANGED <<done_, not_full_, not_empty_>>
    BY <2>1
  <2>2. ASSUME NEW t \in Threads, NEW v \in Values, NEW op, PushBack(t, v, op)
        PROVE  NobodySleepsAfterShutdown'
    BY <2>2, NotifyOneSubset DEF PushBack
  <2>3. ASSUME NEW t \in Threads, NEW op, PopFront(t, op)
        PROVE  NobodySleepsAfterShutdown'
    BY <2>3, NotifyOneSubset DEF PopFront
  <2>4. ASSUME NEW t \in Threads, NEW v, CallPush(t, v) \/ CallPop(t)
        PROVE  NobodySleepsAfterShutdown'
    BY <2>1, <2>4 DEF CallPush, CallPop
  <2>5. ASSUME NEW t \in Threads, Proceed(t) PROVE NobodySleepsAfterShutdown'
    <3>1. CASE PushSleep(t) \/ PopSleep(t)
      BY <3>1 DEF PushSleep, PopSleep
    <3>2. CASE PushRefused(t) \/ PopEmpty(t)
      BY <2>1, <3>2 DEF PushRefused, PopEmpty, ReturnWith
    <3>3. CASE PushAccepted(t)
      BY <2>2, <3>3, PushCarriesValue DEF PushAccepted, InPush
    <3>4. CASE PopItem(t)
      BY <2>3, <3>4 DEF PopItem
    <3> QED BY <2>5, <3>1, <3>2, <3>3, <3>4 DEF Proceed
  <2>6. ASSUME NEW t \in Threads, NEW v \in Values, TryPush(t, v)
        PROVE  NobodySleepsAfterShutdown'
    BY <2>1, <2>2, <2>6 DEF TryPush, ReturnWith
  <2>7. ASSUME NEW t \in Threads, TryPop(t) PROVE NobodySleepsAfterShutdown'
    BY <2>1, <2>3, <2>7 DEF TryPop, ReturnWith
  <2>8. ASSUME NEW t \in Threads, Shutdown(t) \/ SpuriousWakeup(t)
        PROVE  NobodySleepsAfterShutdown'
    BY <2>8 DEF Shutdown, SpuriousWakeup
  <2>9. ASSUME NEW t \in Threads, CallPop(t) PROVE NobodySleepsAfterShutdown'
    BY <2>1, <2>9 DEF CallPop
  <2> QED BY <2>1, <2>4, <2>5, <2>6, <2>7, <2>8, <2>9 DEF Next, vars
<1> QED BY <1>1, <1>2, TypeCorrect, PTL DEF Spec

\* Once done_ is set it stays set, and no value enters the queue: a push that
\* was already waiting is refused.
THEOREM ShutdownStaysFinal == Spec => ShutdownIsFinal
<1>1. TypeOK /\ [Next]_vars => [done_ => done_' /\ accepted' = accepted]_vars
  <2> SUFFICES ASSUME TypeOK, Next, done_ PROVE done_' /\ accepted' = accepted
    BY DEF vars
  <2>1. accepted' = accepted
    BY DataSteps DEF PushBack, PopFront
  <2>2. done_'
    BY DEF Next, Proceed, CallPush, CallPop, PushSleep, PushRefused, PushAccepted, PopSleep,
           PopEmpty, PopItem, TryPush, TryPop, Shutdown, SpuriousWakeup,
           PushBack, PopFront, ReturnWith
  <2> QED BY <2>1, <2>2
<1> QED BY <1>1, TypeCorrect, PTL DEF Spec, ShutdownIsFinal
-----------------------------------------------------------------------------
(* No missed wakeup.                                                         *)

Poppers == {t \in Threads : InPop(t)}
Pushers == {t \in Threads : InPush(t)}

\* Counting threads: growing, shrinking and extending a set of threads.
LEMMA CountThreads ==
  ASSUME NEW A \in SUBSET Threads
  PROVE  /\ Cardinality(A) \in Nat
         /\ \A B \in SUBSET Threads : A \subseteq B => Cardinality(A) <= Cardinality(B)
         /\ \A t \in Threads : Cardinality(A) - 1 <= Cardinality(A \ {t})
         /\ \A t \in Threads : t \notin A => Cardinality(A \cup {t}) = Cardinality(A) + 1
<1>1. IsFiniteSet(A) /\ \A B \in SUBSET Threads : IsFiniteSet(B)
  BY QueueAssumption, FS_Subset
<1>2. Cardinality(A) \in Nat
  BY <1>1, FS_CardinalityType
<1>3. \A B \in SUBSET Threads : A \subseteq B => Cardinality(A) <= Cardinality(B)
  BY <1>1, FS_Subset
<1>4. \A t \in Threads : Cardinality(A) - 1 <= Cardinality(A \ {t})
  <2> TAKE t \in Threads
  <2>1. Cardinality(A \ {t}) = IF t \in A THEN Cardinality(A) - 1 ELSE Cardinality(A)
    BY <1>1, FS_RemoveElement
  <2> QED BY <1>2, <2>1
<1>5. \A t \in Threads : t \notin A => Cardinality(A \cup {t}) = Cardinality(A) + 1
  BY <1>1, FS_AddElement
<1> QED BY <1>2, <1>3, <1>4, <1>5

\* A push takes a slot and, with it, at most one thread out of Pushers; its
\* notify_one brings a sleeper, if there is one, into Poppers.
LEMMA PushBackNoMissedWakeup ==
  ASSUME TypeOK, NoMissedWakeup,
         NEW t \in Threads, NEW v \in Values, NEW op, PushBack(t, v, op),
         t \notin Asleep, call[t].op # "pop", call'[t] = Idle,
         \A u \in Threads \ {t} : call'[u] = call[u]
  PROVE  NoMissedWakeup'
<1>1. Len(queue_) \in Nat /\ Len(queue_') = Len(queue_) + 1
  BY AppendProperties, LenProperties DEF TypeOK, PushBack
<1>2. Pushers \in SUBSET Threads /\ Poppers \in SUBSET Threads
  BY DEF Pushers, Poppers
<1>3. ASSUME not_empty_' # {} PROVE Len(queue_') <= Cardinality(Poppers')
  <2>1. PICK u \in not_empty_ : not_empty_' = not_empty_ \ {u}
    BY <1>3, NotifyOneSubset DEF PushBack
  <2>2. u \in Threads /\ u # t /\ call[u].op = "pop" /\ u \notin not_full_
    BY <2>1 DEF TypeOK, Asleep
  <2>3. Poppers' = Poppers \cup {u} /\ u \notin Poppers
    BY <2>1, <2>2 DEF Poppers, InPop, Asleep, PushBack, Idle
  <2>4. Len(queue_) <= Cardinality(Poppers)
    BY <2>1 DEF NoMissedWakeup, Poppers
  <2> QED BY <1>1, <1>2, <2>2, <2>3, <2>4, CountThreads
<1>4. ASSUME not_full_' # {} PROVE max_size_ - Len(queue_') <= Cardinality(Pushers')
  <2>1. max_size_ - Len(queue_) <= Cardinality(Pushers)
    BY <1>4 DEF NoMissedWakeup, Pushers, PushBack
  <2>2. Pushers \ {t} \subseteq Pushers' /\ Pushers' \in SUBSET Threads
    BY NotifyOneSubset DEF Pushers, InPush, Asleep, PushBack
  <2>3. Cardinality(Pushers) - 1 <= Cardinality(Pushers \ {t})
    BY <1>2, CountThreads
  <2>4. Cardinality(Pushers \ {t}) <= Cardinality(Pushers')
    BY <1>2, <2>2, CountThreads
  <2>5. /\ Cardinality(Pushers) \in Nat /\ Cardinality(Pushers \ {t}) \in Nat
        /\ Cardinality(Pushers') \in Nat
    BY <1>2, <2>2, CountThreads
  <2> QED BY <1>1, <2>1, <2>3, <2>4, <2>5, QueueAssumption
<1> QED BY <1>3, <1>4 DEF NoMissedWakeup, Poppers, Pushers

\* The same for a pop, the other way round.
LEMMA PopFrontNoMissedWakeup ==
  ASSUME TypeOK, NoMissedWakeup,
         NEW t \in Threads, NEW op, PopFront(t, op), has_item,
         t \notin Asleep, call[t].op # "push", call'[t] = Idle,
         \A u \in Threads \ {t} : call'[u] = call[u]
  PROVE  NoMissedWakeup'
<1>1. Len(queue_) \in Nat /\ Len(queue_') = Len(queue_) - 1
  BY HeadTailProperties, LenProperties DEF TypeOK, PopFront, has_item
<1>2. Pushers \in SUBSET Threads /\ Poppers \in SUBSET Threads
  BY DEF Pushers, Poppers
<1>3. ASSUME not_full_' # {} PROVE max_size_ - Len(queue_') <= Cardinality(Pushers')
  <2>1. PICK u \in not_full_ : not_full_' = not_full_ \ {u}
    BY <1>3, NotifyOneSubset DEF PopFront
  <2>2. u \in Threads /\ u # t /\ call[u].op = "push" /\ u \notin not_empty_
    BY <2>1 DEF TypeOK, Asleep
  <2>3. Pushers' = Pushers \cup {u} /\ u \notin Pushers
    BY <2>1, <2>2 DEF Pushers, InPush, Asleep, PopFront, Idle
  <2>4. max_size_ - Len(queue_) <= Cardinality(Pushers)
    BY <2>1 DEF NoMissedWakeup, Pushers
  <2> QED BY <1>1, <1>2, <2>2, <2>3, <2>4, CountThreads, QueueAssumption
<1>4. ASSUME not_empty_' # {} PROVE Len(queue_') <= Cardinality(Poppers')
  <2>1. Len(queue_) <= Cardinality(Poppers)
    BY <1>4 DEF NoMissedWakeup, Poppers, PopFront
  <2>2. Poppers \ {t} \subseteq Poppers' /\ Poppers' \in SUBSET Threads
    BY NotifyOneSubset DEF Poppers, InPop, Asleep, PopFront
  <2>3. Cardinality(Poppers) - 1 <= Cardinality(Poppers \ {t})
    BY <1>2, CountThreads
  <2>4. Cardinality(Poppers \ {t}) <= Cardinality(Poppers')
    BY <1>2, <2>2, CountThreads
  <2>5. /\ Cardinality(Poppers) \in Nat /\ Cardinality(Poppers \ {t}) \in Nat
        /\ Cardinality(Poppers') \in Nat
    BY <1>2, <2>2, CountThreads
  <2> QED BY <1>1, <2>1, <2>3, <2>4, <2>5
<1> QED BY <1>3, <1>4 DEF NoMissedWakeup, Poppers, Pushers

\* Every other step: nobody new sleeps without a reason, no awake thread
\* leaves its call, and the queue does not change.
LEMMA QuietNoMissedWakeup ==
  ASSUME TypeOK, NoMissedWakeup, UNCHANGED queue_,
         not_empty_' # {} => not_empty_ # {} /\ Poppers \subseteq Poppers',
         not_full_'  # {} => not_full_  # {} /\ Pushers \subseteq Pushers'
  PROVE  NoMissedWakeup'
<1>1. /\ Poppers \in SUBSET Threads /\ Poppers' \in SUBSET Threads
      /\ Pushers \in SUBSET Threads /\ Pushers' \in SUBSET Threads
  BY DEF Poppers, Pushers
<1>2. /\ Cardinality(Poppers) \in Nat /\ Cardinality(Poppers') \in Nat
      /\ Cardinality(Pushers) \in Nat /\ Cardinality(Pushers') \in Nat
      /\ Len(queue_) \in Nat
  BY <1>1, CountThreads, LenProperties DEF TypeOK
<1>3. not_empty_' # {} => Len(queue_') <= Cardinality(Poppers')
  BY <1>1, <1>2, CountThreads DEF NoMissedWakeup, Poppers
<1>4. not_full_' # {} => max_size_ - Len(queue_') <= Cardinality(Pushers')
  BY <1>1, <1>2, CountThreads, QueueAssumption DEF NoMissedWakeup, Pushers
<1> QED BY <1>3, <1>4 DEF NoMissedWakeup, Poppers, Pushers

LEMMA NextNoMissedWakeup ==
  TypeOK /\ NobodySleepsAfterShutdown /\ NoMissedWakeup /\ [Next]_vars => NoMissedWakeup'
<1> SUFFICES ASSUME TypeOK, NobodySleepsAfterShutdown, NoMissedWakeup, [Next]_vars
             PROVE  NoMissedWakeup'
  OBVIOUS
<1>1. CASE UNCHANGED vars
  BY <1>1, QuietNoMissedWakeup DEF vars, Poppers, Pushers, InPop, InPush, Asleep
<1>2. ASSUME NEW t \in Threads, call[t] = Idle
      PROVE  t \notin Asleep /\ call[t].op = "none"
  BY <1>2 DEF TypeOK, Asleep, Idle
<1>3. ASSUME NEW t \in Threads, NEW v, CallPush(t, v) \/ CallPop(t)
      PROVE  NoMissedWakeup'
  <2>1. call[t].op = "none" /\ UNCHANGED <<queue_, not_full_, not_empty_>>
        /\ \A u \in Threads \ {t} : call'[u] = call[u]
    BY <1>2, <1>3 DEF CallPush, CallPop, TypeOK
  <2>2. Poppers \subseteq Poppers' /\ Pushers \subseteq Pushers'
    BY <2>1 DEF Poppers, Pushers, InPop, InPush, Asleep
  <2> QED BY <2>1, <2>2, QuietNoMissedWakeup
<1>4. ASSUME NEW t \in Threads, Proceed(t) PROVE NoMissedWakeup'
  <2>1. ASSUME call' = [call EXCEPT ![t] = Idle]
        PROVE  call'[t] = Idle /\ \A u \in Threads \ {t} : call'[u] = call[u]
    BY <2>1 DEF TypeOK
  <2>2. CASE PushSleep(t)
    <3>1. max_size_ - Len(queue_) <= 0 /\ Poppers \subseteq Poppers'
      BY <2>2, LenProperties, QueueAssumption
         DEF PushSleep, has_space, TypeOK, Poppers, InPush, InPop, Asleep
    <3>2. Cardinality(Pushers') \in Nat
      BY CountThreads DEF Pushers
    <3>3. max_size_ - Len(queue_') <= Cardinality(Pushers')
      BY <2>2, <3>1, <3>2, LenProperties, QueueAssumption DEF PushSleep, TypeOK
    <3>4. not_empty_' # {} => Len(queue_') <= Cardinality(Poppers')
      <4>1. Poppers \in SUBSET Threads /\ Poppers' \in SUBSET Threads /\ Len(queue_) \in Nat
        BY LenProperties DEF Poppers, TypeOK
      <4>2. /\ Cardinality(Poppers) <= Cardinality(Poppers')
            /\ Cardinality(Poppers) \in Nat /\ Cardinality(Poppers') \in Nat
        BY <3>1, <4>1, CountThreads
      <4> QED BY <2>2, <4>1, <4>2 DEF PushSleep, NoMissedWakeup, Poppers
    <3> QED BY <3>3, <3>4 DEF NoMissedWakeup, Poppers, Pushers
  <2>3. CASE PopSleep(t)
    <3>1. Len(queue_) = 0 /\ Pushers \subseteq Pushers'
      BY <2>3, EmptySeq DEF PopSleep, has_item, TypeOK, Pushers, InPush, InPop, Asleep
    <3>2. Cardinality(Poppers') \in Nat
      BY CountThreads DEF Poppers
    <3>3. Len(queue_') <= Cardinality(Poppers')
      BY <2>3, <3>1, <3>2 DEF PopSleep
    <3>4. not_full_' # {} => max_size_ - Len(queue_') <= Cardinality(Pushers')
      <4>1. Pushers \in SUBSET Threads /\ Pushers' \in SUBSET Threads
        BY DEF Pushers
      <4>2. /\ Cardinality(Pushers) <= Cardinality(Pushers')
            /\ Cardinality(Pushers) \in Nat /\ Cardinality(Pushers') \in Nat
        BY <3>1, <4>1, CountThreads
      <4> QED BY <2>3, <3>1, <4>2, QueueAssumption DEF PopSleep, NoMissedWakeup, Pushers
    <3> QED BY <3>3, <3>4 DEF NoMissedWakeup, Poppers, Pushers
  <2>4. CASE PushRefused(t) \/ PopEmpty(t)
    <3>1. not_full_' = {} /\ not_empty_' = {}
      BY <2>4 DEF PushRefused, PopEmpty, ReturnWith, NobodySleepsAfterShutdown, Asleep
    <3> QED BY <3>1 DEF NoMissedWakeup
  <2>5. CASE PushAccepted(t)
    BY <2>1, <2>5, PushCarriesValue, PushBackNoMissedWakeup DEF PushAccepted, InPush
  <2>6. CASE PopItem(t)
    BY <2>1, <2>6, PopFrontNoMissedWakeup DEF PopItem, InPop
  <2> QED BY <1>4, <2>2, <2>3, <2>4, <2>5, <2>6 DEF Proceed
<1>5. ASSUME NEW t \in Threads, NEW r, call[t] = Idle, UNCHANGED call, ReturnWith(t, r)
      PROVE  NoMissedWakeup'
  BY <1>5, QuietNoMissedWakeup DEF ReturnWith, Poppers, Pushers, InPop, InPush, Asleep
<1>6. ASSUME NEW t \in Threads, NEW v \in Values, TryPush(t, v) PROVE NoMissedWakeup'
  BY <1>2, <1>5, <1>6, PushBackNoMissedWakeup DEF TryPush
<1>7. ASSUME NEW t \in Threads, TryPop(t) PROVE NoMissedWakeup'
  BY <1>2, <1>5, <1>7, PopFrontNoMissedWakeup DEF TryPop
<1>8. ASSUME NEW t \in Threads, Shutdown(t) PROVE NoMissedWakeup'
  BY <1>8 DEF Shutdown, NoMissedWakeup
<1>9. ASSUME NEW t \in Threads, SpuriousWakeup(t) PROVE NoMissedWakeup'
  BY <1>9, QuietNoMissedWakeup DEF SpuriousWakeup, Poppers, Pushers, InPop, InPush, Asleep
<1>10. ASSUME NEW t \in Threads, CallPop(t) PROVE NoMissedWakeup'
  BY <1>3, <1>10
<1> QED
  BY <1>1, <1>3, <1>4, <1>6, <1>7, <1>8, <1>9, <1>10 DEF Next

\* As long as a thread sleeps waiting for an item (a free slot), at least as
\* many threads are awake to take items (slots) as there are items (slots).
THEOREM WakeupsAreNotMissed == Spec => []NoMissedWakeup
<1>1. Init => NoMissedWakeup
  BY DEF Init, NoMissedWakeup
<1> QED BY <1>1, TypeCorrect, NobodySleepsOnceShutDown, NextNoMissedWakeup, PTL DEF Spec
-----------------------------------------------------------------------------
(* The queue implements the abstract channel.                                *)

\* What the abstract channel sees of a state of the queue.
LEMMA ChannelView ==
  ASSUME TypeOK, FIFO
  PROVE  /\ Channel!Pending = Len(queue_)
         /\ has_item => /\ Channel!Pending > 0
                        /\ accepted[Len(delivered) + 1] = Head(queue_)
         /\ ~has_item => Channel!Pending = 0
<1>1. /\ Len(queue_) \in Nat /\ Len(delivered) \in Nat
      /\ Len(accepted) = Len(delivered) + Len(queue_)
      /\ \A n \in 1 .. Len(delivered) + Len(queue_) :
            accepted[n] = IF n <= Len(delivered) THEN delivered[n] ELSE queue_[n - Len(delivered)]
  BY ConcatProperties, LenProperties DEF TypeOK, FIFO
<1>2. Channel!Pending = Len(queue_)
  BY <1>1 DEF Channel!Pending
<1>3. ASSUME has_item PROVE Len(queue_) > 0 /\ accepted[Len(delivered) + 1] = Head(queue_)
  <2>1. Len(queue_) \in Nat \ {0} /\ Head(queue_) = queue_[1]
    BY <1>3, EmptySeq DEF has_item, TypeOK
  <2> QED BY <1>1, <2>1
<1>4. ~has_item => Len(queue_) = 0
  BY EmptySeq DEF has_item
<1> QED BY <1>2, <1>3, <1>4

LEMMA NextImplementsChannel ==
  TypeOK /\ FIFO /\ [Next]_vars => [Channel!Next]_(Channel!vars)
<1> SUFFICES ASSUME TypeOK, FIFO, Next PROVE Channel!Next \/ UNCHANGED Channel!vars
  BY DEF vars, Channel!vars
<1> USE DEF Channel!Next
<1>1. ASSUME NEW t \in Threads, NEW v \in Values, NEW op \in {"push", "try_push"},
             PushBack(t, v, op), has_space, ~done_
      PROVE  Channel!Accept(t, v, op)
  BY <1>1, ChannelView DEF Channel!Accept, Channel!PutAnswer, PushBack, has_space, Pushed
<1>2. ASSUME NEW t \in Threads, NEW op \in {"pop", "try_pop"}, PopFront(t, op), has_item
      PROVE  Channel!Deliver(t, op)
  BY <1>2, ChannelView DEF Channel!Deliver, Channel!Something, PopFront, Popped
<1>3. ASSUME NEW t \in Threads, NEW op \in {"push", "try_push"},
             ReturnWith(t, Pushed(op, FALSE)),
             done_ \/ (op = "try_push" /\ ~has_space)
      PROVE  Channel!Refuse(t, op)
  <2>1. ~has_space => Channel!Pending >= max_size_
    BY ChannelView, LenProperties, QueueAssumption DEF has_space, TypeOK
  <2> QED BY <1>3, <2>1 DEF Channel!Refuse, Channel!PutAnswer, ReturnWith, Pushed
<1>4. ASSUME NEW t \in Threads, NEW op \in {"pop", "try_pop"},
             ReturnWith(t, nullopt(op)), ~has_item, done_ \/ op = "try_pop"
      PROVE  Channel!ReportEmpty(t, op)
  BY <1>4, ChannelView DEF Channel!ReportEmpty, Channel!Nothing, ReturnWith, nullopt
<1>5. ASSUME NEW t \in Threads, Proceed(t) PROVE Channel!Next \/ UNCHANGED Channel!vars
  <2>1. CASE PushSleep(t) \/ PopSleep(t)
    BY <2>1 DEF PushSleep, PopSleep, Channel!vars
  <2>2. CASE PushRefused(t)
    BY <1>3, <2>2 DEF PushRefused
  <2>3. CASE PushAccepted(t)
    BY <1>1, <2>3, PushCarriesValue DEF PushAccepted, InPush
  <2>4. CASE PopEmpty(t)
    BY <1>4, <2>4 DEF PopEmpty
  <2>5. CASE PopItem(t)
    BY <1>2, <2>5 DEF PopItem
  <2> QED BY <1>5, <2>1, <2>2, <2>3, <2>4, <2>5 DEF Proceed
<1>6. ASSUME NEW t \in Threads, NEW v \in Values, TryPush(t, v) PROVE Channel!Next
  BY <1>1, <1>3, <1>6 DEF TryPush
<1>7. ASSUME NEW t \in Threads, TryPop(t) PROVE Channel!Next
  BY <1>2, <1>4, <1>7 DEF TryPop
<1>8. ASSUME NEW t \in Threads, Shutdown(t) PROVE Channel!Next
  BY <1>8 DEF Shutdown, Channel!Close
<1>9. ASSUME NEW t \in Threads, NEW v, CallPush(t, v) PROVE UNCHANGED Channel!vars
  BY <1>9 DEF CallPush, Channel!vars
<1>10. ASSUME NEW t \in Threads, CallPop(t) \/ SpuriousWakeup(t) PROVE UNCHANGED Channel!vars
  BY <1>10 DEF CallPop, SpuriousWakeup, Channel!vars
<1> QED BY <1>5, <1>6, <1>7, <1>8, <1>9, <1>10 DEF Next

\* Every behaviour of the queue, seen through its histories, done_ and what
\* its calls return, is a behaviour of the abstract channel.
THEOREM QueueImplementsChannel == Spec => ImplementsChannel
<1>1. Init => Channel!Init
  BY DEF Init, Channel!Init, Idle, Channel!NoAnswer
<1> QED
  BY <1>1, TypeCorrect, NothingLostOrReordered, NextImplementsChannel, PTL
     DEF Spec, ImplementsChannel, Channel!Spec
=============================================================================
