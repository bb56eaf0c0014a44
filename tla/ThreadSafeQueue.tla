--------------------------- MODULE ThreadSafeQueue ---------------------------
(***************************************************************************)
(* Thread_Safe_Queue/thread_safe_queue.{h,cpp}: a bounded multi-producer   *)
(* multi-consumer queue built from one mutex and two condition variables.  *)
(*                                                                         *)
(* Every member function holds mutex_ from its first statement to its      *)
(* return, except while it sleeps in wait().  A step of this module is     *)
(* therefore one critical section: from taking mutex_ (at the call, or on  *)
(* waking up) to giving it back (at the return, or by going to sleep).     *)
(* A condition variable is the set of the threads asleep on it.            *)
(*                                                                         *)
(* accepted and delivered are history variables: the program does not have *)
(* them, no guard but the model bound reads them.                          *)
(***************************************************************************)
EXTENDS Integers, Sequences, FiniteSets

CONSTANTS Threads,    \* the threads that share the queue
          Values,     \* the values of type T they push
          max_size_,  \* capacity given to the constructor
          MaxPushes   \* model bound: no push begins after this many were accepted

\* The constructor throws unless max_size > 0; a program has finitely many threads.
ASSUME QueueAssumption ==
  /\ IsFiniteSet(Threads)
  /\ max_size_ \in Nat \ {0}
  /\ MaxPushes \in Nat

VARIABLES queue_,     \* the std::deque
          done_,      \* set by shutdown()
          not_full_,  \* threads asleep in push
          not_empty_, \* threads asleep in pop
          call,       \* call[t]: the blocking call t is inside of
          ret,        \* ret[t]: what t's last finished call returned
          accepted,   \* history of the values that entered the queue
          delivered   \* history of the values that left it

vars == <<queue_, done_, not_full_, not_empty_, call, ret, accepted, delivered>>

Idle        == [op |-> "none"]
PushCall(v) == [op |-> "push", value |-> v]
PopCall     == [op |-> "pop"]
Calls       == {Idle, PopCall} \cup {PushCall(v) : v \in Values}

\* Return values: the bool of push, the std::optional of pop.
Pushed(op, ok) == [op |-> op, ok |-> ok]
Popped(op, v)  == [op |-> op, ok |-> TRUE, value |-> v]
nullopt(op)    == [op |-> op, ok |-> FALSE]
Returns ==
  {Idle} \cup {Pushed(op, ok) : op \in {"push", "try_push"}, ok \in BOOLEAN}
         \cup {Popped(op, v)  : op \in {"pop", "try_pop"}, v \in Values}
         \cup {nullopt(op)    : op \in {"pop", "try_pop"}}

has_space_OffByOne == Len(queue_) <= max_size_
has_space == Len(queue_) < max_size_
has_item  == queue_ # <<>>

Asleep == not_full_ \cup not_empty_
InPush(t) == call[t].op = "push" /\ t \notin Asleep
InPop(t)  == call[t].op = "pop"  /\ t \notin Asleep

\* The sets of sleepers notify_one may leave behind: it wakes one of them,
\* nobody knows which, and nobody when no thread sleeps.
NotifyOne(cv) == IF cv = {} THEN {cv} ELSE {cv \ {t} : t \in cv}

\* What a successful push / pop does once its guard has passed.
PushBack(t, v, op) ==
  /\ queue_' = Append(queue_, v)
  /\ accepted' = Append(accepted, v)
  /\ not_empty_' \in NotifyOne(not_empty_)
  /\ ret' = [ret EXCEPT ![t] = Pushed(op, TRUE)]
  /\ UNCHANGED <<done_, not_full_, delivered>>

PopFront_ReturnsBack(t, op) ==
  /\ queue_' = Tail(queue_)
  /\ delivered' = Append(delivered, queue_[Len(queue_)])
  /\ not_full_' \in NotifyOne(not_full_)
  /\ ret' = [ret EXCEPT ![t] = Popped(op, queue_[Len(queue_)])]
  /\ UNCHANGED <<done_, not_empty_, accepted>>

PopFront_NoNotify(t, op) ==
  /\ queue_' = Tail(queue_)
  /\ delivered' = Append(delivered, Head(queue_))
  /\ ret' = [ret EXCEPT ![t] = Popped(op, Head(queue_))]
  /\ UNCHANGED <<done_, not_full_, not_empty_, accepted>>

PopFront(t, op) ==
  /\ queue_' = Tail(queue_)
  /\ delivered' = Append(delivered, Head(queue_))
  /\ not_full_' \in NotifyOne(not_full_)
  /\ ret' = [ret EXCEPT ![t] = Popped(op, Head(queue_))]
  /\ UNCHANGED <<done_, not_empty_, accepted>>

\* A call that returns without touching the queue.
ReturnWith(t, r) ==
  /\ ret' = [ret EXCEPT ![t] = r]
  /\ UNCHANGED <<queue_, done_, not_full_, not_empty_, accepted, delivered>>
-----------------------------------------------------------------------------
Init ==
  /\ queue_ = <<>>
  /\ done_ = FALSE
  /\ not_full_ = {}
  /\ not_empty_ = {}
  /\ call = [t \in Threads |-> Idle]
  /\ ret = [t \in Threads |-> Idle]
  /\ accepted = <<>>
  /\ delivered = <<>>

\* A thread calls push / pop; it does not hold mutex_ yet.
CallPush(t, v) ==
  /\ call[t] = Idle
  /\ Len(accepted) < MaxPushes
  /\ call' = [call EXCEPT ![t] = PushCall(v)]
  /\ UNCHANGED <<queue_, done_, not_full_, not_empty_, ret, accepted, delivered>>

CallPop(t) ==
  /\ call[t] = Idle
  /\ call' = [call EXCEPT ![t] = PopCall]
  /\ UNCHANGED <<queue_, done_, not_full_, not_empty_, ret, accepted, delivered>>

\* push: the wait predicate done_ || has_space() is false, so sleep.
PushSleep(t) ==
  /\ InPush(t)
  /\ ~done_ /\ ~has_space
  /\ not_full_' = not_full_ \cup {t}
  /\ UNCHANGED <<queue_, done_, not_empty_, call, ret, accepted, delivered>>

PushRefused(t) ==
  /\ InPush(t)
  /\ done_
  /\ call' = [call EXCEPT ![t] = Idle]
  /\ ReturnWith(t, Pushed("push", FALSE))

PushAccepted_DoneUnchecked(t) ==
  /\ InPush(t)
  /\ has_space
  /\ call' = [call EXCEPT ![t] = Idle]
  /\ PushBack(t, call[t].value, "push")

PushAccepted(t) ==
  /\ InPush(t)
  /\ ~done_ /\ has_space
  /\ call' = [call EXCEPT ![t] = Idle]
  /\ PushBack(t, call[t].value, "push")

\* pop: the wait predicate done_ || has_item() is false, so sleep.
PopSleep(t) ==
  /\ InPop(t)
  /\ ~done_ /\ ~has_item
  /\ not_empty_' = not_empty_ \cup {t}
  /\ UNCHANGED <<queue_, done_, not_full_, call, ret, accepted, delivered>>

\* pop: the predicate let the thread through and there is nothing to take.
PopEmpty_NotDrained(t) ==
  /\ InPop(t)
  /\ done_
  /\ call' = [call EXCEPT ![t] = Idle]
  /\ ReturnWith(t, nullopt("pop"))

PopEmpty(t) ==
  /\ InPop(t)
  /\ done_ /\ ~has_item
  /\ call' = [call EXCEPT ![t] = Idle]
  /\ ReturnWith(t, nullopt("pop"))

PopItem(t) ==
  /\ InPop(t)
  /\ has_item
  /\ call' = [call EXCEPT ![t] = Idle]
  /\ PopFront(t, "pop")

\* The non-blocking calls are one critical section each.
TryPush(t, v) ==
  /\ call[t] = Idle
  /\ Len(accepted) < MaxPushes
  /\ UNCHANGED call
  /\ IF done_ \/ ~has_space
     THEN ReturnWith(t, Pushed("try_push", FALSE))
     ELSE PushBack(t, v, "try_push")

TryPop(t) ==
  /\ call[t] = Idle
  /\ UNCHANGED call
  /\ IF has_item THEN PopFront(t, "try_pop") ELSE ReturnWith(t, nullopt("try_pop"))

\* shutdown: set done_ and notify_all on both condition variables.
Shutdown_NotifyOne(t) ==
  /\ call[t] = Idle
  /\ done_' = TRUE
  /\ not_full_' \in NotifyOne(not_full_)
  /\ not_empty_' \in NotifyOne(not_empty_)
  /\ UNCHANGED <<queue_, call, ret, accepted, delivered>>

Shutdown_ForgetsPushers(t) ==
  /\ call[t] = Idle
  /\ done_' = TRUE
  /\ not_empty_' = {}
  /\ UNCHANGED <<queue_, not_full_, call, ret, accepted, delivered>>

Shutdown(t) ==
  /\ call[t] = Idle
  /\ done_' = TRUE
  /\ not_full_' = {}
  /\ not_empty_' = {}
  /\ UNCHANGED <<queue_, call, ret, accepted, delivered>>

\* A condition variable may wake a thread that nobody notified.
SpuriousWakeup(t) ==
  /\ t \in Asleep
  /\ not_full_' = not_full_ \ {t}
  /\ not_empty_' = not_empty_ \ {t}
  /\ UNCHANGED <<queue_, done_, call, ret, accepted, delivered>>
-----------------------------------------------------------------------------
\* The step a thread inside a blocking call takes when it gets mutex_.
Proceed(t) ==
  \/ PushSleep(t) \/ PushRefused(t) \/ PushAccepted(t)
  \/ PopSleep(t)  \/ PopEmpty(t)    \/ PopItem(t)

Next ==
  \E t \in Threads :
    \/ Proceed(t)
    \/ \E v \in Values : CallPush(t, v) \/ TryPush(t, v)
    \/ CallPop(t) \/ TryPop(t) \/ Shutdown(t) \/ SpuriousWakeup(t)

\* An awake thread inside a call eventually gets the mutex and proceeds; no
\* thread has to call anything, and no spurious wakeup has to happen.
Fairness == \A t \in Threads : WF_vars(Proceed(t))

Spec == Init /\ [][Next]_vars
FairSpec == Spec /\ Fairness
-----------------------------------------------------------------------------
\* Types, and what a sleeping thread must look like: it is inside the call
\* whose condition variable it sleeps on, and the deque never outgrows max_size_.
TypeOK ==
  /\ queue_ \in Seq(Values) /\ Len(queue_) <= max_size_
  /\ done_ \in BOOLEAN
  /\ call \in [Threads -> Calls]
  /\ ret \in [Threads -> Returns]
  /\ not_full_  \subseteq {t \in Threads : call[t].op = "push"}
  /\ not_empty_ \subseteq {t \in Threads : call[t].op = "pop"}
  /\ accepted \in Seq(Values)
  /\ delivered \in Seq(Values)

\* Whatever the interleaving of pushers and poppers, what was delivered and
\* what is still in the deque is, in order, exactly what was accepted:
\* nothing is lost, duplicated or overtaken.
FIFO == accepted = delivered \o queue_

\* "No missed wakeups" (Readme.md:108).  While a thread sleeps in pop, there
\* are at least as many awake threads inside pop as items to take, so no
\* item waits for a thread that nobody will wake; and the same for sleeping
\* pushers and free slots.
NoMissedWakeup ==
  /\ not_empty_ # {} => Len(queue_) <= Cardinality({t \in Threads : InPop(t)})
  /\ not_full_ # {} => max_size_ - Len(queue_) <= Cardinality({t \in Threads : InPush(t)})

\* shutdown() leaves nobody asleep, and no thread falls asleep afterwards.
NobodySleepsAfterShutdown == done_ => Asleep = {}

\* Once shut down the queue stays shut down and accepts nothing, not even
\* from a thread that was already inside push.
ShutdownIsFinal == [][done_ => done_' /\ accepted' = accepted]_vars

\* The queue implements the abstract channel, return values included: push
\* is refused only after shutdown, and pop reports empty only when shut down
\* and drained.
Channel == INSTANCE BoundedChannel WITH closed <- done_, Capacity <- max_size_
ImplementsChannel == Channel!Spec

\* No thread hangs across a shutdown: a call pending when done_ is set, or
\* made later, returns, with no further help from any other thread (done_ is
\* final, so a call that never returned would falsify this from then on).
ShutdownReleasesCalls ==
  \A t \in Threads : []<>(done_ => call[t] = Idle)
=============================================================================
