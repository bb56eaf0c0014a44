--------------------------- MODULE BoundedChannel ---------------------------
(***************************************************************************)
(* What a bounded blocking queue promises to the threads that share it,    *)
(* with no queue, no lock and no sleeping thread in sight: there is one    *)
(* history of accepted values and one history of delivered values, and     *)
(* the second is always a prefix of the first.  ThreadSafeQueue implements *)
(* this specification.                                                     *)
(***************************************************************************)
EXTENDS Naturals, Sequences

CONSTANTS Threads,   \* the threads that may call the channel
          Values,    \* what can be sent
          Capacity   \* how many accepted values may be undelivered

VARIABLES accepted,  \* every value accepted so far, in order
          delivered, \* every value handed out so far, in order
          closed,    \* has the channel been shut down?
          ret        \* ret[t]: what the last call of t that returned told it

vars == <<accepted, delivered, closed, ret>>

\* The answers a call can get.
NoAnswer       == [op |-> "none"]
PutAnswer(op, ok) == [op |-> op, ok |-> ok]
Nothing(op)    == [op |-> op, ok |-> FALSE]
Something(op, v) == [op |-> op, ok |-> TRUE, value |-> v]

Pending == Len(accepted) - Len(delivered)

Init ==
  /\ accepted = <<>>
  /\ delivered = <<>>
  /\ closed = FALSE
  /\ ret = [t \in Threads |-> NoAnswer]

\* A value is accepted: only while the channel is open and has room.
Accept(t, v, op) ==
  /\ ~closed
  /\ Pending < Capacity
  /\ accepted' = Append(accepted, v)
  /\ ret' = [ret EXCEPT ![t] = PutAnswer(op, TRUE)]
  /\ UNCHANGED <<delivered, closed>>

\* A blocking put is refused only by a closed channel; a non-blocking one
\* also when there is no room.
Refuse(t, op) ==
  /\ closed \/ (op = "try_push" /\ Pending >= Capacity)
  /\ ret' = [ret EXCEPT ![t] = PutAnswer(op, FALSE)]
  /\ UNCHANGED <<accepted, delivered, closed>>

\* The oldest undelivered value is handed to t.
Deliver(t, op) ==
  /\ Pending > 0
  /\ LET v == accepted[Len(delivered) + 1]
     IN  /\ delivered' = Append(delivered, v)
         /\ ret' = [ret EXCEPT ![t] = Something(op, v)]
  /\ UNCHANGED <<accepted, closed>>

\* A blocking get comes back empty-handed only when the channel is closed
\* and everything accepted has been delivered.
ReportEmpty(t, op) ==
  /\ Pending = 0
  /\ closed \/ op = "try_pop"
  /\ ret' = [ret EXCEPT ![t] = Nothing(op)]
  /\ UNCHANGED <<accepted, delivered, closed>>

Close ==
  /\ closed' = TRUE
  /\ UNCHANGED <<accepted, delivered, ret>>

Next ==
  \/ \E t \in Threads, op \in {"push", "try_push"} :
        Refuse(t, op) \/ \E v \in Values : Accept(t, v, op)
  \/ \E t \in Threads, op \in {"pop", "try_pop"} : Deliver(t, op) \/ ReportEmpty(t, op)
  \/ Close

Spec == Init /\ [][Next]_vars
=============================================================================
