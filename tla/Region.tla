------------------------------- MODULE Region -------------------------------
(* What a bump allocator promises: every block lies behind the ones before  *)
(* it and inside the region, and a request is refused only for want of room *)
(* (of which alignment may waste Slack).                                    *)
EXTENDS Integers
CONSTANTS Slack, NULL
VARIABLES
  capacity, used, \* the length of the region (NULL: there is none) and of its used part
  answer          \* the latest request: its size, and the block's offset or NULL

vars == <<capacity, used, answer>>

Fresh == used = 0 /\ answer = [size |-> 0, at |-> NULL]
Init  == Fresh

Give ==
  /\ answer'.at \in used .. used + Slack
  /\ used' = answer'.at + answer'.size
  /\ used' <= capacity
  /\ UNCHANGED capacity

Refuse ==
  /\ answer'.at = NULL
  /\ used + Slack + answer'.size > capacity
  /\ UNCHANGED <<capacity, used>>

\* A request, and the arrival of another region or of none.
Request == Give \/ Refuse
Renew   == Fresh'

Next == Request \/ Renew

Spec == Init /\ [][Next]_vars
=============================================================================
