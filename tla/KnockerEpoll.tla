---------------------------- MODULE KnockerEpoll ----------------------------
(***************************************************************************)
(* knocker/knocker-epoll.cc: the scanner without a timer.  It dials one    *)
(* port after the other and drains epoll whenever the limit is reached, or *)
(* behind the last port.  It keeps no record of its sockets but a counter. *)
(***************************************************************************)
EXTENDS KnockerKernel

VARIABLES in_flight, port, pc, batch,
          answered \* history: the ports reported as open

progVars == <<in_flight, port, pc, batch, answered>>
vars == <<kernelVars, progVars>>

Init ==
  /\ KernelInit
  /\ in_flight = 0
  /\ port = start_port
  /\ pc = "dial"
  /\ batch = <<>>
  /\ answered = {}
-----------------------------------------------------------------------------
\* One iteration of the for loop, up to the inner loop.
DialInProgress ==
  /\ pc = "dial"
  /\ \E fd \in Fds : Dial(fd, port)
  /\ in_flight' = in_flight + 1
  /\ pc' = "drain"
  /\ UNCHANGED <<port, batch, answered>>

DialResolved ==
  /\ pc = "dial" /\ FreeFds # {}
  /\ \/ answered' = answered \cup {port} /\ opened' = opened \cup {port}
     \/ UNCHANGED <<answered, opened>>
  /\ pc' = "drain"
  /\ UNCHANGED <<sock, dialed, timer_ready, horizon, in_flight, port, batch>>

DialFails ==
  /\ pc = "dial"
  /\ pc' = "EXIT_FAILURE"
  /\ UNCHANGED <<kernelVars, in_flight, port, batch, answered>>

\* The condition of the inner loop.
MustWait == in_flight >= MAX_IN_FLIGHT \/ (port = end_port /\ in_flight > 0)

Wait ==
  /\ pc = "drain" /\ MustWait
  /\ ReadyEvents # {}
  /\ batch' \in Batches
  /\ pc' = "dispatch"
  /\ UNCHANGED <<kernelVars, in_flight, port, answered>>

Handle_CloseBeforeError ==
  /\ pc = "dispatch" /\ batch # <<>>
  /\ answered' = answered \cup {Head(batch).port}
  /\ Close(Head(batch).fd)
  /\ in_flight' = in_flight - 1
  /\ batch' = Tail(batch)
  /\ UNCHANGED <<port, pc>>

\* One decrement per batch instead of one per event.
Handle_CountsBatch ==
  /\ pc = "dispatch" /\ batch # <<>>
  /\ LET fd == Head(batch).fd
     IN  /\ answered' = IF err(fd) = 0 THEN answered \cup {Head(batch).port} ELSE answered
         /\ Close(fd)
  /\ in_flight' = IF Len(batch) = 1 THEN in_flight - 1 ELSE in_flight
  /\ batch' = Tail(batch)
  /\ UNCHANGED <<port, pc>>

Handle ==
  /\ pc = "dispatch" /\ batch # <<>>
  /\ LET fd == Head(batch).fd
     IN  /\ answered' = IF err(fd) = 0 THEN answered \cup {Head(batch).port} ELSE answered
         /\ Close(fd)
  /\ in_flight' = in_flight - 1
  /\ batch' = Tail(batch)
  /\ UNCHANGED <<port, pc>>

BatchDone ==
  /\ pc = "dispatch" /\ batch = <<>>
  /\ pc' = "drain"
  /\ UNCHANGED <<kernelVars, in_flight, port, batch, answered>>

NextPort ==
  /\ pc = "drain" /\ ~MustWait
  /\ port' = port + 1
  /\ pc' = IF port' <= end_port THEN "dial" ELSE "EXIT_SUCCESS"
  /\ UNCHANGED <<kernelVars, in_flight, batch, answered>>
-----------------------------------------------------------------------------
Program == DialInProgress \/ DialResolved \/ DialFails \/ Wait \/ Handle \/ BatchDone \/ NextPort
Exited  == pc \in {"EXIT_SUCCESS", "EXIT_FAILURE"}

\* There is no timer: pulses and the passing of time are of no consequence.
Answer(fd) == ~Exited /\ Respond(fd) /\ UNCHANGED progVars

Next ==
  \/ Program
  \/ \E fd \in Fds : Answer(fd)
  \/ Exited /\ UNCHANGED vars

\* Every dialed port answers in the end: that is what this scanner relies on.
Fairness ==
  /\ WF_vars(Program)
  /\ \A fd \in Fds : WF_vars(Answer(fd))

Spec == Init /\ [][Next]_vars
FairSpec == Spec /\ Fairness
-----------------------------------------------------------------------------
\* The counter is the number of open sockets, also in the middle of a batch,
\* and the limit holds.
CountsOpenSockets ==
  in_flight = Cardinality(OpenFds) /\ in_flight <= MAX_IN_FLIGHT

\* A port is reported exactly if it accepted the connection, as far as the
\* answers have been handled.
ReportsAreExact ==
  /\ answered \subseteq opened
  /\ pc = "EXIT_SUCCESS" => OpenFds = {} /\ port = end_port + 1 /\ answered = opened

\* If every host answers, the scan ends.
ScanEnds == <>Exited
=============================================================================
