------------------------------- MODULE Knocker -------------------------------
(* knocker/knocker.cc: one blocking connect after the other.  The kernel of *)
(* the other scanners serves it too: connect() sleeps until the socket it   *)
(* dialed is connected or refused.                                          *)
EXTENDS KnockerKernel

VARIABLES port, pc,
          answered \* history: the ports reported as open

vars == <<kernelVars, port, pc, answered>>

Init == KernelInit /\ port = start_port /\ pc = "dial" /\ answered = {}

Connect ==
  /\ pc = "dial"
  /\ \E fd \in Fds : Dial(fd, port)
  /\ pc' = "connecting"
  /\ UNCHANGED <<port, answered>>

\* socket() fails, or the address is no address.
DialFails ==
  /\ pc = "dial"
  /\ pc' = "EXIT_FAILURE"
  /\ UNCHANGED <<kernelVars, port, answered>>

\* A scanner that only closes the sockets that connected.
Connected_LeavesOpen(fd) ==
  /\ pc = "connecting" /\ dialed[fd] = port
  /\ \/ sock[fd] = "connected" /\ Close(fd) /\ answered' = answered \cup {port}
     \/ sock[fd] = "refused" /\ UNCHANGED <<kernelVars, answered>>
  /\ port' = port + 1
  /\ pc' = IF port' <= end_port THEN "dial" ELSE "EXIT_SUCCESS"

\* connect() returns; the socket is closed whatever it returned.
Connected(fd) ==
  /\ pc = "connecting" /\ dialed[fd] = port
  /\ sock[fd] \in {"connected", "refused"}
  /\ Close(fd)
  /\ answered' = IF sock[fd] = "connected" THEN answered \cup {port} ELSE answered
  /\ port' = port + 1
  /\ pc' = IF port' <= end_port THEN "dial" ELSE "EXIT_SUCCESS"
-----------------------------------------------------------------------------
Program == Connect \/ DialFails \/ \E fd \in Fds : Connected(fd)
Exited  == pc \in {"EXIT_SUCCESS", "EXIT_FAILURE"}

Answer(fd) == ~Exited /\ Respond(fd) /\ UNCHANGED <<port, pc, answered>>

Next == Program \/ (\E fd \in Fds : Answer(fd)) \/ (Exited /\ UNCHANGED vars)
-----------------------------------------------------------------------------
\* One socket is open while connect() sleeps, and none at any other time.
CountsOpenSockets == Cardinality(OpenFds) = IF pc = "connecting" THEN 1 ELSE 0

\* Behind a port, it is reported exactly if it accepted.
ReportsAreExact == answered = opened \cap (start_port .. port - 1)
=============================================================================
