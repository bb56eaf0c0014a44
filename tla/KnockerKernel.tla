---------------------------- MODULE KnockerKernel ----------------------------
(***************************************************************************)
(* What the port scanners of knocker/ see of the kernel and the network:   *)
(* sockets that connect in the background, epoll, a periodic timerfd and a *)
(* monotonic clock.  None of it is code of the repository; it is modelled  *)
(* from the way knocker-epoll.cc, knocker-epoll-timer.cc and               *)
(* knocker-intrusive.cc use it.                                            *)
(*                                                                         *)
(* Ports are dialled in increasing order, so a port number also stands for *)
(* the time at which its connection was started: the connections started   *)
(* more than TIMEOUT_MS ago are those to the ports below horizon.          *)
(***************************************************************************)
EXTENDS Integers, Sequences, FiniteSets

CONSTANTS Fds,        \* the descriptors socket() can return
          timer_fd,   \* the descriptor of the timer
          start_port, end_port,
          MAX_IN_FLIGHT, MAX_EVENTS

\* main() rejects other ranges; RLIMIT_NOFILE leaves room for the sockets.
ASSUME KnockerAssumption ==
  /\ Fds \subseteq Nat /\ IsFiniteSet(Fds)
  /\ timer_fd \in Nat \ Fds
  /\ start_port \in Nat \ {0} /\ end_port \in Nat /\ start_port <= end_port
  /\ MAX_IN_FLIGHT \in Nat \ {0} /\ MAX_EVENTS \in Nat \ {0}

VARIABLES sock,        \* sock[fd]: the state of descriptor fd
          dialed,      \* dialed[fd]: the port in the epoll payload of fd
          timer_ready, \* the timer expired and was not read
          horizon,     \* connections to ports below this are older than TIMEOUT_MS
          opened       \* history: the ports that accepted the connection

kernelVars == <<sock, dialed, timer_ready, horizon, opened>>

Ports      == start_port .. end_port
SockStates == {"closed", "pending", "connected", "refused"}
FreeFds    == {fd \in Fds : sock[fd] = "closed"}
OpenFds    == Fds \ FreeFds

KernelTypeOK ==
  /\ sock \in [Fds -> SockStates]
  /\ dialed \in [Fds -> Ports \cup {0}]
  /\ timer_ready \in BOOLEAN
  /\ horizon \in start_port .. end_port + 1
  /\ opened \subseteq Ports

KernelInit ==
  /\ sock = [fd \in Fds |-> "closed"]
  /\ dialed = [fd \in Fds |-> 0]
  /\ timer_ready = FALSE
  /\ horizon = start_port
  /\ opened = {}
-----------------------------------------------------------------------------
(* System calls.                                                             *)

\* socket() returns the lowest free descriptor.
Lowest(fd) == fd \in FreeFds /\ \A f \in FreeFds : fd <= f

\* socket, connect -> EINPROGRESS, epoll_ctl(ADD): fd dials p in the background.
Dial(fd, p) ==
  /\ Lowest(fd)
  /\ sock' = [sock EXCEPT ![fd] = "pending"]
  /\ dialed' = [dialed EXCEPT ![fd] = p]
  /\ UNCHANGED <<timer_ready, horizon, opened>>

\* epoll_ctl(DEL) and close; on a descriptor that is closed both only fail.
Close(fd) ==
  /\ sock' = [sock EXCEPT ![fd] = "closed"]
  /\ UNCHANGED <<dialed, timer_ready, horizon, opened>>

\* getsockopt(fd, SO_ERROR, &err) with err initialised to 0: on a descriptor
\* that is closed the call fails and err stays 0.
ECONNREFUSED == 111
err(fd) == IF sock[fd] = "refused" THEN ECONNREFUSED ELSE 0

TimerEvent == [fd |-> timer_fd, port |-> 0]
ReadyEvents ==
  {[fd |-> fd, port |-> dialed[fd]] : fd \in {f \in Fds : sock[f] \in {"connected", "refused"}}}
  \cup (IF timer_ready THEN {TimerEvent} ELSE {})

\* What epoll_wait may return: as many ready events as fit, in any order.
Batches ==
  LET ready == Cardinality(ReadyEvents)
      n == IF ready <= MAX_EVENTS THEN ready ELSE MAX_EVENTS
  IN  {b \in [1 .. n -> ReadyEvents] : \A i, j \in 1 .. n : b[i] = b[j] => i = j}
-----------------------------------------------------------------------------
(* The world.                                                                *)

\* The other end accepts or rejects the connection; or never answers.
Respond(fd) ==
  /\ sock[fd] = "pending"
  /\ \/ /\ sock' = [sock EXCEPT ![fd] = "connected"]
        /\ opened' = opened \cup {dialed[fd]}
     \/ /\ sock' = [sock EXCEPT ![fd] = "refused"]
        /\ UNCHANGED opened
  /\ UNCHANGED <<dialed, timer_ready, horizon>>

Pulse ==
  /\ ~timer_ready
  /\ timer_ready' = TRUE
  /\ UNCHANGED <<sock, dialed, horizon, opened>>

\* Time passes; port is the next one to dial, everything below it was dialled.
TimePasses(port) ==
  /\ horizon < port
  /\ horizon' \in horizon + 1 .. port
  /\ UNCHANGED <<sock, dialed, timer_ready, opened>>

World(port) == (\E fd \in Fds : Respond(fd)) \/ Pulse \/ TimePasses(port)
=============================================================================
