---------------------------- MODULE KnockerTimer ----------------------------
(***************************************************************************)
(* knocker/knocker-epoll-timer.cc: a single-threaded port scanner.  A step *)
(* is one iteration of the fill loop, one epoll_wait, one socket closed by *)
(* the sweep, or the handling of one socket event; the kernel and the      *)
(* network move in between.                                                *)
(***************************************************************************)
EXTENDS KnockerKernel

VARIABLES active_socks, \* the keys of the unordered_map
          port,         \* the next port to dial
          pc,           \* where main stands
          batch,        \* the events of the current batch not handled yet
          now,          \* what the sweep read from the clock
          answered,     \* history: the ports reported as open
          timed_out     \* history: the ports given up by the sweep

progVars == <<active_socks, port, pc, batch, now, answered, timed_out>>
vars == <<kernelVars, progVars>>

Init ==
  /\ KernelInit
  /\ active_socks = {}
  /\ port = start_port
  /\ pc = "fill"
  /\ batch = <<>>
  /\ now = start_port
  /\ answered = {} /\ timed_out = {}
-----------------------------------------------------------------------------
MayDial_PortUnchecked == pc = "fill" /\ Cardinality(active_socks) < MAX_IN_FLIGHT

\* The condition of the fill loop.
MayDial == pc = "fill" /\ Cardinality(active_socks) < MAX_IN_FLIGHT /\ port <= end_port

\* connect is in progress: remember the socket and when it started.
DialInProgress ==
  /\ MayDial
  /\ \E fd \in Fds : Dial(fd, port) /\ active_socks' = active_socks \cup {fd}
  /\ port' = port + 1
  /\ UNCHANGED <<pc, batch, now, answered, timed_out>>

\* connect succeeded at once, or failed at once: the socket is closed again.
DialResolved ==
  /\ MayDial /\ FreeFds # {}
  /\ \/ answered' = answered \cup {port} /\ opened' = opened \cup {port}
     \/ UNCHANGED <<answered, opened>>
  /\ port' = port + 1
  /\ UNCHANGED <<sock, dialed, timer_ready, horizon, active_socks, pc, batch, now, timed_out>>

\* No socket: main returns EXIT_FAILURE.
DialFails ==
  /\ MayDial
  /\ pc' = "EXIT_FAILURE"
  /\ UNCHANGED <<kernelVars, active_socks, port, batch, now, answered, timed_out>>

Wait ==
  /\ pc = "fill" /\ ~MayDial
  /\ ReadyEvents # {}
  /\ batch' \in Batches
  /\ pc' = "dispatch"
  /\ UNCHANGED <<kernelVars, active_socks, port, now, answered, timed_out>>

\* Timer event: read the timer and the clock, then visit the map.
StartSweep ==
  /\ pc = "dispatch" /\ batch # <<>> /\ Head(batch) = TimerEvent
  /\ timer_ready' = FALSE
  /\ now' = horizon
  /\ batch' = Tail(batch)
  /\ pc' = "sweep"
  /\ UNCHANGED <<sock, dialed, horizon, opened, active_socks, port, answered, timed_out>>

\* Close and erase the sockets past their timeout, in the order of the map.
Expired == {fd \in active_socks : dialed[fd] < now}

SweepOne_LeavesOpen ==
  /\ pc = "sweep"
  /\ \E fd \in Expired :
       /\ active_socks' = active_socks \ {fd}
       /\ timed_out' = timed_out \cup {dialed[fd]}
  /\ UNCHANGED <<kernelVars, port, pc, batch, now, answered>>

SweepOne_NotErased ==
  /\ pc = "sweep"
  /\ \E fd \in Expired : Close(fd) /\ timed_out' = timed_out \cup {dialed[fd]}
  /\ UNCHANGED <<active_socks, port, pc, batch, now, answered>>

SweepOne ==
  /\ pc = "sweep"
  /\ \E fd \in Expired :
       /\ Close(fd)
       /\ active_socks' = active_socks \ {fd}
       /\ timed_out' = timed_out \cup {dialed[fd]}
  /\ UNCHANGED <<port, pc, batch, now, answered>>

EndSweep ==
  /\ pc = "sweep" /\ Expired = {}
  /\ pc' = "dispatch"
  /\ UNCHANGED <<kernelVars, active_socks, port, batch, now, answered, timed_out>>

\* A handler that takes any event of a socket for an accepted connection.
Handle_ErrorIgnored ==
  /\ pc = "dispatch" /\ batch # <<>> /\ Head(batch) # TimerEvent
  /\ LET fd == Head(batch).fd
     IN  /\ answered' = answered \cup {Head(batch).port}
         /\ Close(fd)
         /\ active_socks' = active_socks \ {fd}
  /\ batch' = Tail(batch)
  /\ UNCHANGED <<port, pc, now, timed_out>>

\* Socket event: read the error, report, close and erase.
Handle ==
  /\ pc = "dispatch" /\ batch # <<>> /\ Head(batch) # TimerEvent
  /\ LET fd == Head(batch).fd
     IN  /\ answered' = IF err(fd) = 0 THEN answered \cup {Head(batch).port} ELSE answered
         /\ Close(fd)
         /\ active_socks' = active_socks \ {fd}
  /\ batch' = Tail(batch)
  /\ UNCHANGED <<port, pc, now, timed_out>>

BatchDone_PortsOnly ==
  /\ pc = "dispatch" /\ batch = <<>>
  /\ pc' = IF port <= end_port THEN "fill" ELSE "EXIT_SUCCESS"
  /\ UNCHANGED <<kernelVars, active_socks, port, batch, now, answered, timed_out>>

\* The batch is handled; test the condition of the outer loop.
BatchDone ==
  /\ pc = "dispatch" /\ batch = <<>>
  /\ pc' = IF port <= end_port \/ active_socks # {} THEN "fill" ELSE "EXIT_SUCCESS"
  /\ UNCHANGED <<kernelVars, active_socks, port, batch, now, answered, timed_out>>
-----------------------------------------------------------------------------
Program ==
  \/ DialInProgress \/ DialResolved \/ DialFails \/ Wait
  \/ StartSweep \/ SweepOne \/ EndSweep \/ Handle \/ BatchDone
Exited  == pc \in {"EXIT_SUCCESS", "EXIT_FAILURE"}

\* The world moves while the program runs.
Meanwhile(A) == ~Exited /\ A /\ UNCHANGED progVars
Pulses       == Meanwhile(Pulse)
TimeGoesOn   == Meanwhile(TimePasses(port))

Next ==
  \/ Program
  \/ Meanwhile(World(port))
  \/ Exited /\ UNCHANGED vars

\* The program runs, the timer keeps pulsing, time passes.  Nothing is assumed
\* of the other end: it may never answer.
Fairness ==
  /\ WF_vars(Program)
  /\ WF_vars(Pulses)
  /\ WF_vars(TimeGoesOn)

Spec == Init /\ [][Next]_vars
FairSpec == Spec /\ Fairness
-----------------------------------------------------------------------------
\* Types.
TypeOK ==
  /\ KernelTypeOK
  /\ active_socks \subseteq Fds
  /\ port \in start_port .. end_port + 1
  /\ pc \in {"fill", "dispatch", "sweep", "EXIT_SUCCESS", "EXIT_FAILURE"}
  /\ batch \in Seq([fd : Fds \cup {timer_fd}, port : Ports \cup {0}])
  /\ now \in start_port .. end_port + 1
  /\ answered \subseteq Ports /\ timed_out \subseteq Ports

\* The map tracks exactly the open sockets, never more than the limit,
\* whatever was closed between epoll_wait and the handling of its events.
TracksOpenSockets ==
  /\ active_socks = OpenFds
  /\ Cardinality(active_socks) <= MAX_IN_FLIGHT

\* The map and the kernel's sockets agree.
TimerInvariant == TypeOK /\ TracksOpenSockets

\* A port is announced only if it accepted the connection or, its answer
\* having raced the sweep of the same batch, if the sweep has given it up.
AnswersAreTrue == answered \subseteq opened \cup timed_out

\* At the end no socket is open and every port that accepted was reported, or
\* accepted too late and was given up.
NothingMissed ==
  pc = "EXIT_SUCCESS" => OpenFds = {} /\ port = end_port + 1 /\ opened \subseteq answered \cup timed_out

\* The scan ends even if no host ever answers: the timer exists because "the
\* scanner will hang for responses that are never coming" (knocker-epoll-timer.cc:26-32).
ScanEnds == <>Exited
=============================================================================
