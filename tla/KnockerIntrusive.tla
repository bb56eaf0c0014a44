-------------------------- MODULE KnockerIntrusive --------------------------
(***************************************************************************)
(* knocker/knocker-intrusive.cc: the scanner of KnockerTimer with the      *)
(* unordered_map replaced by a table indexed by descriptor, whose entries  *)
(* are linked, by index, into a list ordered by connect time.              *)
(*                                                                         *)
(* A step is one iteration of the fill loop, one epoll_wait, one iteration *)
(* of the sweep, or the handling of one socket event.                      *)
(***************************************************************************)
EXTENDS KnockerKernel

VARIABLES active, start_time, next, prev, \* the fields of table[fd]
          head, tail,                     \* in_flight
          in_flight_count, port,
          pc, batch,
          now,      \* what the sweep read from the clock
          answered, timed_out,            \* history: ports reported, given up
          stale,    \* history: was an event handled for a socket not in flight?
          order     \* history: the descriptors in flight, in the order they were dialed

listVars == <<active, start_time, next, prev, head, tail, in_flight_count, order>>
progVars == <<listVars, port, pc, batch, now, answered, timed_out, stale>>
vars == <<kernelVars, progVars>>

none == -1 \* no neighbour

\* Behind a stale event the sweep may go round for ever and count down without
\* end.  The counter stops at a value so low that the ports left to dial cannot
\* bring it above 0 again: the program, which only asks whether it is positive
\* and below MAX_IN_FLIGHT, cannot tell the difference.
CountFloor == start_port - end_port - 1
Indices == Fds \cup {none}

Init ==
  /\ KernelInit
  /\ active = [fd \in Fds |-> FALSE]
  /\ start_time = [fd \in Fds |-> 0]
  /\ next = [fd \in Fds |-> none] /\ prev = [fd \in Fds |-> none]
  /\ head = none /\ tail = none
  /\ in_flight_count = 0
  /\ port = start_port
  /\ pc = "fill"
  /\ batch = <<>>
  /\ now = start_port
  /\ answered = {} /\ timed_out = {} /\ stale = FALSE
  /\ order = <<>>

list_insert_tail(fd) ==
  /\ prev' = [prev EXCEPT ![fd] = tail]
  /\ next' = IF tail = none THEN [next EXCEPT ![fd] = none]
                            ELSE [next EXCEPT ![fd] = none, ![tail] = fd]
  /\ head' = IF tail = none THEN fd ELSE head
  /\ tail' = fd

\* A list_unlink that forgets the back pointer of the new head.
list_unlink_HeadKeepsPrev(fd) ==
  LET p == prev[fd]
      n == next[fd]
  IN  /\ head' = IF p = none THEN n ELSE head
      /\ tail' = IF n = none THEN p ELSE tail
      /\ next' = IF p = none THEN next ELSE [next EXCEPT ![p] = n]
      /\ prev' = IF n = none \/ p = none THEN prev ELSE [prev EXCEPT ![n] = p]

\* The four cases: the only element, the head, the tail, the middle.
list_unlink(fd) ==
  LET p == prev[fd]
      n == next[fd]
  IN  /\ head' = IF p = none THEN n ELSE head
      /\ tail' = IF n = none THEN p ELSE tail
      /\ next' = IF p = none THEN next ELSE [next EXCEPT ![p] = n]
      /\ prev' = IF n = none THEN prev ELSE [prev EXCEPT ![n] = p]

\* The history without fd: where it stands, and what is left.
InFlight  == {order[n] : n \in 1 .. Len(order)}
Place(fd) == CHOOSE n \in 1 .. Len(order) : order[n] = fd
Without(fd) ==
  IF fd \in InFlight
  THEN [n \in 1 .. Len(order) - 1 |-> order[IF n < Place(fd) THEN n ELSE n + 1]]
  ELSE order

Drop_NotCounted(fd) ==
  /\ list_unlink(fd)
  /\ active' = [active EXCEPT ![fd] = FALSE]
  /\ order' = Without(fd)
  /\ UNCHANGED <<start_time, in_flight_count>>

\* unlink, epoll_ctl(DEL), close, active = false, in_flight_count--.
Drop(fd) ==
  /\ list_unlink(fd)
  /\ active' = [active EXCEPT ![fd] = FALSE]
  /\ in_flight_count' = IF in_flight_count > CountFloor THEN in_flight_count - 1 ELSE CountFloor
  /\ order' = Without(fd)
  /\ UNCHANGED start_time
-----------------------------------------------------------------------------
MayDial_PortUnchecked == pc = "fill" /\ in_flight_count < MAX_IN_FLIGHT

MayDial == pc = "fill" /\ in_flight_count < MAX_IN_FLIGHT /\ port <= end_port

DialInProgress_AtHead ==
  /\ MayDial
  /\ \E fd \in Fds :
       /\ Dial(fd, port)
       /\ active' = [active EXCEPT ![fd] = TRUE]
       /\ start_time' = [start_time EXCEPT ![fd] = port]
       /\ next' = [next EXCEPT ![fd] = head]
       /\ prev' = IF head = none THEN [prev EXCEPT ![fd] = none]
                                 ELSE [prev EXCEPT ![fd] = none, ![head] = fd]
       /\ head' = fd
       /\ tail' = IF tail = none THEN fd ELSE tail
       /\ order' = <<fd>> \o order
  /\ in_flight_count' = in_flight_count + 1
  /\ port' = port + 1
  /\ UNCHANGED <<pc, batch, now, answered, timed_out, stale>>

\* connect is in progress: the table entry is filled in and linked at the tail.
DialInProgress ==
  /\ MayDial
  /\ \E fd \in Fds :
       /\ Dial(fd, port)
       /\ active' = [active EXCEPT ![fd] = TRUE]
       /\ start_time' = [start_time EXCEPT ![fd] = port]
       /\ list_insert_tail(fd)
       /\ order' = Append(order, fd)
  /\ in_flight_count' = in_flight_count + 1
  /\ port' = port + 1
  /\ UNCHANGED <<pc, batch, now, answered, timed_out, stale>>

\* connect succeeded at once, or failed at once: the socket is closed again.
DialResolved ==
  /\ MayDial /\ FreeFds # {}
  /\ \/ answered' = answered \cup {port} /\ opened' = opened \cup {port}
     \/ UNCHANGED <<answered, opened>>
  /\ port' = port + 1
  /\ UNCHANGED <<sock, dialed, timer_ready, horizon, listVars, pc, batch, now, timed_out, stale>>

\* No socket, or one the table has no room for: main returns EXIT_FAILURE.
DialFails ==
  /\ MayDial
  /\ pc' = "EXIT_FAILURE"
  /\ UNCHANGED <<kernelVars, listVars, port, batch, now, answered, timed_out, stale>>

Wait ==
  /\ pc = "fill" /\ ~MayDial
  /\ ReadyEvents # {}
  /\ batch' \in Batches
  /\ pc' = "dispatch"
  /\ UNCHANGED <<kernelVars, listVars, port, now, answered, timed_out, stale>>

\* Timer event: read the timer and the clock, then sweep.
StartSweep ==
  /\ pc = "dispatch" /\ batch # <<>> /\ Head(batch) = TimerEvent
  /\ timer_ready' = FALSE
  /\ now' = horizon
  /\ batch' = Tail(batch)
  /\ pc' = "sweep"
  /\ UNCHANGED <<sock, dialed, horizon, opened, listVars, port, answered, timed_out, stale>>

HeadExpired == head # none /\ start_time[head] < now

\* One iteration: drop the head of the list and close its socket.
SweepHead ==
  /\ pc = "sweep" /\ HeadExpired
  /\ Drop(head)
  /\ Close(head)
  /\ timed_out' = timed_out \cup {start_time[head]}
  /\ UNCHANGED <<port, pc, batch, now, answered, stale>>

\* The head is not expired, so nothing behind it is.
EndSweep ==
  /\ pc = "sweep" /\ ~HeadExpired
  /\ pc' = "dispatch"
  /\ UNCHANGED <<kernelVars, listVars, port, batch, now, answered, timed_out, stale>>

\* A handler that takes any event of a socket for an accepted connection.
Handle_ErrorIgnored ==
  /\ pc = "dispatch" /\ batch # <<>> /\ Head(batch) # TimerEvent
  /\ LET fd == Head(batch).fd
     IN  /\ answered' = answered \cup {Head(batch).port}
         /\ Drop(fd)
         /\ Close(fd)
         /\ stale' = (stale \/ ~active[fd])
  /\ batch' = Tail(batch)
  /\ UNCHANGED <<port, pc, now, timed_out>>

\* Socket event: read the error, report, unlink, close.
Handle ==
  /\ pc = "dispatch" /\ batch # <<>> /\ Head(batch) # TimerEvent
  /\ LET fd == Head(batch).fd
     IN  /\ answered' = IF err(fd) = 0 THEN answered \cup {Head(batch).port} ELSE answered
         /\ Drop(fd)
         /\ Close(fd)
         /\ stale' = (stale \/ ~active[fd])
  /\ batch' = Tail(batch)
  /\ UNCHANGED <<port, pc, now, timed_out>>

\* The batch is handled; test the condition of the outer loop.
BatchDone ==
  /\ pc = "dispatch" /\ batch = <<>>
  /\ pc' = IF port <= end_port \/ in_flight_count > 0 THEN "fill" ELSE "EXIT_SUCCESS"
  /\ UNCHANGED <<kernelVars, listVars, port, batch, now, answered, timed_out, stale>>
-----------------------------------------------------------------------------
Program ==
  \/ DialInProgress \/ DialResolved \/ DialFails \/ Wait
  \/ StartSweep \/ SweepHead \/ EndSweep \/ Handle \/ BatchDone
Exited == pc \in {"EXIT_SUCCESS", "EXIT_FAILURE"}

\* The world moves while the program runs.
Meanwhile(A) == ~Exited /\ A /\ UNCHANGED progVars
Pulses       == Meanwhile(Pulse)
TimeGoesOn   == Meanwhile(TimePasses(port))

Next ==
  \/ Program
  \/ Meanwhile(World(port))
  \/ Exited /\ UNCHANGED vars

\* The program runs, the timer keeps pulsing, time passes.  Nothing is assumed
\* of the other end: it may never answer.
Fairness ==
  /\ WF_vars(Program)
  /\ WF_vars(Pulses)
  /\ WF_vars(TimeGoesOn)

Spec == Init /\ [][Next]_vars
FairSpec == Spec /\ Fairness
-----------------------------------------------------------------------------
\* Types.
TypeOK ==
  /\ KernelTypeOK
  /\ active \in [Fds -> BOOLEAN]
  /\ start_time \in [Fds -> Ports \cup {0}]
  /\ next \in [Fds -> Indices] /\ prev \in [Fds -> Indices]
  /\ head \in Indices /\ tail \in Indices
  /\ in_flight_count \in CountFloor .. MAX_IN_FLIGHT
  /\ port \in start_port .. end_port + 1
  /\ pc \in {"fill", "dispatch", "sweep", "EXIT_SUCCESS", "EXIT_FAILURE"}
  /\ batch \in Seq([fd : Fds \cup {timer_fd}, port : Ports \cup {0}])
  /\ now \in start_port .. end_port + 1
  /\ answered \subseteq Ports /\ timed_out \subseteq Ports \cup {0} /\ stale \in BOOLEAN
  /\ order \in Seq(Fds)

\* The links describe one list, forwards and backwards, of exactly the open
\* sockets, and in_flight_count is its length: inserting at the tail and
\* unlinking from anywhere never loses or revives an entry.
ListIsInFlight ==
  ~stale =>
    /\ \A m, n \in 1 .. Len(order) : m # n => order[m] # order[n]
    /\ head = IF order = <<>> THEN none ELSE order[1]
    /\ tail = IF order = <<>> THEN none ELSE order[Len(order)]
    /\ \A n \in 1 .. Len(order) :
         /\ prev[order[n]] = IF n = 1 THEN none ELSE order[n - 1]
         /\ next[order[n]] = IF n = Len(order) THEN none ELSE order[n + 1]
    /\ \A fd \in Fds : active[fd] <=> fd \in InFlight
    /\ InFlight = OpenFds
    /\ in_flight_count = Len(order) /\ in_flight_count <= MAX_IN_FLIGHT

\* The list, its counter and the kernel's sockets agree.
ListInvariant == TypeOK /\ ListIsInFlight

\* A port is announced only if it accepted the connection or, its answer
\* having raced the sweep of the same batch, if the sweep has given it up.
AnswersAreTrue == answered \subseteq opened \cup timed_out

\* The scan ends even if no host ever answers, unless an event is stale.
ScanEndsUnlessStale == <>(Exited \/ stale)

\* "the scanner will hang for responses that are never coming. So, I implemented
\* a custom timer handling" (knocker/Readme.md:18): with the timer, the scan ends.
ScanEnds == <>Exited

\* "fill the queue upto the concurrency limit" (knocker-intrusive.cc:167): there
\* are never more than MAX_IN_FLIGHT open sockets.
ConcurrencyLimit == Cardinality(OpenFds) <= MAX_IN_FLIGHT

\* The list is an optimisation: until an event is stale, every step is a step
\* of the scanner with the hash map.  In particular the sweep that stops at the
\* first connection not yet expired stops when no expired one is left.
HashMapScanner == INSTANCE KnockerTimer WITH active_socks <- {fd \in Fds : active[fd]}
ImplementsHashMapScanner ==
  HashMapScanner!Init /\ [][HashMapScanner!Next \/ stale']_(HashMapScanner!vars)
=============================================================================
