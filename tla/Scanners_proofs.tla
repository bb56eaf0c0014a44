--------------------------- MODULE Scanners_proofs ---------------------------
(***************************************************************************)
(* Proofs about the three scanners without a list, for any table of        *)
(* descriptors, any range of ports, any limit and any size of a batch.     *)
(***************************************************************************)
EXTENDS MCScanners, SequenceTheorems, FiniteSetTheorems, TLAPS

-----------------------------------------------------------------------------
(* What is true of every state of the scanners that use epoll.               *)

Events == [fd : Fds \cup {timer_fd}, port : Ports \cup {0}]

\* A socket that is open was dialed, and if it is connected, its port accepted.
KernelIsSound ==
  /\ KernelTypeOK
  /\ \A fd \in Fds : /\ sock[fd] # "closed" => dialed[fd] \in Ports
                     /\ sock[fd] = "connected" => dialed[fd] \in opened

\* Types of what all programs keep.
TypesAgree ==
  /\ port \in start_port .. end_port + 1
  /\ answered \subseteq Ports /\ timed_out \subseteq Ports
  /\ batch \in Seq(Events)

\* The events still to be handled are of different sockets.  Since epoll_wait
\* returned them their socket was not dialed again, and if it was closed, the
\* sweep closed it and gave its port up.
EventsAreOfThisBatch ==
  /\ batch # <<>> => pc \in {"dispatch", "sweep"}
  /\ \A n \in 1 .. Len(batch) :
       batch[n] # TimerEvent =>
         /\ batch[n].fd \in Fds
         /\ batch[n].port = dialed[batch[n].fd] /\ batch[n].port \in Ports
         /\ sock[batch[n].fd] # "pending"
         /\ sock[batch[n].fd] = "closed" => batch[n].port \in timed_out
  /\ \A m, n \in 1 .. Len(batch) : m # n => batch[m].fd # batch[n].fd

\* A port that accepted was reported or given up, or its socket is still open.
NoneIsForgotten ==
  \A p \in opened :
    p \in answered \cup timed_out \/ \E fd \in Fds : sock[fd] = "connected" /\ dialed[fd] = p

\* A port that was reported accepted or was given up.
NoneIsInvented == answered \subseteq opened \cup timed_out

ReportsAreSound ==
  /\ KernelIsSound /\ TypesAgree
  /\ EventsAreOfThisBatch
  /\ NoneIsForgotten /\ NoneIsInvented
-----------------------------------------------------------------------------
(* The inductive invariants of the three programs.                           *)

\* knocker-epoll: nothing ever sweeps, and the limit is not reached when a port
\* is dialed.
EpollInvariant ==
  /\ ReportsAreSound
  /\ timed_out = {} /\ timer_ready = FALSE
  /\ \A n \in 1 .. Len(batch) : batch[n] # TimerEvent
  /\ in_flight = Cardinality(OpenFds) /\ in_flight <= MAX_IN_FLIGHT
  /\ pc \in {"dial", "drain", "dispatch", "EXIT_SUCCESS", "EXIT_FAILURE"}
  /\ pc = "dial" => in_flight < MAX_IN_FLIGHT
  /\ pc \in {"dial", "drain", "dispatch"} => port \in Ports
  /\ pc = "EXIT_SUCCESS" => OpenFds = {} /\ port = end_port + 1

\* knocker-epoll-timer.
MapScannerInvariant ==
  /\ ReportsAreSound
  /\ active_socks = OpenFds /\ Cardinality(OpenFds) <= MAX_IN_FLIGHT
  /\ pc \in {"fill", "dispatch", "sweep", "EXIT_SUCCESS", "EXIT_FAILURE"}
  /\ now \in start_port .. end_port + 1
  /\ pc = "EXIT_SUCCESS" => OpenFds = {} /\ port = end_port + 1

\* knocker: while connect() sleeps, the only socket is that of the port being
\* dialed, and only ports behind it have been reported.
BlockingInvariant ==
  /\ KernelIsSound
  /\ port \in start_port .. end_port + 1
  /\ pc \in {"dial", "connecting", "EXIT_SUCCESS", "EXIT_FAILURE"}
  /\ pc \in {"dial", "connecting"} => port \in Ports
  /\ pc = "connecting" => \E fd \in Fds : OpenFds = {fd} /\ dialed[fd] = port
  /\ pc # "connecting" => OpenFds = {}
  /\ \A p \in opened : p < port \/ \E fd \in Fds : sock[fd] = "connected" /\ dialed[fd] = p
  /\ answered = opened \cap (start_port .. port - 1)

ScannerInvariant ==
  /\ scanner \in {"knocker", "knocker-epoll", "knocker-epoll-timer"}
  /\ Runs("knocker") => BlockingInvariant
  /\ Runs("knocker-epoll") => EpollInvariant
  /\ Runs("knocker-epoll-timer") => MapScannerInvariant
-----------------------------------------------------------------------------
(* The kernel.                                                               *)

\* The ports of a scan.
LEMMA PortsAreNaturals ==
  /\ start_port \in Nat /\ start_port > 0 /\ end_port \in Nat /\ start_port <= end_port
  /\ Ports \subseteq Nat
  /\ start_port \in start_port .. end_port + 1
BY KnockerAssumption DEF Ports

\* The open sockets can be counted.
LEMMA OpenFdsAreFinite ==
  /\ IsFiniteSet(OpenFds) /\ Cardinality(OpenFds) \in Nat
  /\ Cardinality(OpenFds) = 0 <=> OpenFds = {}
  /\ \A fd \in Fds : fd \in OpenFds <=> sock[fd] # "closed"
<1>1. IsFiniteSet(OpenFds)
  BY FS_Subset, KnockerAssumption DEF OpenFds
<1>2. \A fd \in Fds : fd \in OpenFds <=> sock[fd] # "closed"
  BY DEF OpenFds, FreeFds
<1> QED BY <1>1, <1>2, FS_EmptySet, FS_CardinalityType

\* What the calls and the answers do to the sockets.
LEMMA DialOpens ==
  ASSUME KernelIsSound, NEW fd \in Fds, NEW p \in Ports, Dial(fd, p)
  PROVE  /\ KernelIsSound' /\ OpenFds' = OpenFds \cup {fd}
         /\ Cardinality(OpenFds') = Cardinality(OpenFds) + 1
         /\ fd \notin OpenFds
         /\ \A f \in Fds : sock'[f] = IF f = fd THEN "pending" ELSE sock[f]
         /\ \A f \in Fds : dialed'[f] = IF f = fd THEN p ELSE dialed[f]
         /\ opened' = opened /\ timer_ready' = timer_ready
<1>1. fd \notin OpenFds
  BY DEF Dial, Lowest, OpenFds, FreeFds
<1>2. /\ \A f \in Fds : sock'[f] = IF f = fd THEN "pending" ELSE sock[f]
      /\ \A f \in Fds : dialed'[f] = IF f = fd THEN p ELSE dialed[f]
      /\ opened' = opened /\ timer_ready' = timer_ready
  BY DEF Dial, KernelIsSound, KernelTypeOK
<1>3. OpenFds' = OpenFds \cup {fd}
  BY <1>2 DEF OpenFds, FreeFds
<1>4. KernelTypeOK'
  BY DEF Dial, KernelIsSound, KernelTypeOK, SockStates
<1>5. KernelIsSound'
  BY <1>2, <1>4 DEF KernelIsSound
<1> QED BY <1>1, <1>2, <1>3, <1>5, OpenFdsAreFinite, FS_AddElement

LEMMA CloseCloses ==
  ASSUME KernelIsSound, NEW fd \in Fds, Close(fd)
  PROVE  /\ KernelIsSound' /\ OpenFds' = OpenFds \ {fd}
         /\ Cardinality(OpenFds') =
              IF fd \in OpenFds THEN Cardinality(OpenFds) - 1 ELSE Cardinality(OpenFds)
         /\ \A f \in Fds : sock'[f] = IF f = fd THEN "closed" ELSE sock[f]
         /\ dialed' = dialed /\ opened' = opened /\ timer_ready' = timer_ready
<1>1. /\ \A f \in Fds : sock'[f] = IF f = fd THEN "closed" ELSE sock[f]
      /\ dialed' = dialed /\ opened' = opened /\ timer_ready' = timer_ready
  BY DEF Close, KernelIsSound, KernelTypeOK
<1>2. OpenFds' = OpenFds \ {fd}
  BY <1>1 DEF OpenFds, FreeFds
<1>3. KernelTypeOK'
  BY DEF Close, KernelIsSound, KernelTypeOK, SockStates
<1>4. KernelIsSound'
  BY <1>1, <1>3 DEF KernelIsSound
<1> QED BY <1>1, <1>2, <1>4, OpenFdsAreFinite, FS_RemoveElement

LEMMA RespondKeepsOpen ==
  ASSUME KernelIsSound, NEW fd \in Fds, Respond(fd)
  PROVE  /\ KernelIsSound' /\ OpenFds' = OpenFds
         /\ sock[fd] = "pending" /\ sock'[fd] \in {"connected", "refused"}
         /\ \A f \in Fds : f # fd => sock'[f] = sock[f]
         /\ opened' = IF sock'[fd] = "connected" THEN opened \cup {dialed[fd]} ELSE opened
         /\ dialed' = dialed /\ timer_ready' = timer_ready
<1>1. /\ sock[fd] = "pending" /\ sock'[fd] \in {"connected", "refused"}
      /\ \A f \in Fds : f # fd => sock'[f] = sock[f]
      /\ opened' = IF sock'[fd] = "connected" THEN opened \cup {dialed[fd]} ELSE opened
      /\ dialed' = dialed /\ timer_ready' = timer_ready
  BY DEF Respond, KernelIsSound, KernelTypeOK
<1>2. OpenFds' = OpenFds
  BY <1>1 DEF OpenFds, FreeFds
<1>3. dialed[fd] \in Ports
  BY <1>1 DEF KernelIsSound
<1>4. KernelTypeOK'
  BY <1>3 DEF Respond, KernelIsSound, KernelTypeOK, SockStates
<1>5. KernelIsSound'
  BY <1>1, <1>3, <1>4 DEF KernelIsSound
<1> QED BY <1>1, <1>2, <1>5

\* There are finitely many ready events.
LEMMA ReadyIsFinite == IsFiniteSet(ReadyEvents)
<1> DEFINE S == {f \in Fds : sock[f] \in {"connected", "refused"}}
           T == {[fd |-> fd, port |-> dialed[fd]] : fd \in S}
           g == [fd \in S |-> [fd |-> fd, port |-> dialed[fd]]]
<1>1. IsFiniteSet(S)
  BY FS_Subset, KnockerAssumption
<1>2. g \in Surjection(S, T)
  BY DEF Surjection
<1>3. IsFiniteSet(T)
  BY <1>1, <1>2, FS_Surjection
<1>4. IsFiniteSet(T \cup {TimerEvent})
  BY <1>3, FS_AddElement
<1> QED BY <1>3, <1>4 DEF ReadyEvents

\* A ready event is that of the timer, or of a socket that has an answer.
LEMMA ReadyHasAnswer ==
  ASSUME KernelTypeOK, NEW e \in ReadyEvents
  PROVE  /\ e \in Events
         /\ e = TimerEvent \/ (e.fd \in Fds /\ e.port = dialed[e.fd]
                                /\ sock[e.fd] \in {"connected", "refused"})
         /\ timer_ready = FALSE => e # TimerEvent
<1>1. TimerEvent \in Events /\ TimerEvent.fd \notin Fds
  BY KnockerAssumption DEF TimerEvent, Events
<1>2. CASE e = TimerEvent /\ timer_ready = TRUE
  BY <1>1, <1>2
<1>3. ASSUME NEW fd \in Fds, sock[fd] \in {"connected", "refused"},
             e = [fd |-> fd, port |-> dialed[fd]]
      PROVE  /\ e \in Events /\ e # TimerEvent
             /\ e.fd \in Fds /\ e.port = dialed[e.fd]
             /\ sock[e.fd] \in {"connected", "refused"}
  <2>1. dialed[fd] \in Ports \cup {0}
    BY DEF KernelTypeOK
  <2> QED BY <1>1, <1>3, <2>1 DEF Events
<1>4. \/ e = TimerEvent /\ timer_ready = TRUE
      \/ \E fd \in Fds : /\ sock[fd] \in {"connected", "refused"}
                         /\ e = [fd |-> fd, port |-> dialed[fd]]
  BY DEF ReadyEvents, KernelTypeOK
<1> QED BY <1>2, <1>3, <1>4

\* A batch names different descriptors.
LEMMA BatchIsOfReady ==
  ASSUME KernelTypeOK, NEW b \in Batches
  PROVE  /\ b \in Seq(Events)
         /\ \A n \in 1 .. Len(b) : b[n] \in ReadyEvents
         /\ \A m, n \in 1 .. Len(b) : m # n => b[m].fd # b[n].fd
<1> DEFINE ready == Cardinality(ReadyEvents)
           last == IF ready <= MAX_EVENTS THEN ready ELSE MAX_EVENTS
<1>1. b \in [1 .. last -> ReadyEvents] /\ \A m, n \in 1 .. last : b[m] = b[n] => m = n
  BY DEF Batches
<1>2. last \in Nat
  BY ReadyIsFinite, FS_CardinalityType, KnockerAssumption
<1> HIDE DEF last
<1>3. ReadyEvents \subseteq Events
  BY ReadyHasAnswer
<1>4. b \in [1 .. last -> Events]
  BY <1>1, <1>3
<1>5. b \in Seq(Events) /\ Len(b) = last
  BY <1>2, <1>4, SeqDef, LenProperties
<1>6. ASSUME NEW d \in ReadyEvents, NEW e \in ReadyEvents, d.fd = e.fd PROVE d = e
  <2>1. TimerEvent.fd = timer_fd /\ timer_fd \notin Fds
    BY KnockerAssumption DEF TimerEvent
  <2>2. \/ d = TimerEvent
        \/ \E fd \in Fds : d = [fd |-> fd, port |-> dialed[fd]]
    BY DEF ReadyEvents
  <2>3. \/ e = TimerEvent
        \/ \E fd \in Fds : e = [fd |-> fd, port |-> dialed[fd]]
    BY DEF ReadyEvents
  <2> QED BY <1>6, <2>1, <2>2, <2>3
<1> QED BY <1>1, <1>5, <1>6

\* What is left of a batch.
LEMMA TailOfBatch ==
  ASSUME batch \in Seq(Events), batch # <<>>
  PROVE  /\ Tail(batch) \in Seq(Events)
         /\ Len(batch) \in Nat \ {0} /\ Len(Tail(batch)) = Len(batch) - 1
         /\ \A n \in 1 .. Len(batch) - 1 : Tail(batch)[n] = batch[n + 1]
         /\ Head(batch) = batch[1] /\ 1 \in 1 .. Len(batch)
<1>1. Len(batch) \in Nat \ {0}
  BY LenProperties, EmptySeq
<1>2. 1 \in 1 .. Len(batch)
  BY <1>1
<1> QED BY <1>1, <1>2, HeadTailProperties
-----------------------------------------------------------------------------
(* How the steps of the two programs with epoll keep their reports sound.    *)

\* The beginning.
LEMMA StartIsSound ==
  ASSUME KernelInit, port = start_port, batch = <<>>, answered = {}, timed_out = {}
  PROVE  ReportsAreSound /\ OpenFds = {} /\ Cardinality(OpenFds) = 0
<1>1. batch \in Seq(Events) /\ Len(batch) = 0 /\ 1 .. 0 = {}
  BY EmptySeq
<1>2. KernelIsSound
  BY PortsAreNaturals DEF KernelInit, KernelIsSound, KernelTypeOK, SockStates
<1>3. TypesAgree
  BY <1>1, PortsAreNaturals DEF TypesAgree
<1>4. EventsAreOfThisBatch
  BY <1>1 DEF EventsAreOfThisBatch
<1>5. OpenFds = {}
  BY DEF KernelInit, OpenFds, FreeFds
<1> QED BY <1>2, <1>3, <1>4, <1>5, OpenFdsAreFinite
        DEF ReportsAreSound, NoneIsForgotten, NoneIsInvented, KernelInit

\* Between batches there is nothing to say of events.
LEMMA NoEvents ==
  ASSUME batch = <<>>, batch' = batch
  PROVE  EventsAreOfThisBatch' /\ 1 .. Len(batch') = {}
<1>1. Len(batch') = 0 /\ 1 .. 0 = {}
  BY EmptySeq
<1> QED BY <1>1 DEF EventsAreOfThisBatch

LEMMA DialIsSound ==
  ASSUME ReportsAreSound, batch = <<>>, NEW fd \in Fds, port \in Ports, Dial(fd, port),
         port' \in start_port .. end_port + 1,
         UNCHANGED <<batch, answered, timed_out>>
  PROVE  ReportsAreSound'
<1>1. /\ KernelIsSound' /\ opened' = opened
      /\ sock[fd] = "closed"
      /\ \A f \in Fds : f # fd => sock'[f] = sock[f] /\ dialed'[f] = dialed[f]
  BY DialOpens, OpenFdsAreFinite DEF ReportsAreSound
<1>2. NoneIsForgotten'
  BY <1>1 DEF ReportsAreSound, NoneIsForgotten
<1> QED BY <1>1, <1>2, NoEvents DEF ReportsAreSound, TypesAgree, NoneIsInvented

LEMMA ResolvedIsSound ==
  ASSUME ReportsAreSound, batch = <<>>, port \in Ports,
         \/ answered' = answered \cup {port} /\ opened' = opened \cup {port}
         \/ UNCHANGED <<answered, opened>>,
         port' \in start_port .. end_port + 1,
         UNCHANGED <<sock, dialed, timer_ready, horizon, batch, timed_out>>
  PROVE  ReportsAreSound' /\ OpenFds' = OpenFds
<1>1. KernelIsSound'
  BY DEF ReportsAreSound, KernelIsSound, KernelTypeOK
<1>2. NoneIsForgotten' /\ NoneIsInvented' /\ TypesAgree'
  BY DEF ReportsAreSound, NoneIsForgotten, NoneIsInvented, TypesAgree
<1> QED BY <1>1, <1>2, NoEvents DEF ReportsAreSound, OpenFds, FreeFds

LEMMA WaitIsSound ==
  ASSUME ReportsAreSound, batch' \in Batches, pc' = "dispatch",
         UNCHANGED <<kernelVars, port, answered, timed_out>>
  PROVE  /\ ReportsAreSound' /\ OpenFds' = OpenFds
         /\ timer_ready = FALSE => \A n \in 1 .. Len(batch') : batch'[n] # TimerEvent
<1>1. KernelTypeOK
  BY DEF ReportsAreSound, KernelIsSound
<1>2. PICK b \in Batches : batch' = b
  OBVIOUS
<1>3. /\ b \in Seq(Events)
      /\ \A n \in 1 .. Len(b) : b[n] \in ReadyEvents
      /\ \A m, n \in 1 .. Len(b) : m # n => b[m].fd # b[n].fd
  BY <1>1, BatchIsOfReady
<1>4. ASSUME NEW n \in 1 .. Len(b), b[n] # TimerEvent
      PROVE  /\ b[n].fd \in Fds /\ b[n].port = dialed[b[n].fd] /\ b[n].port \in Ports
             /\ sock[b[n].fd] \in {"connected", "refused"}
  <2>1. /\ b[n].fd \in Fds /\ b[n].port = dialed[b[n].fd]
        /\ sock[b[n].fd] \in {"connected", "refused"}
    BY <1>1, <1>3, <1>4, ReadyHasAnswer
  <2> QED BY <2>1 DEF ReportsAreSound, KernelIsSound
<1>5. EventsAreOfThisBatch'
  BY <1>2, <1>3, <1>4 DEF EventsAreOfThisBatch, kernelVars
<1>6. timer_ready = FALSE => \A n \in 1 .. Len(batch') : batch'[n] # TimerEvent
  BY <1>1, <1>2, <1>3, ReadyHasAnswer
<1>7. KernelIsSound' /\ OpenFds' = OpenFds
  BY DEF ReportsAreSound, KernelIsSound, KernelTypeOK, kernelVars, OpenFds, FreeFds
<1>8. TypesAgree' /\ NoneIsForgotten' /\ NoneIsInvented'
  BY <1>2, <1>3 DEF ReportsAreSound, TypesAgree, NoneIsForgotten, NoneIsInvented, kernelVars
<1> QED BY <1>5, <1>6, <1>7, <1>8 DEF ReportsAreSound

\* The events behind the first keep what they say, if the sockets they are
\* about do.
LEMMA TailKeepsEvents ==
  ASSUME EventsAreOfThisBatch, batch \in Seq(Events), batch # <<>>, batch' = Tail(batch),
         pc' \in {"dispatch", "sweep"}, UNCHANGED <<dialed, timed_out>>,
         \A n \in 2 .. Len(batch) :
           batch[n].fd \in Fds => sock'[batch[n].fd] = sock[batch[n].fd]
  PROVE  /\ EventsAreOfThisBatch'
         /\ \A n \in 1 .. Len(batch') : n + 1 \in 1 .. Len(batch) /\ batch'[n] = batch[n + 1]
<1>1. /\ Len(batch) \in Nat \ {0} /\ Len(batch') = Len(batch) - 1
      /\ \A n \in 1 .. Len(batch) - 1 : batch'[n] = batch[n + 1]
  BY TailOfBatch
<1>2. \A n \in 1 .. Len(batch') : n + 1 \in 2 .. Len(batch) /\ n + 1 \in 1 .. Len(batch)
  BY <1>1
<1>3. \A n \in 1 .. Len(batch') : batch'[n] = batch[n + 1]
  BY <1>1
<1>4. ASSUME NEW n \in 1 .. Len(batch'), batch'[n] # TimerEvent
      PROVE  /\ batch'[n].fd \in Fds
             /\ batch'[n].port = dialed'[batch'[n].fd] /\ batch'[n].port \in Ports
             /\ sock'[batch'[n].fd] # "pending"
             /\ sock'[batch'[n].fd] = "closed" => batch'[n].port \in timed_out'
  <2> DEFINE e == batch[n + 1]
  <2>1. batch'[n] = e /\ e # TimerEvent /\ n + 1 \in 2 .. Len(batch) /\ n + 1 \in 1 .. Len(batch)
    BY <1>2, <1>3, <1>4
  <2>2. /\ e.fd \in Fds /\ e.port = dialed[e.fd] /\ e.port \in Ports
        /\ sock[e.fd] # "pending"
        /\ sock[e.fd] = "closed" => e.port \in timed_out
    BY <2>1 DEF EventsAreOfThisBatch
  <2>3. sock'[e.fd] = sock[e.fd]
    BY <2>1, <2>2
  <2> QED BY <2>1, <2>2, <2>3
<1>5. \A m, n \in 1 .. Len(batch') : m # n => batch'[m].fd # batch'[n].fd
  <2> SUFFICES ASSUME NEW m \in 1 .. Len(batch'), NEW n \in 1 .. Len(batch'), m # n
               PROVE  batch'[m].fd # batch'[n].fd
    OBVIOUS
  <2>1. m + 1 # n + 1
    BY <1>1
  <2> QED BY <2>1, <1>2, <1>3 DEF EventsAreOfThisBatch
<1> QED BY <1>2, <1>3, <1>4, <1>5 DEF EventsAreOfThisBatch

\* The event of a socket is handled: it is reported unless it was refused.
LEMMA HandleIsSound ==
  ASSUME ReportsAreSound, batch # <<>>, Head(batch) # TimerEvent,
         Close(Head(batch).fd), batch' = Tail(batch), pc' = "dispatch",
         answered' = IF err(Head(batch).fd) = 0 THEN answered \cup {Head(batch).port} ELSE answered,
         UNCHANGED <<port, timed_out>>
  PROVE  /\ ReportsAreSound'
         /\ Head(batch).fd \in Fds
         /\ sock[Head(batch).fd] = "closed" => timed_out # {}
         /\ \A n \in 1 .. Len(batch') : n + 1 \in 1 .. Len(batch) /\ batch'[n] = batch[n + 1]
<1> DEFINE e == Head(batch)
<1>1. /\ e = batch[1] /\ 1 \in 1 .. Len(batch) /\ Tail(batch) \in Seq(Events)
      /\ batch \in Seq(Events) /\ Len(batch) \in Nat
  BY TailOfBatch DEF ReportsAreSound, TypesAgree
<1>2. /\ e.fd \in Fds /\ e.port = dialed[e.fd] /\ e.port \in Ports
      /\ sock[e.fd] # "pending"
      /\ sock[e.fd] = "closed" => e.port \in timed_out
  BY <1>1 DEF ReportsAreSound, EventsAreOfThisBatch
<1>3. \A n \in 2 .. Len(batch) : batch[n].fd # e.fd
  <2>1. \A n \in 2 .. Len(batch) : n \in 1 .. Len(batch) /\ n # 1
    BY <1>1
  <2> QED BY <1>1, <2>1 DEF ReportsAreSound, EventsAreOfThisBatch
<1>4. Close(e.fd) /\ answered' = IF err(e.fd) = 0 THEN answered \cup {e.port} ELSE answered
  OBVIOUS
<1> HIDE DEF e
<1>5. /\ KernelIsSound' /\ dialed' = dialed /\ opened' = opened
      /\ \A f \in Fds : sock'[f] = IF f = e.fd THEN "closed" ELSE sock[f]
  BY <1>2, <1>4, CloseCloses DEF ReportsAreSound
<1>6. /\ EventsAreOfThisBatch'
      /\ \A n \in 1 .. Len(batch') : n + 1 \in 1 .. Len(batch) /\ batch'[n] = batch[n + 1]
  BY <1>1, <1>3, <1>5, TailKeepsEvents DEF ReportsAreSound
<1>7. sock[e.fd] \in SockStates
  BY <1>2 DEF ReportsAreSound, KernelIsSound, KernelTypeOK
<1>8. err(e.fd) = 0 => e.port \in opened \cup timed_out
  BY <1>2, <1>7 DEF err, ECONNREFUSED, SockStates, ReportsAreSound, KernelIsSound
<1>9. sock[e.fd] = "connected" => err(e.fd) = 0
  BY DEF err
<1>10. NoneIsForgotten'
  BY <1>2, <1>4, <1>5, <1>9 DEF ReportsAreSound, NoneIsForgotten
<1>11. NoneIsInvented' /\ TypesAgree'
  BY <1>1, <1>2, <1>4, <1>5, <1>8 DEF ReportsAreSound, NoneIsInvented, TypesAgree
<1> QED BY <1>2, <1>5, <1>6, <1>10, <1>11 DEF ReportsAreSound, e

\* The sweep gives a port up and closes its socket.
LEMMA SweepIsSound ==
  ASSUME ReportsAreSound, NEW fd \in OpenFds, Close(fd), pc' = "sweep", pc = "sweep",
         timed_out' = timed_out \cup {dialed[fd]},
         UNCHANGED <<port, batch, answered>>
  PROVE  ReportsAreSound'
<1>1. fd \in Fds /\ sock[fd] # "closed"
  BY OpenFdsAreFinite DEF OpenFds
<1>2. /\ KernelIsSound' /\ dialed' = dialed /\ opened' = opened
      /\ \A f \in Fds : sock'[f] = IF f = fd THEN "closed" ELSE sock[f]
  BY <1>1, CloseCloses DEF ReportsAreSound
<1>3. dialed[fd] \in Ports
  BY <1>1 DEF ReportsAreSound, KernelIsSound
<1>4. EventsAreOfThisBatch'
  BY <1>1, <1>2 DEF ReportsAreSound, EventsAreOfThisBatch
<1>5. NoneIsForgotten' /\ NoneIsInvented' /\ TypesAgree'
  BY <1>1, <1>2, <1>3 DEF ReportsAreSound, NoneIsForgotten, NoneIsInvented, TypesAgree
<1> QED BY <1>2, <1>4, <1>5 DEF ReportsAreSound

\* The other end answers.
LEMMA RespondIsSound ==
  ASSUME ReportsAreSound, NEW fd \in Fds, Respond(fd),
         UNCHANGED <<port, pc, batch, answered, timed_out>>
  PROVE  ReportsAreSound' /\ OpenFds' = OpenFds /\ timer_ready' = timer_ready
<1>1. /\ KernelIsSound' /\ OpenFds' = OpenFds /\ timer_ready' = timer_ready
      /\ sock[fd] = "pending" /\ sock'[fd] \in {"connected", "refused"}
      /\ \A f \in Fds : f # fd => sock'[f] = sock[f]
      /\ opened' = IF sock'[fd] = "connected" THEN opened \cup {dialed[fd]} ELSE opened
      /\ dialed' = dialed
  BY RespondKeepsOpen DEF ReportsAreSound
<1>2. EventsAreOfThisBatch'
  BY <1>1 DEF ReportsAreSound, EventsAreOfThisBatch
<1>3. NoneIsForgotten'
  BY <1>1 DEF ReportsAreSound, NoneIsForgotten
<1>4. NoneIsInvented' /\ TypesAgree'
  BY <1>1 DEF ReportsAreSound, NoneIsInvented, TypesAgree
<1> QED BY <1>1, <1>2, <1>3, <1>4 DEF ReportsAreSound

\* Only the program counter, the port, the clock or the timer moves.
LEMMA QuietIsSound ==
  ASSUME ReportsAreSound, UNCHANGED <<sock, dialed, opened, batch, answered, timed_out>>,
         timer_ready' \in BOOLEAN, horizon' \in start_port .. end_port + 1,
         port' \in start_port .. end_port + 1,
         batch # <<>> => pc' \in {"dispatch", "sweep"}
  PROVE  ReportsAreSound' /\ OpenFds' = OpenFds
BY DEF ReportsAreSound, KernelIsSound, KernelTypeOK, TypesAgree, EventsAreOfThisBatch,
       NoneIsForgotten, NoneIsInvented, OpenFds, FreeFds
-----------------------------------------------------------------------------
(* knocker-epoll.                                                            *)

\* The program sees this kernel.
LEMMA EpollKernel ==
  /\ Epoll!OpenFds = OpenFds /\ Epoll!Batches = Batches
  /\ \A S : Epoll!Cardinality(S) = Cardinality(S)
  /\ \A fd \in Fds : (Epoll!Dial(fd, port) => Dial(fd, port)) /\ (Epoll!Respond(fd) => Respond(fd))
  /\ \A fd : (Epoll!Close(fd) => Close(fd)) /\ Epoll!err(fd) = err(fd)
<1>1. \A S : Epoll!Cardinality(S) = Cardinality(S)
  BY DEF Epoll!Cardinality, Cardinality
<1>2. Epoll!ReadyEvents = ReadyEvents
  BY DEF Epoll!ReadyEvents, ReadyEvents, Epoll!TimerEvent, TimerEvent
<1>3. Epoll!Batches = Batches
  BY <1>1, <1>2 DEF Epoll!Batches, Batches
<1>4. Epoll!FreeFds = FreeFds
  BY DEF Epoll!FreeFds, FreeFds
<1>5. ASSUME NEW fd \in Fds, Epoll!Dial(fd, port) PROVE Dial(fd, port)
  BY <1>4, <1>5 DEF Epoll!Dial, Epoll!Lowest, Dial, Lowest
<1>6. ASSUME NEW fd \in Fds, Epoll!Respond(fd) PROVE Respond(fd)
  BY <1>6 DEF Epoll!Respond, Respond
<1>7. ASSUME NEW fd, Epoll!Close(fd) PROVE Close(fd)
  BY <1>7 DEF Epoll!Close, Close
<1>8. ASSUME NEW fd PROVE Epoll!err(fd) = err(fd)
  BY DEF Epoll!err, err, Epoll!ECONNREFUSED, ECONNREFUSED
<1> QED BY <1>1, <1>3, <1>4, <1>5, <1>6, <1>7, <1>8 DEF Epoll!OpenFds, OpenFds

LEMMA EpollStarts ==
  ASSUME Epoll!Init, NoMap
  PROVE  EpollInvariant
<1>1. KernelInit
  BY DEF Epoll!Init, Epoll!KernelInit, KernelInit
<1>2. /\ port = start_port /\ batch = <<>> /\ answered = {} /\ timed_out = {}
      /\ in_flight = 0 /\ pc = "dial"
  BY DEF Epoll!Init, NoMap
<1>3. ReportsAreSound /\ OpenFds = {} /\ Cardinality(OpenFds) = 0
  BY <1>1, <1>2, StartIsSound
<1>4. 1 .. Len(batch) = {} /\ timer_ready = FALSE /\ port \in Ports
  <2>1. Len(batch) = 0 /\ 1 .. 0 = {}
    BY <1>2, EmptySeq
  <2> QED BY <1>1, <1>2, <2>1, PortsAreNaturals DEF KernelInit, Ports
<1> QED BY <1>2, <1>3, <1>4, KnockerAssumption DEF EpollInvariant

LEMMA EpollStep ==
  ASSUME EpollInvariant, Epoll!Next, UNCHANGED timed_out
  PROVE  EpollInvariant'
<1>1. /\ ReportsAreSound /\ KernelIsSound
      /\ in_flight \in Nat /\ MAX_IN_FLIGHT \in Nat \ {0}
      /\ port \in Nat /\ port \in start_port .. end_port + 1
      /\ batch # <<>> => pc = "dispatch"
  BY OpenFdsAreFinite, KnockerAssumption, PortsAreNaturals
     DEF EpollInvariant, ReportsAreSound, TypesAgree, EventsAreOfThisBatch
<1>2. CASE Epoll!DialInProgress
  <2>1. PICK fd \in Fds : Dial(fd, port)
    BY <1>2, EpollKernel DEF Epoll!DialInProgress
  <2>2. /\ pc = "dial" /\ in_flight' = in_flight + 1 /\ pc' = "drain"
        /\ UNCHANGED <<port, batch, answered>>
    BY <1>2 DEF Epoll!DialInProgress
  <2>3. port \in Ports /\ batch = <<>> /\ in_flight < MAX_IN_FLIGHT /\ 1 .. Len(batch') = {}
    BY <1>1, <2>2, NoEvents DEF EpollInvariant
  <2>4. ReportsAreSound'
    BY <1>1, <2>1, <2>2, <2>3, DialIsSound
  <2>5. Cardinality(OpenFds') = Cardinality(OpenFds) + 1 /\ timer_ready' = timer_ready
    BY <1>1, <2>1, <2>3, DialOpens
  <2> QED BY <1>1, <2>2, <2>3, <2>4, <2>5 DEF EpollInvariant
<1>3. CASE Epoll!DialResolved
  <2>1. /\ pc = "dial" /\ pc' = "drain"
        /\ \/ answered' = answered \cup {port} /\ opened' = opened \cup {port}
           \/ UNCHANGED <<answered, opened>>
        /\ UNCHANGED <<sock, dialed, timer_ready, horizon, in_flight, port, batch>>
    BY <1>3 DEF Epoll!DialResolved
  <2>2. port \in Ports /\ batch = <<>> /\ 1 .. Len(batch') = {}
    BY <1>1, <2>1, NoEvents DEF EpollInvariant
  <2>3. ReportsAreSound' /\ OpenFds' = OpenFds
    BY <1>1, <2>1, <2>2, ResolvedIsSound
  <2> QED BY <2>1, <2>2, <2>3 DEF EpollInvariant
<1>4. CASE Epoll!DialFails
  <2>1. /\ pc = "dial" /\ pc' = "EXIT_FAILURE"
        /\ UNCHANGED <<sock, dialed, timer_ready, horizon, opened, in_flight, port, batch, answered>>
    BY <1>4 DEF Epoll!DialFails, Epoll!kernelVars
  <2>2. batch = <<>> /\ 1 .. Len(batch') = {}
    BY <1>1, <2>1, NoEvents
  <2>3. ReportsAreSound' /\ OpenFds' = OpenFds
    BY <1>1, <2>1, <2>2, QuietIsSound DEF KernelIsSound, KernelTypeOK
  <2> QED BY <2>1, <2>2, <2>3 DEF EpollInvariant
<1>5. CASE Epoll!Wait
  <2>1. /\ pc = "drain" /\ batch' \in Batches /\ pc' = "dispatch"
        /\ UNCHANGED <<kernelVars, in_flight, port, answered>>
    BY <1>5, EpollKernel DEF Epoll!Wait, Epoll!kernelVars, kernelVars
  <2>2. /\ ReportsAreSound' /\ OpenFds' = OpenFds
        /\ \A n \in 1 .. Len(batch') : batch'[n] # TimerEvent
    BY <1>1, <2>1, WaitIsSound DEF EpollInvariant
  <2> QED BY <2>1, <2>2 DEF EpollInvariant, kernelVars
<1>6. CASE Epoll!Handle
  <2> DEFINE e == Head(batch)
  <2>1. /\ pc = "dispatch" /\ batch # <<>>
        /\ answered' = IF err(e.fd) = 0 THEN answered \cup {e.port} ELSE answered
        /\ Close(e.fd) /\ in_flight' = in_flight - 1 /\ batch' = Tail(batch)
        /\ UNCHANGED <<port, pc>>
    BY <1>6, EpollKernel DEF Epoll!Handle
  <2>2. e = batch[1] /\ 1 \in 1 .. Len(batch)
    BY <1>1, <2>1, TailOfBatch DEF ReportsAreSound, TypesAgree
  <2>3. e # TimerEvent
    BY <2>2 DEF EpollInvariant
  <2>4. /\ ReportsAreSound' /\ e.fd \in Fds /\ sock[e.fd] # "closed"
        /\ \A n \in 1 .. Len(batch') : n + 1 \in 1 .. Len(batch) /\ batch'[n] = batch[n + 1]
    BY <1>1, <2>1, <2>3, HandleIsSound DEF EpollInvariant
  <2> HIDE DEF e
  <2>5. Cardinality(OpenFds') = Cardinality(OpenFds) - 1 /\ timer_ready' = timer_ready
    <3>1. e.fd \in OpenFds
      BY <2>4, OpenFdsAreFinite
    <3> QED BY <1>1, <2>1, <2>4, <3>1, CloseCloses
  <2>6. \A n \in 1 .. Len(batch') : batch'[n] # TimerEvent
    BY <2>4 DEF EpollInvariant
  <2> QED BY <1>1, <2>1, <2>4, <2>5, <2>6 DEF EpollInvariant
<1>7. CASE Epoll!BatchDone
  <2>1. /\ pc = "dispatch" /\ batch = <<>> /\ pc' = "drain"
        /\ UNCHANGED <<sock, dialed, timer_ready, horizon, opened, in_flight, port, batch, answered>>
    BY <1>7 DEF Epoll!BatchDone, Epoll!kernelVars
  <2>2. ReportsAreSound' /\ OpenFds' = OpenFds
    BY <1>1, <2>1, QuietIsSound DEF KernelIsSound, KernelTypeOK
  <2> QED BY <2>1, <2>2 DEF EpollInvariant
<1>8. CASE Epoll!NextPort
  <2>1. /\ pc = "drain" /\ ~Epoll!MustWait /\ port' = port + 1
        /\ pc' = IF port' <= end_port THEN "dial" ELSE "EXIT_SUCCESS"
        /\ UNCHANGED <<sock, dialed, timer_ready, horizon, opened, in_flight, batch, answered>>
    BY <1>8 DEF Epoll!NextPort, Epoll!kernelVars
  <2>2. in_flight < MAX_IN_FLIGHT /\ (port = end_port => in_flight = 0)
    BY <1>1, <2>1 DEF Epoll!MustWait
  <2>3. batch = <<>> /\ port' \in start_port .. end_port + 1
        /\ (pc' = "dial" => port' \in Ports) /\ (pc' = "EXIT_SUCCESS" => port = end_port /\ port' = end_port + 1)
    <3>1. port \in start_port .. end_port
      BY <2>1 DEF EpollInvariant, Ports
    <3> QED BY <1>1, <2>1, <3>1, PortsAreNaturals DEF Ports
  <2>4. ReportsAreSound' /\ OpenFds' = OpenFds
    BY <1>1, <2>1, <2>3, QuietIsSound DEF KernelIsSound, KernelTypeOK
  <2>5. pc' = "EXIT_SUCCESS" => OpenFds' = {}
    BY <2>2, <2>3, <2>4, OpenFdsAreFinite DEF EpollInvariant
  <2>6. pc' \in {"dial", "EXIT_SUCCESS"}
    BY <2>1
  <2> QED BY <1>1, <2>1, <2>2, <2>3, <2>4, <2>5, <2>6 DEF EpollInvariant
<1>9. ASSUME NEW fd \in Fds, Epoll!Answer(fd) PROVE EpollInvariant'
  <2>1. Respond(fd) /\ UNCHANGED <<in_flight, port, pc, batch, answered>>
    BY <1>9, EpollKernel DEF Epoll!Answer, Epoll!progVars
  <2>2. ReportsAreSound' /\ OpenFds' = OpenFds /\ timer_ready' = timer_ready
    BY <1>1, <2>1, RespondIsSound
  <2> QED BY <2>1, <2>2 DEF EpollInvariant
<1>10. CASE UNCHANGED Epoll!vars
  <2>1. UNCHANGED <<sock, dialed, timer_ready, horizon, opened, in_flight, port, pc, batch, answered>>
    BY <1>10 DEF Epoll!vars, Epoll!kernelVars, Epoll!progVars
  <2>2. ReportsAreSound' /\ OpenFds' = OpenFds
    BY <1>1, <2>1, QuietIsSound DEF KernelIsSound, KernelTypeOK
  <2> QED BY <2>1, <2>2 DEF EpollInvariant
<1> QED
  BY <1>2, <1>3, <1>4, <1>5, <1>6, <1>7, <1>8, <1>9, <1>10 DEF Epoll!Next, Epoll!Program
-----------------------------------------------------------------------------
(* knocker-epoll-timer.                                                      *)

\* The program sees this kernel.
LEMMA TimerKernel ==
  /\ Timer!OpenFds = OpenFds /\ Timer!Batches = Batches /\ Timer!TimerEvent = TimerEvent
  /\ \A S : Timer!Cardinality(S) = Cardinality(S)
  /\ \A fd \in Fds : (Timer!Dial(fd, port) => Dial(fd, port)) /\ (Timer!Respond(fd) => Respond(fd))
  /\ \A fd : (Timer!Close(fd) => Close(fd)) /\ Timer!err(fd) = err(fd)
<1>1. \A S : Timer!Cardinality(S) = Cardinality(S)
  BY DEF Timer!Cardinality, Cardinality
<1>2. Timer!ReadyEvents = ReadyEvents /\ Timer!TimerEvent = TimerEvent
  BY DEF Timer!ReadyEvents, ReadyEvents, Timer!TimerEvent, TimerEvent
<1>3. Timer!Batches = Batches
  BY <1>1, <1>2 DEF Timer!Batches, Batches
<1>4. Timer!FreeFds = FreeFds
  BY DEF Timer!FreeFds, FreeFds
<1>5. ASSUME NEW fd \in Fds, Timer!Dial(fd, port) PROVE Dial(fd, port)
  BY <1>4, <1>5 DEF Timer!Dial, Timer!Lowest, Dial, Lowest
<1>6. ASSUME NEW fd \in Fds, Timer!Respond(fd) PROVE Respond(fd)
  BY <1>6 DEF Timer!Respond, Respond
<1>7. ASSUME NEW fd, Timer!Close(fd) PROVE Close(fd)
  BY <1>7 DEF Timer!Close, Close
<1>8. ASSUME NEW fd PROVE Timer!err(fd) = err(fd)
  BY DEF Timer!err, err, Timer!ECONNREFUSED, ECONNREFUSED
<1> QED BY <1>1, <1>2, <1>3, <1>4, <1>5, <1>6, <1>7, <1>8 DEF Timer!OpenFds, OpenFds

LEMMA MapScannerStarts ==
  ASSUME Timer!Init
  PROVE  MapScannerInvariant
<1>1. KernelInit
  BY DEF Timer!Init, Timer!KernelInit, KernelInit
<1>2. /\ port = start_port /\ batch = <<>> /\ answered = {} /\ timed_out = {}
      /\ active_socks = {} /\ pc = "fill" /\ now = start_port
  BY DEF Timer!Init
<1>3. ReportsAreSound /\ OpenFds = {} /\ Cardinality(OpenFds) = 0
  BY <1>1, <1>2, StartIsSound
<1> QED BY <1>2, <1>3, PortsAreNaturals, KnockerAssumption DEF MapScannerInvariant

\* The steps that leave sockets and reports alone.
LEMMA MapScannerRests ==
  ASSUME MapScannerInvariant,
         UNCHANGED <<sock, dialed, opened, active_socks, port, batch, answered, timed_out, now>>,
         timer_ready' \in BOOLEAN, horizon' \in start_port .. end_port + 1,
         pc' \in {"fill", "dispatch", "sweep", "EXIT_SUCCESS", "EXIT_FAILURE"},
         batch # <<>> => pc' \in {"dispatch", "sweep"},
         pc' = "EXIT_SUCCESS" => OpenFds = {} /\ port = end_port + 1
  PROVE  MapScannerInvariant'
<1>1. ReportsAreSound' /\ OpenFds' = OpenFds
  BY QuietIsSound DEF MapScannerInvariant, ReportsAreSound, TypesAgree
<1> QED BY <1>1 DEF MapScannerInvariant

LEMMA MapScannerProgramStep ==
  ASSUME MapScannerInvariant, Timer!Program
  PROVE  MapScannerInvariant'
<1>1. /\ ReportsAreSound /\ KernelIsSound
      /\ Cardinality(OpenFds) \in Nat /\ MAX_IN_FLIGHT \in Nat \ {0}
      /\ port \in Nat /\ port \in start_port .. end_port + 1
      /\ batch # <<>> => pc \in {"dispatch", "sweep"}
      /\ timer_ready \in BOOLEAN /\ horizon \in start_port .. end_port + 1
      /\ OpenFds \subseteq Fds
  BY OpenFdsAreFinite, KnockerAssumption, PortsAreNaturals
     DEF MapScannerInvariant, ReportsAreSound, TypesAgree, EventsAreOfThisBatch,
         KernelIsSound, KernelTypeOK, OpenFds
<1>2. Timer!MayDial => /\ pc = "fill" /\ batch = <<>> /\ Cardinality(OpenFds) < MAX_IN_FLIGHT
                       /\ port \in Ports /\ port + 1 \in start_port .. end_port + 1
  <2> SUFFICES ASSUME Timer!MayDial
               PROVE  /\ pc = "fill" /\ batch = <<>> /\ Cardinality(OpenFds) < MAX_IN_FLIGHT
                      /\ port \in Ports /\ port + 1 \in start_port .. end_port + 1
    OBVIOUS
  <2>1. pc = "fill" /\ port <= end_port /\ Cardinality(active_socks) < MAX_IN_FLIGHT
    BY TimerKernel DEF Timer!MayDial
  <2>2. batch = <<>> /\ Cardinality(OpenFds) < MAX_IN_FLIGHT
    BY <1>1, <2>1 DEF MapScannerInvariant
  <2> QED BY <1>1, <2>1, <2>2, PortsAreNaturals DEF Ports
<1>3. CASE Timer!DialInProgress
  <2>1. PICK fd \in Fds : Dial(fd, port) /\ active_socks' = active_socks \cup {fd}
    BY <1>3, TimerKernel DEF Timer!DialInProgress
  <2>2. /\ Timer!MayDial /\ port' = port + 1
        /\ UNCHANGED <<pc, batch, now, answered, timed_out>>
    BY <1>3 DEF Timer!DialInProgress
  <2>3. ReportsAreSound'
    BY <1>1, <1>2, <2>1, <2>2, DialIsSound
  <2>4. OpenFds' = OpenFds \cup {fd} /\ Cardinality(OpenFds') = Cardinality(OpenFds) + 1
    BY <1>1, <1>2, <2>1, <2>2, DialOpens
  <2>5. Cardinality(OpenFds') <= MAX_IN_FLIGHT
    BY <1>1, <1>2, <2>2, <2>4
  <2> QED BY <1>2, <2>1, <2>2, <2>3, <2>4, <2>5 DEF MapScannerInvariant
<1>4. CASE Timer!DialResolved
  <2>1. /\ Timer!MayDial /\ port' = port + 1
        /\ \/ answered' = answered \cup {port} /\ opened' = opened \cup {port}
           \/ UNCHANGED <<answered, opened>>
        /\ UNCHANGED <<sock, dialed, timer_ready, horizon, active_socks, pc, batch, now, timed_out>>
    BY <1>4 DEF Timer!DialResolved
  <2>2. ReportsAreSound' /\ OpenFds' = OpenFds
    BY <1>1, <1>2, <2>1, ResolvedIsSound
  <2> QED BY <1>2, <2>1, <2>2 DEF MapScannerInvariant
<1>5. CASE Timer!DialFails
  <2>1. /\ Timer!MayDial /\ pc' = "EXIT_FAILURE"
        /\ UNCHANGED <<sock, dialed, timer_ready, horizon, opened, active_socks, port, batch, now,
                       answered, timed_out>>
    BY <1>5 DEF Timer!DialFails, Timer!kernelVars
  <2> QED BY <1>1, <1>2, <2>1, MapScannerRests
<1>6. CASE Timer!Wait
  <2>1. /\ batch' \in Batches /\ pc' = "dispatch"
        /\ UNCHANGED <<kernelVars, active_socks, port, now, answered, timed_out>>
    BY <1>6, TimerKernel DEF Timer!Wait, Timer!kernelVars, kernelVars
  <2>2. ReportsAreSound' /\ OpenFds' = OpenFds
    BY <1>1, <2>1, WaitIsSound
  <2> QED BY <2>1, <2>2 DEF MapScannerInvariant
<1>7. CASE Timer!StartSweep
  <2>1. /\ batch # <<>> /\ batch' = Tail(batch) /\ pc' = "sweep"
        /\ timer_ready' = FALSE /\ now' = horizon
        /\ UNCHANGED <<sock, dialed, horizon, opened, active_socks, port, answered, timed_out>>
    BY <1>7 DEF Timer!StartSweep
  <2>2. batch \in Seq(Events) /\ batch' \in Seq(Events) /\ EventsAreOfThisBatch
    BY <1>1, <2>1, TailOfBatch DEF ReportsAreSound, TypesAgree
  <2>3. EventsAreOfThisBatch'
    BY <2>1, <2>2, TailKeepsEvents
  <2>4. KernelIsSound' /\ OpenFds' = OpenFds
    BY <1>1, <2>1 DEF KernelIsSound, KernelTypeOK, OpenFds, FreeFds
  <2>5. TypesAgree' /\ NoneIsForgotten' /\ NoneIsInvented'
    BY <1>1, <2>1, <2>2 DEF ReportsAreSound, TypesAgree, NoneIsForgotten, NoneIsInvented
  <2> QED BY <1>1, <2>1, <2>3, <2>4, <2>5 DEF MapScannerInvariant, ReportsAreSound
<1>8. CASE Timer!SweepOne
  <2>1. PICK fd \in active_socks :
          /\ Close(fd) /\ active_socks' = active_socks \ {fd}
          /\ timed_out' = timed_out \cup {dialed[fd]}
    BY <1>8, TimerKernel DEF Timer!SweepOne, Timer!Expired
  <2>2. pc = "sweep" /\ UNCHANGED <<port, pc, batch, now, answered>>
    BY <1>8 DEF Timer!SweepOne
  <2>3. fd \in OpenFds
    BY <2>1 DEF MapScannerInvariant
  <2>4. ReportsAreSound'
    BY <1>1, <2>1, <2>2, <2>3, SweepIsSound
  <2>5. OpenFds' = OpenFds \ {fd} /\ Cardinality(OpenFds') = Cardinality(OpenFds) - 1
    BY <1>1, <2>1, <2>3, CloseCloses
  <2>6. Cardinality(OpenFds') <= MAX_IN_FLIGHT
    BY <1>1, <2>5 DEF MapScannerInvariant
  <2> QED BY <2>1, <2>2, <2>4, <2>5, <2>6 DEF MapScannerInvariant
<1>9. CASE Timer!EndSweep
  <2>1. /\ pc' = "dispatch"
        /\ UNCHANGED <<sock, dialed, timer_ready, horizon, opened, active_socks, port, batch, now,
                       answered, timed_out>>
    BY <1>9 DEF Timer!EndSweep, Timer!kernelVars
  <2> QED BY <1>1, <2>1, MapScannerRests
<1>10. CASE Timer!Handle
  <2> DEFINE e == Head(batch)
  <2>1. /\ pc = "dispatch" /\ batch # <<>> /\ e # TimerEvent
        /\ answered' = IF err(e.fd) = 0 THEN answered \cup {e.port} ELSE answered
        /\ Close(e.fd) /\ active_socks' = active_socks \ {e.fd} /\ batch' = Tail(batch)
        /\ UNCHANGED <<port, pc, now, timed_out>>
    BY <1>10, TimerKernel DEF Timer!Handle
  <2>2. ReportsAreSound' /\ e.fd \in Fds
    BY <1>1, <2>1, HandleIsSound
  <2> HIDE DEF e
  <2>3. /\ OpenFds' = OpenFds \ {e.fd}
        /\ Cardinality(OpenFds') \in {Cardinality(OpenFds) - 1, Cardinality(OpenFds)}
    BY <1>1, <2>1, <2>2, CloseCloses
  <2>4. Cardinality(OpenFds') <= MAX_IN_FLIGHT
    BY <1>1, <2>3 DEF MapScannerInvariant
  <2> QED BY <2>1, <2>2, <2>3, <2>4 DEF MapScannerInvariant
<1>11. CASE Timer!BatchDone
  <2>1. /\ pc = "dispatch" /\ batch = <<>>
        /\ pc' = IF port <= end_port \/ active_socks # {} THEN "fill" ELSE "EXIT_SUCCESS"
        /\ UNCHANGED <<sock, dialed, timer_ready, horizon, opened, active_socks, port, batch, now,
                       answered, timed_out>>
    BY <1>11 DEF Timer!BatchDone, Timer!kernelVars
  <2>2. pc' = "EXIT_SUCCESS" => OpenFds = {} /\ port = end_port + 1
    BY <1>1, <2>1, PortsAreNaturals DEF MapScannerInvariant
  <2>3. pc' \in {"fill", "EXIT_SUCCESS"}
    BY <2>1
  <2> QED BY <1>1, <2>1, <2>2, <2>3, MapScannerRests
<1> QED
  BY <1>3, <1>4, <1>5, <1>6, <1>7, <1>8, <1>9, <1>10, <1>11 DEF Timer!Program

LEMMA MapScannerStep ==
  ASSUME MapScannerInvariant, Timer!Next
  PROVE  MapScannerInvariant'
<1>1. /\ ReportsAreSound /\ timer_ready \in BOOLEAN /\ horizon \in start_port .. end_port + 1
      /\ port \in start_port .. end_port + 1
      /\ batch # <<>> => pc \in {"dispatch", "sweep"}
      /\ pc \in {"fill", "dispatch", "sweep", "EXIT_SUCCESS", "EXIT_FAILURE"}
      /\ pc = "EXIT_SUCCESS" => OpenFds = {} /\ port = end_port + 1
  BY DEF MapScannerInvariant, ReportsAreSound, KernelIsSound, KernelTypeOK, TypesAgree,
     EventsAreOfThisBatch
<1>2. CASE Timer!Program
  BY <1>2, MapScannerProgramStep
<1>3. CASE Timer!Meanwhile(Timer!World(port))
  <2>1. UNCHANGED <<active_socks, port, pc, batch, now, answered, timed_out>>
    BY <1>3 DEF Timer!Meanwhile, Timer!progVars
  <2>2. ASSUME NEW fd \in Fds, Timer!Respond(fd) PROVE MapScannerInvariant'
    <3>1. Respond(fd)
      BY <2>2, TimerKernel
    <3>2. ReportsAreSound' /\ OpenFds' = OpenFds
      BY <1>1, <2>1, <3>1, RespondIsSound
    <3> QED BY <2>1, <3>2 DEF MapScannerInvariant
  <2>3. CASE Timer!Pulse
    <3>1. timer_ready' = TRUE /\ UNCHANGED <<sock, dialed, horizon, opened>>
      BY <2>3 DEF Timer!Pulse
    <3> QED BY <1>1, <2>1, <3>1, MapScannerRests
  <2>4. CASE Timer!TimePasses(port)
    <3>1. horizon' \in start_port .. end_port + 1 /\ UNCHANGED <<sock, dialed, timer_ready, opened>>
      BY <1>1, <2>4, PortsAreNaturals DEF Timer!TimePasses
    <3> QED BY <1>1, <2>1, <3>1, MapScannerRests
  <2> QED BY <1>3, <2>2, <2>3, <2>4 DEF Timer!Meanwhile, Timer!World
<1>4. CASE UNCHANGED Timer!vars
  <2>1. UNCHANGED <<sock, dialed, timer_ready, horizon, opened, active_socks, port, pc, batch, now,
                    answered, timed_out>>
    BY <1>4 DEF Timer!vars, Timer!kernelVars, Timer!progVars
  <2> QED BY <1>1, <2>1, MapScannerRests
<1> QED BY <1>2, <1>3, <1>4 DEF Timer!Next
-----------------------------------------------------------------------------
(* knocker.                                                                  *)

\* The program sees this kernel.
LEMMA BlockingKernel ==
  /\ Blocking!OpenFds = OpenFds
  /\ \A S : Blocking!Cardinality(S) = Cardinality(S)
  /\ \A fd \in Fds : /\ Blocking!Dial(fd, port) => Dial(fd, port)
                     /\ Blocking!Respond(fd) => Respond(fd)
                     /\ Blocking!Close(fd) => Close(fd)
<1>1. \A S : Blocking!Cardinality(S) = Cardinality(S)
  BY DEF Blocking!Cardinality, Cardinality
<1>2. Blocking!FreeFds = FreeFds
  BY DEF Blocking!FreeFds, FreeFds
<1>3. ASSUME NEW fd \in Fds, Blocking!Dial(fd, port) PROVE Dial(fd, port)
  BY <1>2, <1>3 DEF Blocking!Dial, Blocking!Lowest, Dial, Lowest
<1>4. ASSUME NEW fd \in Fds, Blocking!Respond(fd) PROVE Respond(fd)
  BY <1>4 DEF Blocking!Respond, Respond
<1>5. ASSUME NEW fd \in Fds, Blocking!Close(fd) PROVE Close(fd)
  BY <1>5 DEF Blocking!Close, Close
<1> QED BY <1>1, <1>2, <1>3, <1>4, <1>5 DEF Blocking!OpenFds, OpenFds

LEMMA BlockingStarts ==
  ASSUME Blocking!Init
  PROVE  BlockingInvariant
<1>1. KernelInit /\ port = start_port /\ pc = "dial" /\ answered = {}
  BY DEF Blocking!Init, Blocking!KernelInit, KernelInit
<1>2. KernelIsSound
  BY <1>1, PortsAreNaturals DEF KernelInit, KernelIsSound, KernelTypeOK, SockStates
<1>3. OpenFds = {} /\ opened = {}
  BY <1>1 DEF KernelInit, OpenFds, FreeFds
<1>4. port \in Ports /\ port \in start_port .. end_port + 1
  BY <1>1, PortsAreNaturals DEF Ports
<1> QED BY <1>1, <1>2, <1>3, <1>4 DEF BlockingInvariant

LEMMA BlockingStep ==
  ASSUME BlockingInvariant, Blocking!Next
  PROVE  BlockingInvariant'
<1>1. /\ KernelIsSound /\ port \in Nat /\ port \in start_port .. end_port + 1
      /\ \A p \in opened : p \in Nat /\ start_port <= p
  BY PortsAreNaturals DEF BlockingInvariant, KernelIsSound, KernelTypeOK, Ports
<1>2. CASE Blocking!Connect
  <2>1. PICK fd \in Fds : Dial(fd, port)
    BY <1>2, BlockingKernel DEF Blocking!Connect
  <2>2. pc = "dial" /\ pc' = "connecting" /\ UNCHANGED <<port, answered>>
    BY <1>2 DEF Blocking!Connect
  <2>3. OpenFds = {} /\ port \in Ports
    BY <2>2 DEF BlockingInvariant
  <2>4. /\ KernelIsSound' /\ OpenFds' = {fd} /\ opened' = opened
        /\ \A f \in Fds : f # fd => sock'[f] = sock[f] /\ dialed'[f] = dialed[f]
        /\ dialed'[fd] = port
    BY <1>1, <2>1, <2>3, DialOpens
  <2>5. \A f \in Fds : sock[f] # "connected"
    BY <2>3, OpenFdsAreFinite
  <2>6. \A p \in opened : p < port
    BY <2>5 DEF BlockingInvariant
  <2> QED BY <1>1, <2>2, <2>3, <2>4, <2>6 DEF BlockingInvariant
<1>3. CASE Blocking!DialFails
  <2>1. /\ pc = "dial" /\ pc' = "EXIT_FAILURE"
        /\ UNCHANGED <<sock, dialed, timer_ready, horizon, opened, port, answered>>
    BY <1>3 DEF Blocking!DialFails, Blocking!kernelVars
  <2>2. KernelIsSound' /\ OpenFds' = OpenFds
    BY <1>1, <2>1 DEF KernelIsSound, KernelTypeOK, OpenFds, FreeFds
  <2> QED BY <2>1, <2>2 DEF BlockingInvariant
<1>4. ASSUME NEW fd \in Fds, Blocking!Connected(fd) PROVE BlockingInvariant'
  <2>1. /\ pc = "connecting" /\ dialed[fd] = port /\ sock[fd] \in {"connected", "refused"}
        /\ Close(fd)
        /\ answered' = IF sock[fd] = "connected" THEN answered \cup {port} ELSE answered
        /\ port' = port + 1
        /\ pc' = IF port' <= end_port THEN "dial" ELSE "EXIT_SUCCESS"
    BY <1>4, BlockingKernel DEF Blocking!Connected
  <2>2. OpenFds = {fd} /\ port \in Ports
    BY <2>1, OpenFdsAreFinite DEF BlockingInvariant
  <2>3. /\ KernelIsSound' /\ OpenFds' = {} /\ opened' = opened
    BY <1>1, <2>1, <2>2, CloseCloses
  <2>4. \A f \in Fds : f # fd => sock[f] # "connected"
    BY <2>2, OpenFdsAreFinite
  <2>5. \A p \in opened : p < port + 1 /\ (p < port \/ (p = port /\ sock[fd] = "connected"))
    BY <1>1, <2>1, <2>4 DEF BlockingInvariant
  <2>6. sock[fd] = "connected" => port \in opened
    BY <1>1, <2>1 DEF KernelIsSound
  <2>7. answered' = opened \cap (start_port .. (port + 1) - 1)
    <3>1. (port + 1) - 1 = port /\ start_port .. port = (start_port .. port - 1) \cup {port}
      BY <1>1, PortsAreNaturals
    <3>2. sock[fd] # "connected" => port \notin opened
      BY <1>1, <2>5
    <3> QED BY <2>1, <2>6, <3>1, <3>2 DEF BlockingInvariant
  <2>8. /\ port' \in start_port .. end_port + 1
        /\ pc' \in {"dial", "EXIT_SUCCESS"}
        /\ pc' = "dial" => port' \in Ports
    BY <1>1, <2>1, <2>2, PortsAreNaturals DEF Ports
  <2> QED BY <2>1, <2>3, <2>5, <2>7, <2>8 DEF BlockingInvariant
<1>5. ASSUME NEW fd \in Fds, Blocking!Answer(fd) PROVE BlockingInvariant'
  <2>1. Respond(fd) /\ UNCHANGED <<port, pc, answered>>
    BY <1>5, BlockingKernel DEF Blocking!Answer
  <2>2. /\ KernelIsSound' /\ OpenFds' = OpenFds
        /\ sock[fd] = "pending" /\ sock'[fd] \in {"connected", "refused"}
        /\ \A f \in Fds : f # fd => sock'[f] = sock[f]
        /\ opened' = IF sock'[fd] = "connected" THEN opened \cup {dialed[fd]} ELSE opened
        /\ dialed' = dialed
    BY <1>1, <2>1, RespondKeepsOpen
  <2>3. pc = "connecting" /\ dialed[fd] = port
    BY <2>2, OpenFdsAreFinite DEF BlockingInvariant
  <2>4. \A p \in opened' : p < port \/ \E f \in Fds : sock'[f] = "connected" /\ dialed[f] = p
    BY <2>2 DEF BlockingInvariant
  <2>5. answered = opened' \cap (start_port .. port - 1)
    BY <1>1, <2>2, <2>3, PortsAreNaturals DEF BlockingInvariant
  <2> QED BY <2>1, <2>2, <2>4, <2>5 DEF BlockingInvariant
<1>6. CASE UNCHANGED Blocking!vars
  <2>1. UNCHANGED <<sock, dialed, timer_ready, horizon, opened, port, pc, answered>>
    BY <1>6 DEF Blocking!vars, Blocking!kernelVars
  <2>2. KernelIsSound' /\ OpenFds' = OpenFds
    BY <1>1, <2>1 DEF KernelIsSound, KernelTypeOK, OpenFds, FreeFds
  <2> QED BY <2>1, <2>2 DEF BlockingInvariant
<1> QED BY <1>2, <1>3, <1>4, <1>5, <1>6 DEF Blocking!Next, Blocking!Program
-----------------------------------------------------------------------------
(* The theorems.                                                             *)

LEMMA InitInvariant == Init => ScannerInvariant
<1> SUFFICES ASSUME Init PROVE ScannerInvariant
  OBVIOUS
<1>1. CASE Runs("knocker") /\ Blocking!Init
  BY <1>1, BlockingStarts DEF ScannerInvariant, Runs
<1>2. CASE Runs("knocker-epoll") /\ Epoll!Init /\ NoMap
  BY <1>2, EpollStarts DEF ScannerInvariant, Runs
<1>3. CASE Runs("knocker-epoll-timer") /\ Timer!Init
  BY <1>3, MapScannerStarts DEF ScannerInvariant, Runs
<1> QED BY <1>1, <1>2, <1>3 DEF Init

LEMMA StutterKeepsInvariant == ScannerInvariant /\ UNCHANGED vars => ScannerInvariant'
<1> SUFFICES ASSUME ScannerInvariant, UNCHANGED vars PROVE ScannerInvariant'
  OBVIOUS
<1>1. UNCHANGED <<sock, dialed, timer_ready, horizon, opened, scanner, port, pc, batch, answered,
                  in_flight, active_socks, now, timed_out>>
  BY DEF vars, kernelVars, mapVars
<1>2. OpenFds' = OpenFds /\ (KernelIsSound => KernelIsSound')
  BY <1>1 DEF OpenFds, FreeFds, KernelIsSound, KernelTypeOK
<1>3. ReportsAreSound => ReportsAreSound'
  BY <1>1, <1>2 DEF ReportsAreSound, TypesAgree, EventsAreOfThisBatch, NoneIsForgotten, NoneIsInvented
<1>4. BlockingInvariant => BlockingInvariant'
  BY <1>1, <1>2 DEF BlockingInvariant
<1>5. EpollInvariant => EpollInvariant'
  BY <1>1, <1>2, <1>3 DEF EpollInvariant
<1>6. MapScannerInvariant => MapScannerInvariant'
  BY <1>1, <1>2, <1>3 DEF MapScannerInvariant
<1> QED BY <1>1, <1>4, <1>5, <1>6 DEF ScannerInvariant, Runs

LEMMA NextInvariant == ScannerInvariant /\ [Next]_vars => ScannerInvariant'
<1> SUFFICES ASSUME ScannerInvariant, [Next]_vars PROVE ScannerInvariant'
  OBVIOUS
<1>1. CASE ByKnocker(Blocking!Next)
  <2>1. Runs("knocker") /\ scanner' = scanner /\ BlockingInvariant'
    BY <1>1, BlockingStep DEF ByKnocker, ScannerInvariant
  <2> QED BY <2>1 DEF ScannerInvariant, Runs
<1>2. CASE ByEpoll(Epoll!Next)
  <2>1. Runs("knocker-epoll") /\ scanner' = scanner /\ EpollInvariant'
    BY <1>2, EpollStep DEF ByEpoll, ScannerInvariant, mapVars
  <2> QED BY <2>1 DEF ScannerInvariant, Runs
<1>3. CASE ByTimer(Timer!Next)
  <2>1. Runs("knocker-epoll-timer") /\ scanner' = scanner /\ MapScannerInvariant'
    BY <1>3, MapScannerStep DEF ByTimer, ScannerInvariant
  <2> QED BY <2>1 DEF ScannerInvariant, Runs
<1>4. CASE UNCHANGED vars
  BY <1>4, StutterKeepsInvariant
<1> QED BY <1>1, <1>2, <1>3, <1>4 DEF Next

LEMMA InvariantHolds == FairSpec => []ScannerInvariant
BY InitInvariant, NextInvariant, PTL DEF FairSpec

\* The counter of knocker-epoll is the number of its open sockets, also between
\* the events of a batch, the map of knocker-epoll-timer names exactly the open
\* sockets whatever the sweep closed, neither exceeds the limit, and knocker
\* has one socket open at most (knocker-epoll.cc:74, knocker-epoll-timer.cc:102).
THEOREM OpenSocketsAreCounted == FairSpec => []CountsOpenSockets
<1>1. ScannerInvariant => CountsOpenSockets
  <2> SUFFICES ASSUME ScannerInvariant PROVE CountsOpenSockets
    OBVIOUS
  <2>1. Runs("knocker-epoll") => Epoll!CountsOpenSockets
    BY EpollKernel DEF ScannerInvariant, EpollInvariant, Epoll!CountsOpenSockets
  <2>2. Runs("knocker-epoll-timer") => Timer!TimerInvariant
    <3> SUFFICES ASSUME MapScannerInvariant PROVE Timer!TimerInvariant
      BY DEF ScannerInvariant
    <3>1. Timer!TracksOpenSockets
      BY TimerKernel DEF MapScannerInvariant, Timer!TracksOpenSockets
    <3>2. Timer!KernelTypeOK
      BY DEF MapScannerInvariant, ReportsAreSound, KernelIsSound, KernelTypeOK, Timer!KernelTypeOK,
         SockStates, Timer!SockStates, Ports, Timer!Ports
    <3>3. active_socks \subseteq Fds
      BY DEF MapScannerInvariant, OpenFds
    <3>4. /\ port \in start_port .. end_port + 1
          /\ answered \subseteq Timer!Ports /\ timed_out \subseteq Timer!Ports
          /\ batch \in Seq([fd : Fds \cup {timer_fd}, port : Timer!Ports \cup {0}])
      BY DEF MapScannerInvariant, ReportsAreSound, TypesAgree, Events, Ports, Timer!Ports
    <3> QED BY <3>1, <3>2, <3>3, <3>4 DEF MapScannerInvariant, Timer!TimerInvariant, Timer!TypeOK
  <2>3. Runs("knocker") => Blocking!CountsOpenSockets
    <3> SUFFICES ASSUME BlockingInvariant PROVE Blocking!CountsOpenSockets
      BY DEF ScannerInvariant
    <3>1. pc = "connecting" => Cardinality(OpenFds) = 1
      BY FS_Singleton DEF BlockingInvariant
    <3>2. pc # "connecting" => Cardinality(OpenFds) = 0
      BY FS_EmptySet DEF BlockingInvariant
    <3> QED BY <3>1, <3>2, BlockingKernel DEF Blocking!CountsOpenSockets
  <2> QED BY <2>1, <2>2, <2>3 DEF CountsOpenSockets
<1> QED BY <1>1, InvariantHolds, PTL

\* No scanner reports a port that did not accept, knocker-epoll-timer unless it
\* has given the port up; knocker and, at its end, knocker-epoll have reported
\* every port that accepted (knocker-epoll.cc:140, knocker-epoll-timer.cc:179,
\* knocker.cc:56).
THEOREM ReportsHold == FairSpec => []ReportsAreExact
<1>1. ScannerInvariant => ReportsAreExact
  <2> SUFFICES ASSUME ScannerInvariant PROVE ReportsAreExact
    OBVIOUS
  <2>1. Runs("knocker-epoll") => Epoll!ReportsAreExact
    <3> SUFFICES ASSUME EpollInvariant PROVE Epoll!ReportsAreExact
      BY DEF ScannerInvariant
    <3>1. answered \subseteq opened
      BY DEF EpollInvariant, ReportsAreSound, NoneIsInvented
    <3>2. pc = "EXIT_SUCCESS" => opened \subseteq answered
      <4>1. OpenFds = {} => \A fd \in Fds : sock[fd] # "connected"
        BY OpenFdsAreFinite
      <4> QED BY <4>1 DEF EpollInvariant, ReportsAreSound, NoneIsForgotten
    <3> QED BY <3>1, <3>2, EpollKernel DEF EpollInvariant, Epoll!ReportsAreExact
  <2>2. Runs("knocker-epoll-timer") => Timer!AnswersAreTrue
    BY DEF ScannerInvariant, MapScannerInvariant, ReportsAreSound, NoneIsInvented, Timer!AnswersAreTrue
  <2>3. Runs("knocker") => Blocking!ReportsAreExact
    BY DEF ScannerInvariant, BlockingInvariant, Blocking!ReportsAreExact
  <2> QED BY <2>1, <2>2, <2>3 DEF ReportsAreExact
<1> QED BY <1>1, InvariantHolds, PTL

\* When knocker-epoll-timer ends, no socket is open, every port was dialed, and
\* every port that accepted was reported or given up (knocker-epoll-timer.cc:105).
THEOREM NoAnswerIsDropped == FairSpec => []NothingMissed
<1>1. ScannerInvariant => NothingMissed
  <2> SUFFICES ASSUME MapScannerInvariant PROVE Timer!NothingMissed
    BY DEF ScannerInvariant, NothingMissed
  <2>1. OpenFds = {} => \A fd \in Fds : sock[fd] # "connected"
    BY OpenFdsAreFinite
  <2> QED BY <2>1, TimerKernel
          DEF MapScannerInvariant, ReportsAreSound, NoneIsForgotten, Timer!NothingMissed
<1> QED BY <1>1, InvariantHolds, PTL
=============================================================================
