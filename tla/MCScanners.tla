----------------------------- MODULE MCScanners -----------------------------
(* Model-checking instance of the three scanners that keep no list: every   *)
(* behaviour runs one of them on the kernel of KnockerKernel.               *)
EXTENDS KnockerKernel

VARIABLES scanner, \* the program that runs
          port, pc, answered,           \* variables of all
          batch,                        \* of those with epoll
          in_flight,                    \* of knocker-epoll
          active_socks, now, timed_out  \* of knocker-epoll-timer

mapVars == <<active_socks, now, timed_out>>
vars == <<kernelVars, scanner, port, pc, batch, answered, in_flight, mapVars>>

Blocking == INSTANCE Knocker
Epoll    == INSTANCE KnockerEpoll
Timer    == INSTANCE KnockerTimer

Runs(program) == scanner = program
NoMap == active_socks = {} /\ now = start_port /\ timed_out = {}

Init ==
  \/ Runs("knocker") /\ Blocking!Init /\ NoMap /\ in_flight = 0 /\ batch = <<>>
  \/ Runs("knocker-epoll") /\ Epoll!Init /\ NoMap
  \/ Runs("knocker-epoll-timer") /\ Timer!Init /\ in_flight = 0

ByKnocker(A) == Runs("knocker") /\ A /\ UNCHANGED <<scanner, mapVars, in_flight, batch>>
ByEpoll(A) == Runs("knocker-epoll") /\ A /\ UNCHANGED <<scanner, mapVars>>
ByTimer(A) == Runs("knocker-epoll-timer") /\ A /\ UNCHANGED <<scanner, in_flight>>

Next == ByKnocker(Blocking!Next) \/ ByEpoll(Epoll!Next) \/ ByTimer(Timer!Next)

\* The fairness of each scanner, while its program runs.
Fairness ==
  /\ WF_vars(ByKnocker(Blocking!Program) \/ ByEpoll(Epoll!Program) \/ ByTimer(Timer!Program))
  /\ \A fd \in Fds : WF_vars(ByKnocker(Blocking!Answer(fd)) \/ ByEpoll(Epoll!Answer(fd)))
  /\ WF_vars(ByTimer(Timer!Pulses))
  /\ WF_vars(ByTimer(Timer!TimeGoesOn))

FairSpec == Init /\ [][Next]_vars /\ Fairness
-----------------------------------------------------------------------------
\* knocker-epoll.cc:74, knocker-epoll-timer.cc:102, knocker.cc:60: the sockets
\* that are open are those the program knows of, within the limit.
CountsOpenSockets ==
  /\ Runs("knocker-epoll") => Epoll!CountsOpenSockets
  /\ Runs("knocker-epoll-timer") => Timer!TimerInvariant
  /\ Runs("knocker") => Blocking!CountsOpenSockets

\* knocker-epoll.cc:140, knocker.cc:56: exactly the ports that accepted are
\* reported; knocker-epoll-timer.cc:179: unless the sweep has given them up.
ReportsAreExact ==
  /\ Runs("knocker-epoll") => Epoll!ReportsAreExact
  /\ Runs("knocker-epoll-timer") => Timer!AnswersAreTrue
  /\ Runs("knocker") => Blocking!ReportsAreExact

\* knocker-epoll-timer.cc:105: the program does not stop with connections open.
NothingMissed == Runs("knocker-epoll-timer") => Timer!NothingMissed

\* The scans end: knocker and knocker-epoll if every host answers,
\* knocker-epoll-timer even if none does.
ScanEnds == <>(pc \in {"EXIT_SUCCESS", "EXIT_FAILURE"})
=============================================================================
