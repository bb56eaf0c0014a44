\* Four ports, at most two connections at a time, batches of up to three
\* events (two sockets and the timer).
CONSTANTS
  Fds = {3, 4, 5}
  timer_fd = 9
  start_port = 1
  end_port = 4
  MAX_IN_FLIGHT = 2
  MAX_EVENTS = 3
SPECIFICATION FairSpec
INVARIANTS CountsOpenSockets ReportsAreExact NothingMissed
PROPERTIES ScanEnds
