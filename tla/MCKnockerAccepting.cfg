\* Expected to fail.  Three connections, so that a stale event can relink a
\* closed one in front of one that is open; two more ports, so that its
\* descriptor is dialed again and stands in the list both first and last.
CONSTANTS
  Fds = {3, 4, 5}
  timer_fd = 9
  start_port = 1
  end_port = 5
  MAX_IN_FLIGHT = 3
  MAX_EVENTS = 2
SPECIFICATION AcceptingSpec
PROPERTIES ScanEnds
