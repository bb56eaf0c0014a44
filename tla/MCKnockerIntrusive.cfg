\* Four ports, at most three connections at a time (so that the list has a
\* middle), batches of two.
CONSTANTS
  Fds = {3, 4, 5}
  timer_fd = 9
  start_port = 1
  end_port = 4
  MAX_IN_FLIGHT = 3
  MAX_EVENTS = 2
SPECIFICATION FairSpec
INVARIANTS ListInvariant AnswersAreTrue
PROPERTIES ImplementsHashMapScanner ScanEndsUnlessStale
