\* Expected to fail: a stale event makes in_flight_count too small.
CONSTANTS
  Fds = {3, 4, 5}
  timer_fd = 9
  start_port = 1
  end_port = 4
  MAX_IN_FLIGHT = 2
  MAX_EVENTS = 3
SPECIFICATION Spec
INVARIANTS ConcurrencyLimit
