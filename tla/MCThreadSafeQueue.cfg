\* Open system: any of three threads calls anything; capacity 2.
CONSTANTS
  Threads = {t1, t2, t3}
  Values = {a, b}
  max_size_ = 2
  MaxPushes = 3
SPECIFICATION Spec
SYMMETRY Symmetry
INVARIANTS TypeOK FIFO NoMissedWakeup NobodySleepsAfterShutdown
PROPERTIES ImplementsChannel
CHECK_DEADLOCK FALSE
