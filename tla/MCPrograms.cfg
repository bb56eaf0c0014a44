\* Two producers of two items each and two consumers around a queue of two
\* slots, one producer and two consumers of one item each around the stack
\* with one spurious failure; three threads and one slot for the open queue;
\* a container of three processes; 8 frames of 3 by 2 pixels until the counter
\* wraps around; three iterations with two of three chunks.  The open queue
\* may stop.
CONSTANTS
  Producers = {p1, p2}
  Consumers = {c1, c2}
  Main = main
  ItemsPerProducer = 2
  QueueCapacity = 2
  Threads = {p1, p2, c1}
  Values = {a}
  max_size_ = 1
  MaxPushes = 2
  Producer = p
  ITEMS_PER_CONSUMER = 1
  Nodes = {n1, n2}
  NullNode = NullNode
  MaxTag = 40
  MaxSpurious = 1
  Processes = {r, x, y}
  runtime = r
  MaxPids = 2
  WIDTH = 3
  HEIGHT = 2
  UINT32_MAX = 7
  Background = 1
  Lit = 2
  MaxEvents = 2
  Amount = 3
  Data = {0, 1, 2, 3, 4, 5, 9}
  LIVE = 2
  ITERATIONS = 3
SPECIFICATION FairSpec
INVARIANTS NoConsumerLeavesEarly SumIsConserved NothingLeaks HostUntouched ShowsOnePixel PoolServesBenchmark
PROPERTIES ShutdownReleasesCalls ProgramsEnd
CHECK_DEADLOCK FALSE
