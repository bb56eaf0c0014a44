# Verification of Low-Level-CPP

TLA+ models of the programs of this repository, TLC runs that check them on
small instances, and TLAPS proofs of the results that hold for every size.
The repository is a collection of independent programs; each is a component
here, modelled from its source.

## 1. Inventory

| Component | Source | State | Operations | What makes it correct |
|---|---|---|---|---|
| ThreadSafeQueue | `Thread_Safe_Queue/thread_safe_queue.{h,cpp}` | deque, `done_`, mutex, two condition variables | push, pop, try_push, try_pop, shutdown | FIFO; nothing lost or doubled; no missed wakeup; nothing accepted after shutdown, everything accepted before is handed out; shutdown releases every blocked call |
| its demo | `Thread_Safe_Queue/main.cpp` | two atomic counters | producer, consumer, main | ends, with PASS, under every schedule |
| LockFreeStack | `Lock-free-stack/main.cpp` | atomic (node, tag) pair, tag counter, heap nodes | push, pop | linearizable; no ABA; each node deleted once |
| its demo | same file | sums | produce, consume, main | keys conserved, no leak, ends with PASS |
| ThreadPool | `Thread-Pool/main.cpp` | task queue, `stop_`, condition variable | enqueue, worker loop, destructor | every accepted task runs once, in order; the destructor drains and returns |
| knocker-epoll | `knocker/knocker-epoll.cc` | `in_flight`, port, event batch | dial, drain | count exact, reports exact, ends if hosts answer |
| knocker-epoll-timer | `knocker/knocker-epoll-timer.cc` | map of sockets, timer, batch | dial, wait, sweep, handle | the map is the set of open sockets; ends although hosts stay silent |
| knocker-intrusive | `knocker/knocker-intrusive.cc` | connection table with an intrusive list, counter | the same | the sorted list replaces the map |
| knocker | `knocker/knocker.cc` | port | blocking connects | reports exact, every socket closed, ends if hosts answer |
| MemoryManager | `Memory-Pool-in-CPP/MemPool/MemPool.{h,cpp}` | free list threaded through the chunks | constructor, Allocate, Deallocate | one owner per chunk; null only when exhausted |
| its benchmark | `Memory-Pool-in-CPP/MemPool/main.cpp` | eight objects, `sink`, samples | run_once, statistics | the pool never runs out, and stays within the chunks it began with |
| HashMap | `Intrusive-Hash-Map/hashmap.{h,cc}` | slots and chains of embedded nodes, `size` | insert, lookup, remove, clear, destructor | a map in which later entries shadow earlier ones |
| GarbageCollector | `mark-n-sweep/Mark & sweep/garbage_collector.h` | tracked objects, roots, marks | track, addRoot, mark, sweep, collect | a collection frees exactly what is unreachable |
| my::vector | `my_vector/main.cpp` | data, size, capacity | push_back, emplace, reserve, shrink_to_fit, ... | a sequence, whatever block it is in |
| my::function | `my_function/my_function.hpp` | callable pointer, small buffer | construction, copies, moves, assignments, call | one owner of each callable |
| bump allocator | `my_alloc/bump_allocator/main.cpp` | one position | my_alloc | disjoint blocks, refused only for want of room |
| ReinC arena | `ReinC/arena.{c,h}` | capacity, position | create, push, destroy | the same, with alignment and integer width |
| ReinC autograd | `ReinC/autograd.c` | variables and matrices in an arena | create_matrix, create_var, create_node | nothing overlaps, also when the arena runs out half-way |
| rocker | `rocker/main.cpp` | child, namespaces, cgroup | clone, rule_set, the child's way into its root, wait | mounts stay off the host, failed calls stop the child, limits hold |
| SDL framebuffer | `low-level-graphics/sdl-framebuffer/main.c` | SDL's resources, events, pixels | acquire, poll, draw, release | releases on every path, ends on quit, shows one pixel |

The programs do not call each other. Within a program the interaction is
shared memory (queue, stack, pool), the kernel (the scanners), or a client that
owns memory the component also uses (memory pool, hash map, collector). The hard
behaviours are: interleavings and wakeups in queue and pool; stale pointers and
reused addresses in the stack; batches of events that are stale when handled in
the scanners; hosts that never answer; calls that fail half-way (rocker, SDL,
clone() of a callable, an exhausted arena); lists whose links live in memory that
clients write or embed; shutdown racing with work in progress. `PROJECT.json`
lists each hazard at its line with the properties that watch over it.

## 2. Modules

| Module | Models | Abstract specification it implements |
|---|---|---|
| `ThreadSafeQueue` | the queue as an open system: any thread may call anything | `BoundedChannel` |
| `QueueDemo` | `Thread_Safe_Queue/main.cpp`, composed with `ThreadSafeQueue` by INSTANCE | |
| `LockFreeStack` | push and pop, one step per shared access | `AtomicStack` |
| `StackDemo` | `main` of the stack, composed with `LockFreeStack` | |
| `ThreadPool` | pool, workers, owner and tasks that enqueue tasks | |
| `KnockerKernel` | what the scanners see of sockets, epoll, timerfd and the clock (external) | |
| `Knocker`, `KnockerEpoll`, `KnockerTimer` | the scanners without a list, on `KnockerKernel` | |
| `KnockerIntrusive` | the scanner with the intrusive list | `KnockerTimer`, until an event is stale |
| `MemPool` (parameters in `PoolParameters`) | MemoryManager and a client that writes | `Allocator` |
| `HashMap` | the intrusive hash map | `ShadowMap` |
| `GarbageCollector` | the collector and a mutator | `Collector` |
| `MyVector` | my::vector for elements like the int of its main | `GrowableSequence` |
| `MyFunction` | function objects, their buffers and the heap | `Callables` |
| `Arena`, `BumpAllocator` | the two allocators that move one position | `Region` |
| `Autograd` | variables of a graph, composed with `Arena` | |
| `Rocker` | parent, child, command and what the kernel does for them | |
| `Framebuffer` | the SDL program | |
| `Benchmark` | `run_once<Object1>`, composed with `MemPool` | |
| `Sequential` | the single-threaded components (memory pool to autograd) side by side, one per behaviour | |
| `MC...` | constants, symmetry and compositions for TLC; `MCPrograms` and `MCScanners` compose the programs and the scanners as `Sequential` does its components | |
| `ThreadSafeQueue_proofs`, `LockFreeStack_proofs`, `ThreadPool_proofs`, `KnockerIntrusive_proofs`, `MemPool_proofs` | theorems about one component | |
| `Scanners_proofs`, `Programs_proofs`, `Sequential_proofs` | theorems about the components of `MCScanners`, `MCPrograms` and `Sequential`, a section for each | |

Operators whose name has a suffix, `Take_Back` next to `Take`, are mutants: the
definition changed as a plausible bug would change it. `PROJECT.json` pairs each
property with a mutant that breaks it, which shows that the property says
something about that code. They are used nowhere else.

### How state and actions correspond to the code

*ThreadSafeQueue.* `queue_`, `done_`, `max_size_` are the members. Each condition
variable is the set of threads asleep on it; `call` and `ret` are the pending
call of a thread and its result. The mutex is not a variable: a critical section,
from acquiring the lock to `wait` or unlock, is one action, since notifies are sent
while the lock is held. Waiting is `PushSleep`/`PopSleep`; `NotifyOne` wakes an
arbitrary sleeper; `SpuriousWakeup` wakes one for no reason. `accepted` and
`delivered` are histories.

*LockFreeStack.* One action per access to memory other threads can reach. `CAS`
of `compare_exchange_weak` may fail spuriously (`MaxSpurious` times). `new` may
return an address that was deleted. `pop` reads `next` of a node that may be
deleted: it then gets any pointer. `stack` is the history of linked nodes.

*ThreadPool.* The same reading of mutex and condition variable, but both notifies
are actions of their own because the code sends them after unlocking. `enqueue`
in a task after `stop_` throws: nothing catches it, `terminated` is
`std::terminate`.

*Scanners.* A batch of `epoll_wait` is a sequence of events handled one at a time
while the world moves on. The kernel answers at any time; `err` of a closed
descriptor is 0, because the code initialises `err` to 0 and ignores the failing
`getsockopt`. Ports are dialled in increasing order, so a port number also serves
as the time its connection started, and `horizon` separates the connections
older than `TIMEOUT_MS`. `KnockerIntrusive` keeps `head`, `tail`, `prev`, `next`
as the code does; `order` is the history of the list and `stale` remembers that a
closed socket's event was handled. Once that has happened the sweep may unlink the
same entry for ever and count `in_flight_count` down without end; the model's counter
stops at `CountFloor`, below which the ports that are left cannot bring it above 0, so
that the loops, which ask only whether it is positive and below the limit, behave the
same.

*MemPool.* A chunk is an index; its first word holds any bit pattern, and data may
look like an address. The constructor's loop is `LinkNext`, `TerminateList`.
`ClientWrites` overwrites the word of an owned chunk. `granted` and `free` are
histories.

*HashMap.* All pointers are one function `ptr` on slots and nodes, because the
code walks incoming pointers (`HNode **from`). The walk of `lookup_` is one
action per node. `inserted` is a history; which node follows another on a chain
(`NextIn`) and what a removal leaves (`Without`) are told by positions in it.

*GarbageCollector.* The recursion of `mark` is an explicit stack of activations;
`sweep` visits the unordered set in any order; the mutator changes roots and
references between collections (that a reference is dropped is the environment's
doing: the demo only adds some).

*MyVector.* `data` is the block as a sequence of cells; the element is what a cell
holds, since an int needs neither construction nor destruction. Growth, insertion
and the final `++_size` are one action, as one call is. Room beyond the elements
keeps what the block or the memory contained (`Garbage`).

*MyFunction.* A place is the buffer of an object or a heap block. Moves steal a
heap block, and move and clear a buffer. `CopyNonConst` is the constructor template
that a non-const function selects: each construction begins another one, so a
chain of `MaxNesting` of them stands for the end of the stack. No run claims that the stack
holds: the constraint compares `std::decay<F>`, the trait, where `std::decay_t<F>` is
meant, so `my::function g(f)` with a non-const `f` never returns.

*Arena, BumpAllocator, Autograd.* Positions and sizes are integers up to `U64_MAX`,
pointers up to `UINTPTR_MAX`; sums are taken modulo one more. `malloc` may refuse
and never grants more than `PTRDIFF_MAX`, half of `U64_MAX`; that is why the
alignment in `arena_push` cannot wrap.
Nothing bounds the size `my_alloc` is asked for; `wrapped` remembers that the pointer
went past the largest address, after which blocks may overlap.
A step of `Autograd` is one `arena_push` with the code up to the next. A pointer
that `arena_push` could not fill is written through (`NullWrite` ends the program),
except for a matrix's data, which stays NULL.

*Rocker.* Parent and child are one program counter each and interleave from `clone`
on. Each system call of the child succeeds, or fails and ends it. A mount reaches
the host while `shared` holds, as on distributions that mount `/` shared. Cgroup
membership is inherited by `fork` and changed by `WriteProcs` for one process;
when the first process of the PID namespace ends, the kernel ends the others.

*Framebuffer.* `acquired` is the stack of SDL resources; an exit path releases what
is on it from the top. `frame` wraps around after `UINT32_MAX`. The user posts at
most `MaxEvents` events: a user who posts faster than `SDL_PollEvent` takes
would keep the inner loop from ever drawing.

*Benchmark.* `o` are the objects of the current iteration. `New`, `Object1`, `get`,
`Delete` follow the lines of `run_once`; the chunk operations are those of `MemPool`.

## 3. Runs

| Run | Question | Instance |
|---|---|---|
| `queue` | queue safety and refinement of `BoundedChannel` | 3 threads, 2 values, capacity 2, at most 3 pushes (`MaxPushes`); symmetry |
| `programs` | each program of the repository, one per behaviour through the variable `program`: the demos print PASS, nothing leaks, rocker leaves the host alone and reaps its child, the framebuffer quits; and shutdown releases every call of the queue | queue demo: 2 producers with 2 items, 2 consumers, capacity 2; stack demo: 1 producer, 2 consumers; open queue: 3 threads, capacity 1; a container of 3 processes; 3 by 2 pixels and 8 frames; 3 iterations over 2 of 3 chunks |
| `stack` | no ABA, list intact, linearizable | 2 threads, 3 addresses, tags up to 6, 1 spurious failure; symmetry |
| `stack_reclaim` | *violation*: a deleted node is read | 1 producer, 2 consumers |
| `pool` | wakeups, order, drain, every task runs | 3 workers, 4 tasks, one of them enqueued by a task |
| `pool_terminate` | *violation*: shutdown abandons accepted tasks | 2 workers, 3 tasks |
| `scanners` | counts, map and reports exact; the scans end | 4 ports, 2 in flight, batches of 3, the three scanners through the variable `scanner` |
| `intrusive` | the list stays the map, and the scan goes on to its end, until an event is stale | 4 ports, 3 in flight (so the list has a middle), batches of 2 |
| `intrusive_limit` | *violation*: more than `MAX_IN_FLIGHT` sockets | 4 ports, 2 in flight, batches of 3 |
| `intrusive_endless` | *violation*: the sweep never ends | 5 ports, 3 in flight, batches of 2; hosts that accept or stay silent |
| `sequential` | the single-threaded components, one per behaviour through the variable `component`, implement their abstractions | 3 chunks; 4 nodes in 2 slots with equal keys and colliding hashes; 3 objects, 3 references, 2 roots; a vector of up to 4; 3 function objects; an arena of 7-bit integers; a heap of 9 bytes; graphs of 3 variables |
| `rocker_limits` | *violation*: a process escapes its limits | 3 processes |

Why the bounds are enough to be interesting: three queue threads allow two
sleepers and a thief; with two values and three pushes a queue of two fills,
blocks and drains. Tags up to 6 let a pop sleep while its node is popped, deleted,
allocated at the same address and pushed above another node: the ABA case, which
the mutant with constant tags reaches. Three pool workers separate a sleeper, a
runner and a notifier. Batches that hold the timer and two sockets contain the
race of sweep and answer. The state space of `intrusive` with five ports is beyond
a run of minutes (more than five million states); up to the first stale event its
safety properties are theorems for any number of ports. What needs a fifth port comes
after one, and `intrusive_endless` looks for it among the behaviours in which every
connect is in progress and no host refuses, which are behaviours of the same scanner.
Three chunks are a list with a middle that can be
returned in every order. One slot of the map holds all four nodes, so removals
happen at the head, in the middle and at the end of a chain. Three references
make self references, repeated references, cycles of three and branching graphs.
A vector of four doubles three times and has a middle to insert at. With 7 bits
capacities reach `PTRDIFF_MAX` = 63, so positions come within one alignment of it
and a sum with a size up to 127 wraps around; the heap's 9 bytes begin at 3 of 32
addresses, and sizes on both sides of the wrap are requested. Three processes let one be forked
before and one after the parent has written the cgroup. Eight frames are no multiple
of three pixels, so the counter wraps in the middle of a row.

Deadlock is checked except in `queue` and `stack` (threads that reach `MaxPushes` or
`MaxTag` have nothing left to call), `programs` (its open queue, for the same
reason; that the programs end is the property `ProgramsEnd`), `pool` and
`pool_terminate` (the program ends) and `sequential` (the map may be destroyed).

### Fairness

Weak fairness of each thread's next step (`Proceed`, `WorkerStep`, `Program`,
`Collection`, `Steps`): the operating system schedules every runnable thread
and a thread inside a call runs on. Nothing is assumed of who wins a lock,
which sleeper a notify wakes, or that anybody makes a further call, except in the
demos where the code loops. `ShutdownReleasesCalls` says that after shutdown a call
returns without help. In `programs` the parent of a container and the loop of the
framebuffer go on; nothing is assumed of the command, nor that anybody quits.
Liveness there has the form `[]<>P`, where P is false from a request on until
it is met: it says the same as a leads-to, and TLC checks it without a tableau. The scanners with a timer assume that the timer pulses and time
passes, and nothing of the hosts; `knocker-epoll`, which has no timer, needs
`Answer`: it does wait for ever if a host never answers.

## 4. What the checks found

- `stack_reclaim`: `pop` reads `old_top.node->next` (`Lock-free-stack/main.cpp:68`)
  after another consumer deleted the node, in the program as shipped. The value
  read is never used, since the compare-and-swap then fails (`NoABA` holds with
  an arbitrary value), but the read itself is of freed memory.
- `pool_terminate`: a task that enqueues while the destructor runs ends the program
  (`Thread-Pool/main.cpp:40`) with accepted tasks not run.
- `intrusive_limit`: a socket closed by the sweep may have its event in the same
  batch; the handler unlinks and counts it a second time
  (`knocker/knocker-intrusive.cc:255-259`), and the limit on connections is
  exceeded. `AnswersAreTrue` of the timer scanners allows for the other
  effect of such an event: a port that timed out is announced.
- `intrusive_endless`: the same event may keep the scanner from ever ending. The
  timer's sweep closes 3 and 4 and leaves 5 in the list; the event of 3, of the same
  batch, is unlinked with `prev = -1` and makes its former neighbour 4, which is closed,
  the head (line 103). 4 is dialed again and appended at the tail, with 3 in front of
  it. When it expires, `list_unlink` takes its tail case (line 105), which leaves `head`
  alone, and the loop at `knocker/knocker-intrusive.cc:233-242` unlinks 4 for ever.
- `rocker_limits`: `rule_set` runs while the command may already fork
  (`rocker/main.cpp:139`), and moves one process only.

## 5. Proofs

The theorems hold for every value of the constants that satisfies the named
assumptions. The properties are those the runs check, and besides them types,
`ShutdownIsFinal`, the parts of `NothingLeaks`, and that the demos neither fail nor
hang, nor the pool. Every safety property and refinement that a passing run checks is
proved.

`ThreadSafeQueue_proofs`, for any threads, values and capacity:

| Theorem | Property |
|---|---|
| `TypeCorrect` | `TypeOK` |
| `NothingLostOrReordered` | `FIFO` |
| `NobodySleepsOnceShutDown` | `NobodySleepsAfterShutdown` |
| `ShutdownStaysFinal` | `ShutdownIsFinal`, an action property |
| `WakeupsAreNotMissed` | `NoMissedWakeup` |
| `QueueImplementsChannel` | `ImplementsChannel` |

The types include that a sleeper is inside the call whose condition variable it
sleeps on; without it a wakeup could not be matched with a call. The difficult one
is `NoMissedWakeup`, which counts: while somebody sleeps in `pop`, there are at
least as many awake threads in `pop` as items. Every step that adds an item also
wakes a sleeper, and a thread goes to sleep only when there is no item. The proof
follows the counts of the two sets through each action.

`ThreadPool_proofs`, for any number of workers, any tasks and any choice of which
task enqueues which:

| Theorem | Property |
|---|---|
| `TypeCorrect` | `TypeOK` |
| `PoolInvariantHolds` | `PoolInvariant` |
| `TheDestructorDrains` | `DestructorDrains` |
| `WakeupsAreNotMissed` | `NoMissedWakeup` |
| `ThePoolGoesOn` | while a task or the destructor is unfinished, some thread has a step to take |

`PoolInvariant` is not inductive: that a task starts once needs to know where the
tasks of `started` are. They have ended or run, no two workers run the same
(`TakenIsRunOrRunning`), every accepted task was enqueued by the owner or by a task
that has started, and a worker that has left stays away. `NoMissedWakeup` counts
awake workers and notifications still to be sent, because the code sends them
after unlocking. `ThePoolGoesOn` draws both together: with a task queued, a worker
is awake or about to be woken; with none, the destructor waits for workers that
are awake, because nobody sleeps through it.

`LockFreeStack_proofs`, for any threads, addresses, keys and bounds:

| Theorem | Property |
|---|---|
| `MemoryIsInOrder` | `StackInvariant` |
| `TagsPreventABA` | `NoABA` |
| `StackIsAtomic` | `ImplementsAtomicStack` |

The argument is the freshness of tags (`TagsAreFresh`): the pair a thread is about
to store is not `top`, was never loaded by anybody and belongs to no other thread.
Then a pair that equals `top` at the compare-and-swap has been `top` ever since it
was read (`ReadIsCurrent`), so the list below it is unchanged. Without tags the
second does not follow from the first, which is the ABA problem. `LinkIsSet` and
`NodesCarryKeys` say the same of the node `push` is about to link. What `pop` reads
from a deleted node is arbitrary in the model and in the proof.

`KnockerIntrusive_proofs`, for any table of descriptors, ports and limit:

| Theorem | Property |
|---|---|
| `ListIsSound` | `ListInvariant` |
| `AnnouncedAcceptedOrGivenUp` | `AnswersAreTrue` |
| `ListReplacesMap` | `ImplementsHashMapScanner` |

`Linked` says that `head`, `tail`, `prev` and `next` spell out the history `order`;
`order` holds the open sockets, each once and in the order of their ports, and
`in_flight_count` is its length. Linking and unlinking, at either end and in the middle,
are lemmas about sequences. All of it is claimed until a stale event is handled;
afterwards the list is broken, as `intrusive_limit` and `intrusive_endless` show.

`Scanners_proofs`, for any descriptors, ports, limit and size of a batch:

| Theorem | Property |
|---|---|
| `OpenSocketsAreCounted` | `CountsOpenSockets` |
| `ReportsHold` | `ReportsAreExact` |
| `NoAnswerIsDropped` | `NothingMissed` |

Each scanner has its invariant. Shared by those with epoll is what the events of a
batch mean when they are handled: without a timer the event of a socket stays
true, since nobody else closes it. With one the socket may be closed already, and
then its port has been given up.

`MemPool_proofs`, for every positive number of chunks and any data:

| Theorem | Property |
|---|---|
| `TypesHold` | `TypeOK` |
| `FreeListHolds` | `FreeListIsFree` |
| `PoolIsAllocator` | `ImplementsAllocator` |

The invariant is `TypeOK /\ LinkedSoFar /\ FreeListIsFree`. `FreeListIsFree` speaks
of the finished pool only; `LinkedSoFar` describes the half-built list, and its
last step is what establishes `FreeListIsFree`. That a client's write spares the list
follows from the list being disjoint from what clients own.

`Programs_proofs`, for the demos and programs of `MCPrograms`:

| Theorem | Property |
|---|---|
| `RockerLeavesHostUntouched` | `HostUntouched` |
| `FramesShowOnePixel` | `ShowsOnePixel` |
| `BenchmarkIsServed` | `PoolServesBenchmark` |
| `BenchmarkPoolIsAllocator` | `ImplementsAllocator`, of the benchmark's pool |
| `ConsumersDoNotLeaveEarly` | `NoConsumerLeavesEarly` |
| `QueueDemoHasAChannel` | `ImplementsChannel` and `NoMissedWakeup`, of the demo's queue |
| `QueueDemoGoesOn` | until main has returned, some thread has a step to take |
| `QueueDemoNeverFails` | main never finds a wrong total |
| `KeysAreConserved` | `SumIsConserved` |
| `StackDemoIsAtomic` | `ImplementsAtomicStack`, `NoABA`, `StackInvariant`, of the demo's stack |
| `StackDemoNeverFails` | main never finds sums that differ |
| `ProgramsReleaseAll` | `NothingLeaks`, from `RockerFreesItsStack`, `FramebufferReleasesInOrder` and `StackDemoLeaksNoNode` |

The programs are clients of other components, whose lemmas are cited through
INSTANCE. Each invariant is the component's own together with what the client
keeps: the benchmark uses the pool's first `LIVE` chunks only; the queue demo's
accepted items are those its producers have pushed, and a shutdown finds every
producer gone. From it follows that every step of the program is a step of the
component or leaves it alone; then what is proved of the component holds in the
program.

- `QueueDemoGoesOn` needs `NoMissedWakeup`: were all producers and consumers asleep,
  the queue would be full, because a producer sleeps, and empty, because a consumer
  does. After the shutdown nobody sleeps. The guards in `ProducerCanStep` include the
  model's bound on pushes, which `BoundIsNotReached` shows is never what stops one.
- `QueueDemoNeverFails` counts: the items that producers have counted, and the
  consumers that hold an item they have not counted yet (`Uncounted`). When all
  consumers have left, both totals are the number of items.
- `SumIsConserved` is about sums over finite sets, which are folds. That such a sum
  may start with any element is shown by a smallest counterexample among the
  cardinalities; the laws for adding, removing and changing an element follow. A
  step of the demo then moves one key from one sum to another, and it must be
  the key that the stack hands over: this is what `StackInvariant` provides.
- Nodes are counted against popped keys (`NodesAreCounted`): when every thread has
  left, as many keys have been popped as pushed, so no node is left. The
  producer's sum (`ProducerSumsUp`) and `SumIsConserved` then give equal totals,
  although pops that find the stack empty are retried.
- Rocker's invariant is that the child makes its mounts private before it mounts
  anything, whatever call fails.

`Sequential_proofs`, for the components of `Sequential`:

| Theorem | Property |
|---|---|
| `ChainsAreTheBuckets` | `MapInvariant` |
| `MapShadows` | `ImplementsShadowMap` |
| `SearchIsComplete` | `HeapInvariant` |
| `CollectionFreesGarbage` | `ImplementsCollector` |
| `BlocksAreApart` | `ImplementsRegion` |
| `VariablesAreApart` | `GraphInvariant` |
| `ElementsStayInOrder` | `ImplementsSequence` |
| `EveryCallableHasAnOwner` | `ImplementsCallables` |

- The map's invariant adds that a node is in the history once, and that a walk is
  on the chain of its key and has passed no entry with that key (`WalkIsOnChain`):
  hence the entry it stops at is the latest. Slots, hash function, keys and nodes
  are arbitrary.
- The collector's adds `OnlyReachableIsMarked`: every set that contains the roots
  and is closed under references contains what is marked. `HeapInvariant` says that
  the marked set is closed when the search is over; together they make it the least
  such set, which is what `Collector` frees the complement of. No induction along
  paths is needed.
- The arena's is that the position stays in the region, and the region below
  `PTRDIFF_MAX`; then no sum that is accepted has wrapped, whatever size is asked for.
  `my_alloc` has no such protection: its pointer stays in the heap until a request wraps
  it, and `BlocksAreApart` speaks of the steps before that one. `Region` lets an
  arena be renewed; a static array never is (`Request`, without `Renew`). For autograd, variables
  and their structs lie behind each other in the arena, and the variable in the
  making behind all others; disjointness follows from the order.
- The vector's block has as many cells as the capacity, and its elements come
  first.
- A place holds a callable if and only if an existing function object points at
  it, and no two objects point at the same. The number of callables is then the
  number of owners by a bijection.

`Least`, that a set of naturals has a least element, is taken from the well-founded
order on Nat; it replaces induction where a first position is meant (`NextIn`).

Assumptions: `QueueAssumption`, `PoolAssumption` (no two tasks enqueue the same),
`StackAssumption`, `KnockerAssumption`, `AmountAssumption`, `DemoAssumptions` (with
the stack demo's: no fewer addresses than items, none of them the null pointer),
`ProgramAssumptions`, `MapAssumptions` (slots a power of two, the hash a function of
the key), `ContainerAssumptions`, `RegionAssumptions` (`U64_MAX` is
twice `PTRDIFF_MAX` and one, the alignment a power of two; the heap and its end have
addresses). TLC evaluates all of them.

Only model-checked:

- Every liveness property (`CallsReturn`, `ShutdownReleasesCalls`, `ProgramsEnd`,
  the end of the scans up to a stale event, of the destructor and of the tasks): TLAPS has no ENABLED
  here, so weak fairness cannot be used.
  `QueueDemoGoesOn` and `ThePoolGoesOn` are the safety half: somebody can go on.
- The runs that expect a violation refute properties; there is nothing to prove.

## 6. Not modelled

- Weak memory: the stack's memory orders are read as sequentially consistent.
- Tag wrap-around after 2^64 increments, stack overflow of `mark`, out of memory.
- A full descriptor table and failing system calls are one outcome, `DialFails`.
- Caller's obligations are guards: no double `Deallocate`, no node inserted twice,
  every object tracked before `collect`, no call after `clear()`.
- Element types with constructors and destructors in my::vector: `reserve` frees
  with `operator delete` what `resize` took with `new[]`, which matters to them only.
  A push_back of an element of the vector itself, and copies of the vector, are in
  `PROJECT.json` as hazards.
- What the blocks of `my_alloc` are worth after a size has wrapped its pointer (the
  model goes on, no property speaks of it), and `rows * cols` beyond 32 bits in autograd. autograd's forward and backward functions, which
  are declared but not written.
- A container's command that mounts, remounts shared or leaves its root; memory
  limits. Rendering and timing of SDL. Where frames stop being counted, at 2^32, the
  pixel jumps from column 255 to 0.
- Benchmark statistics, argument parsing, printing.

## 7. Plan

Done: every program of the repository has its module, and every safety property
and refinement that a passing run checks is proved, in the component and in the
programs that use it. What would extend the project:

1. A model of the stack's memory orders: reads that may be outdated, with the
   proofs of `LockFreeStack_proofs` redone for acquire and release.
2. Termination proofs, once the prover supports ENABLED: `QueueDemoGoesOn` gives the
   step that fairness needs, the counts of `QueueDemoNeverFails` the variant.
