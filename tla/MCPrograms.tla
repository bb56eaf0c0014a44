----------------------------- MODULE MCPrograms -----------------------------
(* Model-checking instance of the repository's programs: every behaviour is *)
(* one of them, and the variables of the others keep their initial values.  *)
(* "queue" is no program but the queue under any use, for the liveness of   *)
(* its calls.                                                               *)
EXTENDS Integers, Sequences, FiniteSets

CONSTANTS Producers, Consumers, Main, ItemsPerProducer, QueueCapacity, \* of QueueDemo
          Threads, Values, max_size_, MaxPushes,                       \* of the open queue
          Producer, ITEMS_PER_CONSUMER, Nodes, NullNode, MaxTag, MaxSpurious, \* of StackDemo
          Processes, runtime, MaxPids,                                 \* of Rocker
          WIDTH, HEIGHT, UINT32_MAX, Background, Lit, MaxEvents,       \* of Framebuffer
          Amount, Data, LIVE, ITERATIONS                               \* of Benchmark

VARIABLES program,
          queue_, done_, not_full_, not_empty_, call, ret, accepted, delivered,
          pc, i, total_produced, total_consumed,
          top, tag_counter, allocated, key, next, spc, old_top, new_top, sret, nodes, spurious,
          fpc, si, local_sum, producer_sum, consumer_sum, verdict,
          parent, child, stack, processes, cgroup, limits, shared, mounts, hostname, root, cwd,
          fbpc, acquired, events, posted, is_running, frame, framebuffer, texture,
          mpc, current, freeListHead_, word, held, granted, result, free, stage, iteration, o, read

queueVars == <<queue_, done_, not_full_, not_empty_, call, ret, accepted, delivered>>
demoVars == <<pc, i, total_produced, total_consumed>>
stackVars == <<top, tag_counter, allocated, key, next, spc, old_top, new_top, sret, nodes,
               spurious, fpc, si, local_sum, producer_sum, consumer_sum, verdict>>
rockerVars == <<parent, child, stack, processes, cgroup, limits, shared, mounts, hostname, root, cwd>>
screenVars == <<fbpc, acquired, events, posted, is_running, frame, framebuffer, texture>>
benchVars == <<mpc, current, freeListHead_, word, held, granted, result, free, stage, iteration, o, read>>
vars == <<program, queueVars, demoVars, stackVars, rockerVars, screenVars, benchVars>>

Queue == INSTANCE ThreadSafeQueue
Demo == INSTANCE QueueDemo
StackRun == INSTANCE StackDemo
            WITH pc <- spc, ret <- sret, i <- si, stack <- nodes, nullptr <- NullNode
Container == INSTANCE Rocker
Screen == INSTANCE Framebuffer WITH pc <- fbpc
Bench == INSTANCE Benchmark WITH pc <- mpc, i <- iteration

ASSUME DemoAssumptions == Demo!DemoAssumption /\ StackRun!StackDemoAssumption
ASSUME ProgramAssumptions == Container!RockerAssumption /\ Screen!FramebufferAssumption /\ Bench!BenchmarkAssumption

Init ==
  /\ program \in {"queue", "queue demo", "stack demo", "rocker", "framebuffer", "benchmark"}
  /\ Demo!Init /\ StackRun!Init /\ Container!Init /\ Screen!Init /\ Bench!Init
  /\ program # "rocker" => ~shared /\ limits = {}
  /\ program # "benchmark" => word = [c \in 1 .. Amount |-> 0]

By(name, A) == program = name /\ A /\ UNCHANGED program
NoQueueStep == UNCHANGED <<queueVars, demoVars>>
NoOtherStep == UNCHANGED <<rockerVars, screenVars, benchVars>>
ByQueue(A) == By("queue", A) /\ UNCHANGED <<demoVars, stackVars>> /\ NoOtherStep
ByDemo(A)  == By("queue demo", A) /\ UNCHANGED stackVars /\ NoOtherStep
ByStack(A) == By("stack demo", A) /\ NoQueueStep /\ NoOtherStep
ByRocker(A) == By("rocker", A) /\ UNCHANGED <<stackVars, screenVars, benchVars>> /\ NoQueueStep
ByScreen(A) == By("framebuffer", A) /\ UNCHANGED <<stackVars, rockerVars, benchVars>> /\ NoQueueStep
ByBench(A) == By("benchmark", A) /\ UNCHANGED <<stackVars, rockerVars, screenVars>> /\ NoQueueStep

Next ==
  \/ ByQueue(Queue!Next) \/ ByDemo(Demo!Next) \/ ByStack(StackRun!Next)
  \/ ByRocker(Container!Next) \/ ByScreen(Screen!Next) \/ ByBench(Bench!Next)

\* The operating system runs every thread again and again, and a mutex is free
\* again after finitely many critical sections.  Nothing is assumed of a
\* container's command nor of the user.
Fairness ==
  /\ \A t \in Threads : WF_vars(ByQueue(Queue!Proceed(t)))
  /\ \A p \in Producers : WF_vars(ByDemo(Demo!ProducerStep(p)))
  /\ \A c \in Consumers : WF_vars(ByDemo(Demo!ConsumerStep(c)))
  /\ WF_vars(ByDemo(Demo!MainStep))
  /\ WF_vars(ByStack(StackRun!ProducerStep))
  /\ \A c \in Consumers : WF_vars(ByStack(StackRun!ConsumerStep(c)))
  /\ WF_vars(ByStack(StackRun!MainChecks))
  /\ WF_vars(ByRocker(Container!ParentStep))
  /\ WF_vars(ByScreen(Screen!Program))

FairSpec == Init /\ [][Next]_vars /\ Fairness
-----------------------------------------------------------------------------
\* Thread_Safe_Queue/main.cpp:53: no consumer leaves while items are to come.
NoConsumerLeavesEarly == Demo!NoConsumerLeavesEarly

\* Lock-free-stack/main.cpp:115: no key is lost or counted twice.
SumIsConserved == StackRun!SumIsConserved

\* What the programs acquire they release, on every path: the stack's nodes,
\* the stack of rocker's child, the resources of SDL.
NothingLeaks == StackRun!NothingLeaks /\ Container!StackIsFreed /\ Screen!ReleasedInOrder

\* rocker/main.cpp:58: the container's mounts stay inside the container.
HostUntouched == Container!HostUntouched

\* sdl-framebuffer/main.c:90: a frame shows nothing of the frames before.
ShowsOnePixel == Screen!ShowsOnePixel

\* MemPool/main.cpp:95: the pool never runs out and keeps the objects apart.
PoolServesBenchmark == Bench!PoolServesBenchmark

\* thread_safe_queue.cpp:81: calls return after shutdown without further help.
ShutdownReleasesCalls == Queue!ShutdownReleasesCalls

\* The demos end with PASS, rocker ends once its container has, and the
\* framebuffer once it is asked to quit.  Each predicate, once false, is false
\* until the program ends, and then true for ever: it holds again and again if
\* and only if the program ends.
ProgramsEnd ==
  []<>(/\ program = "queue demo" => Demo!Passed
       /\ program = "stack demo" => StackRun!Passed
       /\ Container!Awaited
       /\ Screen!Quits)
=============================================================================
