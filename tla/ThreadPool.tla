----------------------------- MODULE ThreadPool -----------------------------
(***************************************************************************)
(* Thread-Pool/main.cpp: worker threads that share one task queue, one     *)
(* mutex and one condition variable, and the thread that owns the pool.    *)
(*                                                                         *)
(* One step is one critical section of queueMutex_, one notify (both are   *)
(* issued after the mutex was released), or a piece of a running task.     *)
(* A task may itself enqueue tasks; only the owner and running tasks can   *)
(* call enqueue while the pool exists.                                     *)
(***************************************************************************)
EXTENDS Integers, Sequences, FiniteSets

CONSTANTS Workers, Owner, \* the threads
          Tasks,          \* every task, each enqueued at most once
          Spawns,         \* Spawns[x]: the tasks that running x enqueues
          NoTask          \* an empty std::function

\* The constructor was given at least one thread.  Tasks stand for the calls
\* of enqueue, and every call is made by one thread in one piece of code.
ASSUME PoolAssumption ==
  /\ IsFiniteSet(Workers) /\ Workers # {} /\ Owner \notin Workers
  /\ Spawns \in [Tasks -> SUBSET Tasks] /\ NoTask \notin Tasks
  /\ \A x, y \in Tasks : x # y => Spawns[x] \cap Spawns[y] = {}

VARIABLES tasks_,     \* the std::queue
          stop_,      \* set by the destructor
          condition_, \* the workers asleep in condition_.wait
          pc,         \* where each thread stands
          task,       \* task[w]: what worker w is running
          spawned,    \* spawned[w]: what that task has enqueued so far
          terminated, \* an exception escaped from a worker: std::terminate
          accepted,   \* history: tasks that entered the queue, in order
          started,    \* history: tasks taken from it, in order
          finished    \* history: tasks that ran to their end

vars == <<tasks_, stop_, condition_, pc, task, spawned, terminated, accepted, started, finished>>

Threads  == Workers \cup {Owner}
OwnerLabels  == {"using", "notify", "notify all", "join", "done"}
WorkerLabels == {"wait", "running", "notify", "exited"}

\* After std::terminate no thread takes a step.
At(t, label)   == pc[t] = label /\ ~terminated
Goto(t, label) == pc' = [pc EXCEPT ![t] = label]
InQueue(x)  == \E n \in 1 .. Len(accepted) : accepted[n] = x
Children    == UNION {Spawns[x] : x \in Tasks}
OwnTasks    == Tasks \ Children \* what the owner enqueues

\* The critical section of an enqueue that does not throw.
Emplace(x) ==
  /\ ~stop_
  /\ tasks_' = Append(tasks_, x)
  /\ accepted' = Append(accepted, x)

\* condition_.notify_one()
NotifyOne_Lost == UNCHANGED condition_

NotifyOne ==
  condition_' \in IF condition_ = {} THEN {{}} ELSE {condition_ \ {w} : w \in condition_}
-----------------------------------------------------------------------------
Init ==
  /\ tasks_ = <<>>
  /\ stop_ = FALSE
  /\ condition_ = {}
  /\ pc = [t \in Threads |-> IF t = Owner THEN "using" ELSE "wait"]
  /\ task = [w \in Workers |-> NoTask]
  /\ spawned = [w \in Workers |-> {}]
  /\ terminated = FALSE
  /\ accepted = <<>> /\ started = <<>> /\ finished = {}

\* The owner calls enqueue; notify_one follows once the mutex is released.
OwnerEnqueues(x) ==
  /\ At(Owner, "using")
  /\ x \in OwnTasks /\ ~InQueue(x)
  /\ Emplace(x)
  /\ Goto(Owner, "notify")
  /\ UNCHANGED <<stop_, condition_, task, spawned, terminated, started, finished>>

OwnerNotifies ==
  /\ At(Owner, "notify")
  /\ NotifyOne
  /\ Goto(Owner, "using")
  /\ UNCHANGED <<tasks_, stop_, task, spawned, terminated, accepted, started, finished>>

\* The destructor: set stop_, notify_all after unlocking, join every worker.
Stop ==
  /\ At(Owner, "using")
  /\ stop_' = TRUE
  /\ Goto(Owner, "notify all")
  /\ UNCHANGED <<tasks_, condition_, task, spawned, terminated, accepted, started, finished>>

NotifyAll_One ==
  /\ At(Owner, "notify all")
  /\ NotifyOne
  /\ Goto(Owner, "join")
  /\ UNCHANGED <<tasks_, stop_, task, spawned, terminated, accepted, started, finished>>

NotifyAll ==
  /\ At(Owner, "notify all")
  /\ condition_' = {}
  /\ Goto(Owner, "join")
  /\ UNCHANGED <<tasks_, stop_, task, spawned, terminated, accepted, started, finished>>

Join ==
  /\ At(Owner, "join")
  /\ \A w \in Workers : pc[w] = "exited"
  /\ Goto(Owner, "done")
  /\ UNCHANGED <<tasks_, stop_, condition_, task, spawned, terminated, accepted, started, finished>>
-----------------------------------------------------------------------------
Awake(w) == At(w, "wait") /\ w \notin condition_

\* The wait predicate stop_ || !tasks_.empty() is false.
Sleep(w) ==
  /\ Awake(w)
  /\ ~stop_ /\ tasks_ = <<>>
  /\ condition_' = condition_ \cup {w}
  /\ UNCHANGED <<tasks_, stop_, pc, task, spawned, terminated, accepted, started, finished>>

Exit_NotDrained(w) ==
  /\ Awake(w)
  /\ stop_
  /\ Goto(w, "exited")
  /\ UNCHANGED <<tasks_, stop_, condition_, task, spawned, terminated, accepted, started, finished>>

Exit(w) ==
  /\ Awake(w)
  /\ stop_ /\ tasks_ = <<>>
  /\ Goto(w, "exited")
  /\ UNCHANGED <<tasks_, stop_, condition_, task, spawned, terminated, accepted, started, finished>>

Take_Back(w) ==
  /\ Awake(w)
  /\ tasks_ # <<>>
  /\ LET x == tasks_[Len(tasks_)]
     IN  task' = [task EXCEPT ![w] = x] /\ started' = Append(started, x)
  /\ tasks_' = SubSeq(tasks_, 1, Len(tasks_) - 1)
  /\ spawned' = [spawned EXCEPT ![w] = {}]
  /\ Goto(w, "running")
  /\ UNCHANGED <<stop_, condition_, terminated, accepted, finished>>

Take(w) ==
  /\ Awake(w)
  /\ tasks_ # <<>>
  /\ task' = [task EXCEPT ![w] = Head(tasks_)]
  /\ started' = Append(started, Head(tasks_))
  /\ tasks_' = Tail(tasks_)
  /\ spawned' = [spawned EXCEPT ![w] = {}]
  /\ Goto(w, "running")
  /\ UNCHANGED <<stop_, condition_, terminated, accepted, finished>>

\* The running task calls enqueue.
TaskEnqueues(w) ==
  /\ At(w, "running")
  /\ \E x \in Spawns[task[w]] \ spawned[w] :
       Emplace(x) /\ spawned' = [spawned EXCEPT ![w] = @ \cup {x}]
  /\ Goto(w, "notify")
  /\ UNCHANGED <<stop_, condition_, task, terminated, started, finished>>

TaskNotifies(w) ==
  /\ At(w, "notify")
  /\ NotifyOne
  /\ Goto(w, "running")
  /\ UNCHANGED <<tasks_, stop_, task, spawned, terminated, accepted, started, finished>>

\* enqueue throws; nothing between the task and the thread catches.
TaskThrows(w) ==
  /\ At(w, "running")
  /\ stop_ /\ Spawns[task[w]] # spawned[w]
  /\ terminated' = TRUE
  /\ UNCHANGED <<tasks_, stop_, condition_, pc, task, spawned, accepted, started, finished>>

TaskEnds_KeepsTask(w) ==
  /\ At(w, "running")
  /\ Spawns[task[w]] = spawned[w]
  /\ finished' = finished \cup {task[w]}
  /\ Goto(w, "wait")
  /\ UNCHANGED <<tasks_, stop_, condition_, task, spawned, terminated, accepted, started>>

TaskEnds(w) ==
  /\ At(w, "running")
  /\ Spawns[task[w]] = spawned[w]
  /\ finished' = finished \cup {task[w]}
  /\ task' = [task EXCEPT ![w] = NoTask]
  /\ Goto(w, "wait")
  /\ UNCHANGED <<tasks_, stop_, condition_, spawned, terminated, accepted, started>>

SpuriousWakeup(w) ==
  /\ ~terminated /\ w \in condition_
  /\ condition_' = condition_ \ {w}
  /\ UNCHANGED <<tasks_, stop_, pc, task, spawned, terminated, accepted, started, finished>>
-----------------------------------------------------------------------------
WorkerStep(w) ==
  \/ Sleep(w) \/ Exit(w) \/ Take(w)
  \/ TaskEnqueues(w) \/ TaskNotifies(w) \/ TaskThrows(w) \/ TaskEnds(w)

DestructorStep == NotifyAll \/ Join

Next ==
  \/ \E x \in Tasks : OwnerEnqueues(x)
  \/ OwnerNotifies \/ Stop \/ DestructorStep
  \/ \E w \in Workers : WorkerStep(w) \/ SpuriousWakeup(w)

\* Workers get the mutex and tasks make progress; the owner finishes what it
\* began, and need not ever begin anything.
Fairness ==
  /\ \A w \in Workers : WF_vars(WorkerStep(w))
  /\ WF_vars(OwnerNotifies \/ DestructorStep)

Spec == Init /\ [][Next]_vars
FairSpec == Spec /\ Fairness
-----------------------------------------------------------------------------
Ready     == {w \in Workers : pc[w] = "wait" /\ w \notin condition_}
Notifying == {t \in Threads : pc[t] = "notify"}
Running   == {w \in Workers : pc[w] \in {"running", "notify"}}

\* Types; only a worker inside wait() sleeps, and a worker has a task exactly
\* while it runs one.
TypeOK ==
  /\ tasks_ \in Seq(Tasks) /\ accepted \in Seq(Tasks) /\ started \in Seq(Tasks)
  /\ finished \subseteq Tasks
  /\ stop_ \in BOOLEAN /\ terminated \in BOOLEAN
  /\ condition_ \subseteq {w \in Workers : pc[w] = "wait"}
  /\ pc \in [Threads -> OwnerLabels \cup WorkerLabels]
  /\ pc[Owner] \in OwnerLabels /\ \A w \in Workers : pc[w] \in WorkerLabels
  /\ task \in [Workers -> Tasks \cup {NoTask}]
  /\ spawned \in [Workers -> SUBSET Tasks]
  /\ \A w \in Workers : w \in Running <=> task[w] # NoTask

\* Tasks start in the order in which they were accepted, each exactly once.
StartedInOrder ==
  /\ accepted = started \o tasks_
  /\ \A m, n \in 1 .. Len(accepted) : m # n => accepted[m] # accepted[n]

\* While a worker sleeps, every queued task is spoken for by a worker that
\* is awake or by a notify_one that is still to come, although both notifies
\* are sent outside the mutex.
NoMissedWakeup ==
  condition_ # {} => Len(tasks_) <= Cardinality(Ready) + Cardinality(Notifying)

\* Nobody sleeps through the destructor: once stop_ is set a worker can only
\* be asleep as long as notify_all is still to come.
NobodySleepsThroughStop == stop_ /\ condition_ # {} => pc[Owner] = "notify all"

\* The order of starting and the absence of sleepers after stop_, in one.
PoolInvariant == TypeOK /\ StartedInOrder /\ NobodySleepsThroughStop

\* When the destructor returns, every worker has exited and every task that
\* was accepted has run to its end ("finish all remaining tasks in the queue
\* before exiting and being joined", README.md:29).
DestructorDrains ==
  pc[Owner] = "done" =>
    /\ \A w \in Workers : pc[w] = "exited"
    /\ finished = {accepted[n] : n \in 1 .. Len(accepted)}

\* The destructor returns, unless a task that enqueues killed the program.
DestructorReturns == stop_ ~> (pc[Owner] = "done" \/ terminated)

\* Every accepted task runs, even if the pool is never destroyed.
AcceptedTasksRun ==
  \A x \in Tasks : InQueue(x) ~> (x \in finished \/ terminated)

\* "Graceful Shutdown" (README.md:29): a shutdown does not abandon tasks that
\* were accepted.
GracefulShutdown ==
  terminated => finished = {accepted[n] : n \in 1 .. Len(accepted)}
=============================================================================
