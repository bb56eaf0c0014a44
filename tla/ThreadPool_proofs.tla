-------------------------- MODULE ThreadPool_proofs --------------------------
(***************************************************************************)
(* Proofs about ThreadPool, for any number of workers, any set of tasks    *)
(* and any choice of which task enqueues which.                            *)
(***************************************************************************)
EXTENDS ThreadPool, SequenceTheorems, FiniteSetTheorems, TLAPS

-----------------------------------------------------------------------------
(* The inductive invariant: what else is true of every state.                *)

\* The tasks that have been taken are those that have ended and those that
\* run, and no two workers run the same.
TakenIsRunOrRunning ==
  /\ Range(started) = finished \cup {task[w] : w \in Running}
  /\ \A w \in Running : task[w] \notin finished
  /\ \A v, w \in Running : v # w => task[v] # task[w]

\* Who enqueued what: an accepted task is the owner's, or that of a task that
\* has ended, or of one that runs and remembers it.
EveryTaskHasAnOrigin ==
  \A x \in Range(accepted) :
    \/ x \in OwnTasks
    \/ \E y \in finished : x \in Spawns[y]
    \/ \E w \in Running : x \in Spawns[task[w]] /\ x \in spawned[w]

\* A worker leaves for good: the pool is stopped and the queue empty, and both
\* stay so because enqueue refuses every task.
LeavingIsFinal ==
  /\ (\E w \in Workers : pc[w] = "exited") => stop_ /\ tasks_ = <<>>
  /\ pc[Owner] = "done" => \A w \in Workers : pc[w] = "exited"
-----------------------------------------------------------------------------
(* What the helpers of the module return.                                    *)

\* notify_one never puts a worker to sleep, and wakes one if one sleeps.
LEMMA NotifyOneWakes ==
  ASSUME NotifyOne
  PROVE  \/ condition_ = {} /\ condition_' = {}
         \/ \E w \in condition_ : condition_' = condition_ \ {w}
BY DEF NotifyOne

\* The first task of a queue is one of it, and what remains are the others.
LEMMA HeadOfQueue ==
  ASSUME NEW S, NEW q \in Seq(S), q # <<>>
  PROVE  Head(q) = q[1] /\ Head(q) \in S /\ Tail(q) \in Seq(S) /\ q = <<Head(q)>> \o Tail(q)
<1>1. Head(q) \in S /\ Tail(q) \in Seq(S) /\ Len(q) \in Nat \ {0}
  BY HeadTailProperties, EmptySeq
<1>2. SubSeq(q, 1, Len(q)) = <<q[1]>> \o SubSeq(q, 2, Len(q))
  BY <1>1, SubSeqRecursiveFirst
<1>3. SubSeq(q, 1, Len(q)) = q /\ Tail(q) = SubSeq(q, 2, Len(q)) /\ Head(q) = q[1]
  BY SubSeqFull, TailIsSubSeq
<1> QED BY <1>1, <1>2, <1>3

\* The elements of a sequence after one more was appended.
LEMMA RangeOfAppend ==
  ASSUME NEW S, NEW s \in Seq(S), NEW e \in S
  PROVE  Range(Append(s, e)) = Range(s) \cup {e}
<1>1. /\ Append(s, e) \in Seq(S) /\ Len(Append(s, e)) = Len(s) + 1 /\ Len(s) \in Nat
      /\ \A i \in 1 .. Len(s) : Append(s, e)[i] = s[i]
      /\ Append(s, e)[Len(s) + 1] = e
  BY AppendProperties, LenProperties
<1>2. Range(s) = {s[i] : i \in 1 .. Len(s)}
  BY RangeEquality
<1>3. Range(Append(s, e)) = {Append(s, e)[i] : i \in 1 .. Len(s) + 1}
  BY <1>1, RangeEquality
<1>4. 1 .. Len(s) + 1 = (1 .. Len(s)) \cup {Len(s) + 1}
  BY <1>1
<1> QED BY <1>1, <1>2, <1>3, <1>4

\* Owner and workers are different threads.
LEMMA OwnerIsNoWorker ==
  Owner \in Threads /\ \A w \in Workers : w \in Threads /\ w # Owner
BY PoolAssumption DEF Threads
-----------------------------------------------------------------------------
(* Type correctness.                                                         *)

LEMMA InitTypeOK == Init => TypeOK
<1> SUFFICES ASSUME Init PROVE TypeOK
  OBVIOUS
<1>1. <<>> \in Seq(Tasks)
  BY EmptySeq
<1> QED
  BY <1>1, OwnerIsNoWorker, PoolAssumption
     DEF Init, TypeOK, Running, OwnerLabels, WorkerLabels

\* One step of the owner, and one of a worker.
LEMMA OwnerTypeOK ==
  ASSUME TypeOK,
         OwnerNotifies \/ Stop \/ DestructorStep \/ \E x \in Tasks : OwnerEnqueues(x)
  PROVE  TypeOK'
<1> USE OwnerIsNoWorker, PoolAssumption DEF TypeOK, At, Goto, Running, OwnerLabels, WorkerLabels
<1>1. ASSUME NEW x \in Tasks, OwnerEnqueues(x) PROVE TypeOK'
  <2>1. tasks_' \in Seq(Tasks) /\ accepted' \in Seq(Tasks)
    BY <1>1, AppendProperties DEF OwnerEnqueues, Emplace
  <2> QED BY <1>1, <2>1 DEF OwnerEnqueues, Emplace
<1>2. CASE OwnerNotifies
  BY <1>2, NotifyOneWakes DEF OwnerNotifies
<1>3. CASE Stop
  BY <1>3 DEF Stop
<1>4. CASE NotifyAll
  BY <1>4 DEF NotifyAll
<1>5. CASE Join
  BY <1>5 DEF Join
<1> QED BY <1>1, <1>2, <1>3, <1>4, <1>5 DEF DestructorStep

LEMMA WorkerTypeOK ==
  ASSUME TypeOK, NEW w \in Workers, WorkerStep(w) \/ SpuriousWakeup(w)
  PROVE  TypeOK'
<1> USE OwnerIsNoWorker, PoolAssumption
    DEF TypeOK, At, Awake, Goto, Running, OwnerLabels, WorkerLabels
<1>1. CASE Sleep(w)
  BY <1>1 DEF Sleep
<1>2. CASE Exit(w)
  BY <1>2 DEF Exit
<1>3. CASE Take(w)
  <2>1. Head(tasks_) \in Tasks /\ tasks_' \in Seq(Tasks) /\ started' \in Seq(Tasks)
    BY <1>3, HeadOfQueue, AppendProperties DEF Take
  <2> QED BY <1>3, <2>1 DEF Take
<1>4. CASE TaskEnqueues(w)
  <2>1. task[w] \in Tasks
    BY <1>4 DEF TaskEnqueues
  <2>2. PICK x \in Spawns[task[w]] : Emplace(x) /\ spawned' = [spawned EXCEPT ![w] = @ \cup {x}]
    BY <1>4 DEF TaskEnqueues
  <2>3. x \in Tasks
    BY <2>1, <2>2
  <2>4. tasks_' \in Seq(Tasks) /\ accepted' \in Seq(Tasks)
    BY <2>2, <2>3, AppendProperties DEF Emplace
  <2> QED BY <1>4, <2>1, <2>2, <2>3, <2>4 DEF TaskEnqueues
<1>5. CASE TaskNotifies(w)
  BY <1>5, NotifyOneWakes DEF TaskNotifies
<1>6. CASE TaskThrows(w)
  BY <1>6 DEF TaskThrows
<1>7. CASE TaskEnds(w)
  BY <1>7 DEF TaskEnds
<1>8. CASE SpuriousWakeup(w)
  BY <1>8 DEF SpuriousWakeup
<1> QED BY <1>1, <1>2, <1>3, <1>4, <1>5, <1>6, <1>7, <1>8 DEF WorkerStep

LEMMA NextTypeOK == TypeOK /\ [Next]_vars => TypeOK'
<1> SUFFICES ASSUME TypeOK, [Next]_vars PROVE TypeOK'
  OBVIOUS
<1>1. CASE UNCHANGED vars
  BY <1>1 DEF vars, TypeOK, Running
<1> QED BY <1>1, OwnerTypeOK, WorkerTypeOK DEF Next

\* A worker has a task exactly while it runs one, and only workers inside
\* wait() sleep on the condition variable.
THEOREM TypeCorrect == Spec => []TypeOK
BY InitTypeOK, NextTypeOK, PTL DEF Spec
-----------------------------------------------------------------------------
(* The order of the tasks.                                                   *)

\* A task that was not yet accepted goes to the back of the queue.
LEMMA EmplaceKeepsOrder ==
  ASSUME TypeOK, StartedInOrder,
         NEW x \in Tasks, Emplace(x), x \notin Range(accepted), UNCHANGED started
  PROVE  StartedInOrder' /\ Range(accepted') = Range(accepted) \cup {x}
<1> USE DEF TypeOK, Emplace
<1>1. Range(accepted') = Range(accepted) \cup {x}
  BY RangeOfAppend
<1>2. accepted' = started' \o tasks_'
  <2>1. <<x>> \in Seq(Tasks)
    OBVIOUS
  <2>2. accepted' = accepted \o <<x>> /\ tasks_' = tasks_ \o <<x>>
    BY AppendIsConcat
  <2> QED BY <2>1, <2>2, ConcatAssociative DEF StartedInOrder
<1>3. ASSUME NEW m \in 1 .. Len(accepted'), NEW n \in 1 .. Len(accepted'), m # n
      PROVE  accepted'[m] # accepted'[n]
  <2>1. /\ Len(accepted) \in Nat /\ Len(accepted') = Len(accepted) + 1
        /\ \A k \in 1 .. Len(accepted) : accepted'[k] = accepted[k]
        /\ accepted'[Len(accepted) + 1] = x
    BY AppendProperties, LenProperties
  <2>2. \A k \in 1 .. Len(accepted) : accepted'[k] # x
    BY <2>1, RangeEquality
  <2>3. CASE m \in 1 .. Len(accepted) /\ n \in 1 .. Len(accepted)
    <3>1. accepted'[m] = accepted[m] /\ accepted'[n] = accepted[n]
      BY <2>1, <2>3
    <3> QED BY <1>3, <2>3, <3>1 DEF StartedInOrder
  <2>4. CASE m = Len(accepted) + 1 \/ n = Len(accepted) + 1
    BY <1>3, <2>1, <2>2, <2>4
  <2> QED BY <2>1, <2>3, <2>4
<1> QED BY <1>1, <1>2, <1>3 DEF StartedInOrder

\* The front of the queue is taken for the first time, and its place in the
\* order of acceptance is the next.
LEMMA TakeKeepsOrder ==
  ASSUME TypeOK, StartedInOrder, NEW w \in Workers, Take(w)
  PROVE  /\ StartedInOrder'
         /\ Head(tasks_) \in Tasks /\ Head(tasks_) \notin Range(started)
         /\ Range(started') = Range(started) \cup {Head(tasks_)}
<1> DEFINE h == Head(tasks_)
<1> USE DEF TypeOK
<1>1. h \in Tasks /\ tasks_' \in Seq(Tasks) /\ tasks_ = <<h>> \o tasks_' /\ <<h>> \in Seq(Tasks)
  BY HeadOfQueue DEF Take
<1>2. accepted' = started' \o tasks_'
  <2>1. started' = started \o <<h>>
    BY <1>1, AppendIsConcat DEF Take
  <2> QED BY <1>1, <2>1, ConcatAssociative DEF Take, StartedInOrder
<1>3. h \notin Range(started)
  <2>1. /\ Len(started) \in Nat /\ Len(tasks_) \in Nat \ {0}
        /\ Len(accepted) = Len(started) + Len(tasks_)
        /\ \A n \in 1 .. Len(started) + Len(tasks_) :
             accepted[n] = IF n <= Len(started) THEN started[n] ELSE tasks_[n - Len(started)]
    BY ConcatProperties, LenProperties, EmptySeq DEF Take, StartedInOrder
  <2>2. accepted[Len(started) + 1] = h
    <3>1. h = tasks_[1]
      BY HeadOfQueue, <1>1 DEF Take
    <3>2. /\ Len(started) + 1 \in 1 .. Len(started) + Len(tasks_)
          /\ ~(Len(started) + 1 <= Len(started)) /\ (Len(started) + 1) - Len(started) = 1
      BY <2>1
    <3> HIDE DEF h
    <3> QED BY <2>1, <3>1, <3>2
  <2>3. \A n \in 1 .. Len(started) : started[n] # h
    BY <2>1, <2>2 DEF StartedInOrder
  <2> QED BY <2>3, RangeEquality
<1>4. Range(started') = Range(started) \cup {h}
  BY <1>1, RangeOfAppend DEF Take
<1> QED BY <1>1, <1>2, <1>3, <1>4 DEF Take, StartedInOrder

\* What the owner enqueues is new by the guard of the model's owner; what a
\* running task enqueues is new because nobody else enqueues it, the task
\* runs once, and it remembers what it has enqueued.
LEMMA EnqueuedIsNew ==
  ASSUME TypeOK, TakenIsRunOrRunning, EveryTaskHasAnOrigin,
         NEW w \in Workers, At(w, "running"), NEW x \in Spawns[task[w]] \ spawned[w]
  PROVE  x \in Tasks /\ x \notin Range(accepted)
<1>1. task[w] \in Tasks /\ w \in Running
  BY PoolAssumption DEF TypeOK, At, Running
<1>2. x \in Tasks /\ x \notin OwnTasks
  BY <1>1, PoolAssumption DEF OwnTasks, Children
<1>3. ASSUME NEW y \in Tasks, x \in Spawns[y] PROVE y = task[w]
  BY <1>1, <1>3, PoolAssumption
<1>4. ASSUME NEW y \in finished PROVE x \notin Spawns[y]
  BY <1>1, <1>3, <1>4 DEF TypeOK, TakenIsRunOrRunning
<1>5. ASSUME NEW v \in Running, x \in Spawns[task[v]] PROVE x \notin spawned[v]
  <2>1. task[v] \in Tasks
    BY DEF TypeOK, Running
  <2> QED BY <1>1, <1>3, <1>5, <2>1 DEF TakenIsRunOrRunning
<1> QED BY <1>2, <1>4, <1>5 DEF EveryTaskHasAnOrigin
-----------------------------------------------------------------------------
(* Every step preserves the inductive invariant.                             *)

Invariant ==
  /\ TypeOK /\ StartedInOrder /\ NobodySleepsThroughStop
  /\ TakenIsRunOrRunning /\ EveryTaskHasAnOrigin /\ LeavingIsFinal

LEMMA InitInvariant == Init => Invariant
<1> SUFFICES ASSUME Init PROVE Invariant
  OBVIOUS
<1>1. Range(<<>>) = {} /\ <<>> \o <<>> = <<>> /\ Len(<<>>) = 0
  <2>1. <<>> \in Seq({}) /\ Len(<<>>) = 0
    BY EmptySeq
  <2>2. Range(<<>>) \in SUBSET {}
    BY <2>1, RangeOfSeq
  <2> QED BY <2>1, <2>2, ConcatEmptySeq
<1>2. Running = {} /\ \A w \in Workers : pc[w] = "wait"
  BY OwnerIsNoWorker DEF Init, Running
<1>3. pc[Owner] = "using"
  BY OwnerIsNoWorker DEF Init
<1>4. StartedInOrder
  BY <1>1 DEF Init, StartedInOrder
<1>5. TakenIsRunOrRunning /\ EveryTaskHasAnOrigin
  BY <1>1, <1>2 DEF Init, TakenIsRunOrRunning, EveryTaskHasAnOrigin
<1>6. NobodySleepsThroughStop /\ LeavingIsFinal
  BY <1>2, <1>3 DEF Init, NobodySleepsThroughStop, LeavingIsFinal
<1> QED BY <1>4, <1>5, <1>6, InitTypeOK DEF Invariant

\* A step that takes, ends and enqueues nothing leaves the order alone.
LEMMA QuietOrder ==
  ASSUME StartedInOrder, TakenIsRunOrRunning, EveryTaskHasAnOrigin,
         UNCHANGED <<tasks_, accepted, started, finished, task, spawned>>, Running' = Running
  PROVE  StartedInOrder' /\ TakenIsRunOrRunning' /\ EveryTaskHasAnOrigin'
BY DEF StartedInOrder, TakenIsRunOrRunning, EveryTaskHasAnOrigin

\* The order of the tasks and where they come from, step by step.
LEMMA NextOrder ==
  ASSUME Invariant, Next
  PROVE  StartedInOrder' /\ TakenIsRunOrRunning' /\ EveryTaskHasAnOrigin'
<1> USE OwnerIsNoWorker DEF Invariant, At, Awake, Goto
<1>1. ASSUME NEW x \in Tasks, OwnerEnqueues(x)
      PROVE  StartedInOrder' /\ TakenIsRunOrRunning' /\ EveryTaskHasAnOrigin'
  <2>1. x \notin Range(accepted) /\ Emplace(x) /\ UNCHANGED started
    BY <1>1, RangeEquality DEF OwnerEnqueues, InQueue, TypeOK
  <2>2. StartedInOrder' /\ Range(accepted') = Range(accepted) \cup {x}
    BY <2>1, EmplaceKeepsOrder
  <2>3. Running' = Running
    BY <1>1 DEF OwnerEnqueues, TypeOK, Running
  <2>4. TakenIsRunOrRunning'
    BY <1>1, <2>3 DEF OwnerEnqueues, TakenIsRunOrRunning
  <2>5. EveryTaskHasAnOrigin'
    BY <1>1, <2>2, <2>3 DEF OwnerEnqueues, EveryTaskHasAnOrigin
  <2> QED BY <2>2, <2>4, <2>5
<1>2. CASE OwnerNotifies \/ Stop \/ DestructorStep
  <2>1. UNCHANGED <<tasks_, accepted, started, finished, task, spawned>>
    BY <1>2 DEF OwnerNotifies, Stop, DestructorStep, NotifyAll, Join
  <2>2. Running' = Running
    BY <1>2 DEF OwnerNotifies, Stop, DestructorStep, NotifyAll, Join, TypeOK, Running
  <2> QED BY <2>1, <2>2, QuietOrder
<1>3. ASSUME NEW w \in Workers, Take(w)
      PROVE  StartedInOrder' /\ TakenIsRunOrRunning' /\ EveryTaskHasAnOrigin'
  <2> DEFINE h == Head(tasks_)
  <2>1. /\ StartedInOrder' /\ h \in Tasks /\ h \notin Range(started)
        /\ Range(started') = Range(started) \cup {h}
    BY <1>3, TakeKeepsOrder
  <2>2. w \notin Running /\ Running' = Running \cup {w}
    BY <1>3 DEF Take, TypeOK, Running
  <2>3. task'[w] = h /\ \A v \in Running : task'[v] = task[v] /\ spawned'[v] = spawned[v]
    BY <1>3, <2>2 DEF Take, TypeOK, Running
  <2>4. {task'[v] : v \in Running'} = {task[v] : v \in Running} \cup {h}
    BY <2>2, <2>3
  <2>5. TakenIsRunOrRunning'
    BY <1>3, <2>1, <2>2, <2>3, <2>4 DEF Take, TakenIsRunOrRunning
  <2>6. EveryTaskHasAnOrigin'
    BY <1>3, <2>2, <2>3 DEF Take, EveryTaskHasAnOrigin
  <2> QED BY <2>1, <2>5, <2>6
<1>4. ASSUME NEW w \in Workers, TaskEnqueues(w)
      PROVE  StartedInOrder' /\ TakenIsRunOrRunning' /\ EveryTaskHasAnOrigin'
  <2>1. PICK x \in Spawns[task[w]] \ spawned[w] :
             Emplace(x) /\ spawned' = [spawned EXCEPT ![w] = @ \cup {x}]
    BY <1>4 DEF TaskEnqueues
  <2>2. x \in Tasks /\ x \notin Range(accepted)
    BY <1>4, EnqueuedIsNew DEF TaskEnqueues
  <2>3. StartedInOrder' /\ Range(accepted') = Range(accepted) \cup {x}
    BY <1>4, <2>1, <2>2, EmplaceKeepsOrder DEF TaskEnqueues
  <2>4. Running' = Running /\ w \in Running
    BY <1>4 DEF TaskEnqueues, TypeOK, Running
  <2>5. TakenIsRunOrRunning'
    BY <1>4, <2>4 DEF TaskEnqueues, TakenIsRunOrRunning
  <2>6. x \in spawned'[w] /\ \A v \in Workers : spawned[v] \subseteq spawned'[v]
    BY <2>1 DEF TypeOK
  <2>7. EveryTaskHasAnOrigin'
    BY <1>4, <2>1, <2>3, <2>4, <2>6 DEF TaskEnqueues, EveryTaskHasAnOrigin, Running
  <2> QED BY <2>3, <2>5, <2>7
<1>5. ASSUME NEW w \in Workers, TaskEnds(w)
      PROVE  StartedInOrder' /\ TakenIsRunOrRunning' /\ EveryTaskHasAnOrigin'
  <2>1. w \in Running /\ Running' = Running \ {w}
    BY <1>5 DEF TaskEnds, TypeOK, Running
  <2>2. \A v \in Running' : task'[v] = task[v]
    BY <1>5, <2>1 DEF TaskEnds, TypeOK, Running
  <2>3. {task[v] : v \in Running} = {task'[v] : v \in Running'} \cup {task[w]}
    BY <2>1, <2>2
  <2>4. TakenIsRunOrRunning'
    BY <1>5, <2>1, <2>2, <2>3 DEF TaskEnds, TakenIsRunOrRunning
  <2>5. EveryTaskHasAnOrigin'
    BY <1>5, <2>1, <2>2 DEF TaskEnds, EveryTaskHasAnOrigin
  <2>6. StartedInOrder'
    BY <1>5 DEF TaskEnds, StartedInOrder
  <2> QED BY <2>4, <2>5, <2>6
<1>6. ASSUME NEW w \in Workers,
             Sleep(w) \/ Exit(w) \/ TaskNotifies(w) \/ TaskThrows(w) \/ SpuriousWakeup(w)
      PROVE  StartedInOrder' /\ TakenIsRunOrRunning' /\ EveryTaskHasAnOrigin'
  <2>1. UNCHANGED <<tasks_, accepted, started, finished, task, spawned>>
    BY <1>6 DEF Sleep, Exit, TaskNotifies, TaskThrows, SpuriousWakeup
  <2>2. Running' = Running
    BY <1>6 DEF Sleep, Exit, TaskNotifies, TaskThrows, SpuriousWakeup, TypeOK, Running
  <2> QED BY <2>1, <2>2, QuietOrder
<1> QED BY <1>1, <1>2, <1>3, <1>4, <1>5, <1>6 DEF Next, WorkerStep

\* Once stopped the pool accepts nothing; nobody goes to sleep, and whoever
\* has left has left an empty queue.
LEMMA NextStop ==
  ASSUME Invariant, Next
  PROVE  NobodySleepsThroughStop' /\ LeavingIsFinal'
<1> USE OwnerIsNoWorker
    DEF Invariant, NobodySleepsThroughStop, LeavingIsFinal, At, Awake, Goto
<1>1. ASSUME NEW x \in Tasks, OwnerEnqueues(x)
      PROVE  NobodySleepsThroughStop' /\ LeavingIsFinal'
  BY <1>1 DEF OwnerEnqueues, Emplace, TypeOK
<1>2. CASE OwnerNotifies
  BY <1>2, NotifyOneWakes DEF OwnerNotifies, TypeOK
<1>3. CASE Stop
  BY <1>3 DEF Stop, TypeOK
<1>4. CASE NotifyAll
  BY <1>4 DEF NotifyAll, TypeOK
<1>5. CASE Join
  BY <1>5 DEF Join, TypeOK
<1>6. ASSUME NEW w \in Workers, WorkerStep(w) \/ SpuriousWakeup(w)
      PROVE  NobodySleepsThroughStop' /\ LeavingIsFinal'
  <2>1. CASE Sleep(w)
    BY <2>1 DEF Sleep
  <2>2. CASE SpuriousWakeup(w)
    BY <2>2 DEF SpuriousWakeup
  <2>3. CASE Exit(w)
    BY <2>3 DEF Exit, TypeOK
  <2>4. CASE Take(w)
    BY <2>4 DEF Take, TypeOK
  <2>5. CASE TaskEnqueues(w)
    BY <2>5 DEF TaskEnqueues, Emplace, TypeOK
  <2>6. CASE TaskNotifies(w)
    BY <2>6, NotifyOneWakes DEF TaskNotifies, TypeOK
  <2>7. CASE TaskThrows(w)
    BY <2>7 DEF TaskThrows
  <2>8. CASE TaskEnds(w)
    BY <2>8 DEF TaskEnds, TypeOK
  <2> QED BY <1>6, <2>1, <2>2, <2>3, <2>4, <2>5, <2>6, <2>7, <2>8 DEF WorkerStep
<1> QED BY <1>1, <1>2, <1>3, <1>4, <1>5, <1>6 DEF Next, DestructorStep

LEMMA NextInvariant == Invariant /\ [Next]_vars => Invariant'
<1> SUFFICES ASSUME Invariant, [Next]_vars PROVE Invariant'
  OBVIOUS
<1>1. CASE UNCHANGED vars
  <2>1. Running' = Running
    BY <1>1 DEF vars, Running
  <2>2. StartedInOrder' /\ TakenIsRunOrRunning' /\ EveryTaskHasAnOrigin'
    BY <1>1, <2>1, QuietOrder DEF Invariant, vars
  <2>3. NobodySleepsThroughStop' /\ LeavingIsFinal'
    BY <1>1 DEF Invariant, vars, NobodySleepsThroughStop, LeavingIsFinal
  <2> QED BY <2>2, <2>3, NextTypeOK DEF Invariant
<1>2. CASE Next
  BY <1>2, NextTypeOK, NextOrder, NextStop DEF Invariant
<1> QED BY <1>1, <1>2

LEMMA InvariantHolds == Spec => []Invariant
BY InitInvariant, NextInvariant, PTL DEF Spec

\* Tasks start in the order in which they were accepted and each exactly
\* once, whoever enqueues them; and nobody sleeps through the destructor.
THEOREM PoolInvariantHolds == Spec => []PoolInvariant
<1>1. Invariant => PoolInvariant
  BY DEF Invariant, PoolInvariant
<1> QED BY <1>1, InvariantHolds, PTL

\* When the destructor returns every worker has left, and every task that
\* enqueue accepted has run to its end.
THEOREM TheDestructorDrains == Spec => []DestructorDrains
<1>1. Invariant => DestructorDrains
  <2> SUFFICES ASSUME Invariant, pc[Owner] = "done"
               PROVE  /\ \A w \in Workers : pc[w] = "exited"
                      /\ finished = {accepted[n] : n \in 1 .. Len(accepted)}
    BY DEF DestructorDrains
  <2> USE DEF Invariant
  <2>1. \A w \in Workers : pc[w] = "exited"
    BY DEF LeavingIsFinal
  <2>2. tasks_ = <<>> /\ Running = {}
    BY <2>1, PoolAssumption DEF LeavingIsFinal, Running
  <2>3. accepted = started
    BY <2>2, ConcatEmptySeq DEF StartedInOrder, TypeOK
  <2>4. Range(started) = finished
    BY <2>2 DEF TakenIsRunOrRunning
  <2> QED BY <2>1, <2>3, <2>4, RangeEquality DEF TypeOK
<1> QED BY <1>1, InvariantHolds, PTL
-----------------------------------------------------------------------------
(* No missed wakeup.                                                         *)

\* What NoMissedWakeup counts: the workers about to test the predicate and the
\* threads about to notify.
Witnesses == Cardinality(Ready) + Cardinality(Notifying)

\* The cardinalities of sets of threads.
LEMMA CountThreads ==
  ASSUME NEW A \in SUBSET Threads
  PROVE  /\ Cardinality(A) \in Nat
         /\ \A t \in Threads : t \in A => Cardinality(A \ {t}) = Cardinality(A) - 1
         /\ \A t \in Threads : t \notin A => Cardinality(A \cup {t}) = Cardinality(A) + 1
<1>1. IsFiniteSet(Threads)
  BY PoolAssumption, FS_AddElement DEF Threads
<1>2. IsFiniteSet(A)
  BY <1>1, FS_Subset
<1> QED BY <1>2, FS_CardinalityType, FS_RemoveElement, FS_AddElement

LEMMA WitnessesAreThreads ==
  /\ Ready \in SUBSET Threads /\ Ready' \in SUBSET Threads
  /\ Notifying \in SUBSET Threads /\ Notifying' \in SUBSET Threads
BY DEF Ready, Notifying, Threads

\* A step that grows the queue by no more than it adds witnesses, and puts
\* nobody to sleep, misses no wakeup.
LEMMA EnoughWitnesses ==
  ASSUME NoMissedWakeup, condition_' # {} => condition_ # {},
         Len(tasks_) \in Nat, Len(tasks_') \in Nat,
         Witnesses \in Nat, Witnesses' \in Nat,
         condition_' # {} => Len(tasks_') - Len(tasks_) <= Witnesses' - Witnesses
  PROVE  NoMissedWakeup'
BY DEF NoMissedWakeup, Witnesses

\* notify_one, sent by t: one witness is spent, and if anybody still sleeps
\* afterwards, another has come in its place.
LEMMA NotifyKeepsWitnesses ==
  ASSUME TypeOK, NEW t \in Threads, pc[t] = "notify", NotifyOne, condition_' # {},
         pc'[t] \notin {"notify", "wait"}, \A u \in Threads \ {t} : pc'[u] = pc[u]
  PROVE  condition_ # {} /\ Witnesses' = Witnesses
<1>1. PICK w \in condition_ : condition_' = condition_ \ {w}
  BY NotifyOneWakes
<1>2. w \in Workers /\ pc[w] = "wait" /\ w # t /\ w \in Threads
  BY OwnerIsNoWorker DEF TypeOK
<1>3. w \notin Ready /\ Ready' = Ready \cup {w}
  BY <1>1, <1>2, OwnerIsNoWorker DEF Ready, TypeOK
<1>4. t \in Notifying /\ Notifying' = Notifying \ {t}
  BY OwnerIsNoWorker DEF Notifying, TypeOK
<1> QED BY <1>2, <1>3, <1>4, CountThreads, WitnessesAreThreads DEF Witnesses

LEMMA NextNoMissedWakeup ==
  TypeOK /\ NoMissedWakeup /\ [Next]_vars => NoMissedWakeup'
<1> SUFFICES ASSUME TypeOK, NoMissedWakeup, [Next]_vars PROVE NoMissedWakeup'
  OBVIOUS
<1>0. /\ Len(tasks_) \in Nat /\ Len(tasks_') \in Nat
      /\ Witnesses \in Nat /\ Witnesses' \in Nat
  <2>1. tasks_ \in Seq(Tasks) /\ tasks_' \in Seq(Tasks)
    BY NextTypeOK DEF TypeOK
  <2> QED BY <2>1, LenProperties, CountThreads, WitnessesAreThreads DEF Witnesses
<1> USE OwnerIsNoWorker DEF At, Awake, Goto
<1>1. ASSUME NEW x \in Tasks, NEW t \in Threads, Emplace(x), pc[t] # "notify", pc[t] # "wait",
             pc' = [pc EXCEPT ![t] = "notify"], UNCHANGED condition_
      PROVE  NoMissedWakeup'
  <2>1. Len(tasks_') = Len(tasks_) + 1
    BY <1>1, AppendProperties DEF Emplace, TypeOK
  <2>2. Ready' = Ready
    BY <1>1 DEF Ready, TypeOK
  <2>3. t \notin Notifying /\ Notifying' = Notifying \cup {t}
    BY <1>1 DEF Notifying, TypeOK
  <2>4. Witnesses' = Witnesses + 1
    BY <2>2, <2>3, CountThreads, WitnessesAreThreads DEF Witnesses
  <2> QED BY <1>0, <1>1, <2>1, <2>4, EnoughWitnesses
<1>2. ASSUME NEW x \in Tasks, OwnerEnqueues(x) PROVE NoMissedWakeup'
  BY <1>1, <1>2 DEF OwnerEnqueues
<1>3. CASE OwnerNotifies
  <2>1. CASE condition_' = {}
    BY <2>1 DEF NoMissedWakeup
  <2>2. CASE condition_' # {}
    <3>1. condition_ # {} /\ Witnesses' = Witnesses
      BY <1>3, <2>2, NotifyKeepsWitnesses DEF OwnerNotifies, TypeOK
    <3>2. Len(tasks_') - Len(tasks_) = 0 /\ Witnesses' - Witnesses = 0
      BY <1>0, <1>3, <3>1 DEF OwnerNotifies
    <3> QED BY <1>0, <3>1, <3>2, EnoughWitnesses
  <2> QED BY <2>1, <2>2
<1>4. CASE Stop \/ Join
  <2>1. Ready' = Ready /\ Notifying' = Notifying /\ UNCHANGED <<condition_, tasks_>>
    BY <1>4 DEF Stop, Join, Ready, Notifying, TypeOK
  <2>2. Witnesses' = Witnesses
    BY <2>1 DEF Witnesses
  <2> QED BY <1>0, <2>1, <2>2, EnoughWitnesses
<1>5. CASE NotifyAll
  BY <1>5 DEF NotifyAll, NoMissedWakeup
<1>6. ASSUME NEW w \in Workers, WorkerStep(w) \/ SpuriousWakeup(w) PROVE NoMissedWakeup'
  <2>1. CASE Sleep(w) \/ Exit(w)
    <3>1. Len(tasks_') = 0
      BY <2>1, EmptySeq DEF Sleep, Exit
    <3> QED BY <1>0, <3>1 DEF NoMissedWakeup, Witnesses
  <2>2. CASE Take(w)
    <3>1. Len(tasks_') = Len(tasks_) - 1 /\ UNCHANGED condition_
      BY <2>2, HeadTailProperties DEF Take, TypeOK
    <3>2. w \in Ready /\ Ready' = Ready \ {w} /\ Notifying' = Notifying
      BY <2>2 DEF Take, Ready, Notifying, TypeOK
    <3>3. Witnesses' = Witnesses - 1
      BY <3>2, CountThreads, WitnessesAreThreads DEF Witnesses
    <3> QED BY <1>0, <3>1, <3>3, EnoughWitnesses
  <2>3. CASE TaskEnqueues(w)
    <3>1. PICK x \in Tasks : Emplace(x)
      <4>1. task[w] \in Tasks
        BY <2>3, PoolAssumption DEF TaskEnqueues, TypeOK, Running
      <4> QED BY <2>3, <4>1, PoolAssumption DEF TaskEnqueues
    <3> QED BY <1>1, <2>3, <3>1 DEF TaskEnqueues
  <2>4. CASE TaskNotifies(w)
    <3>1. CASE condition_' = {}
      BY <3>1 DEF NoMissedWakeup
    <3>2. CASE condition_' # {}
      <4>1. condition_ # {} /\ Witnesses' = Witnesses
        BY <2>4, <3>2, NotifyKeepsWitnesses DEF TaskNotifies, TypeOK
      <4>2. Len(tasks_') - Len(tasks_) = 0 /\ Witnesses' - Witnesses = 0
        BY <1>0, <2>4, <4>1 DEF TaskNotifies
      <4> QED BY <1>0, <4>1, <4>2, EnoughWitnesses
    <3> QED BY <3>1, <3>2
  <2>5. CASE TaskThrows(w)
    BY <2>5 DEF TaskThrows, NoMissedWakeup, Ready, Notifying
  <2>6. CASE TaskEnds(w) \/ SpuriousWakeup(w)
    <3>1. w \notin Ready /\ Ready' = Ready \cup {w} /\ Notifying' = Notifying
      BY <2>6 DEF TaskEnds, SpuriousWakeup, Ready, Notifying, TypeOK
    <3>2. Witnesses' = Witnesses + 1
      BY <3>1, CountThreads, WitnessesAreThreads DEF Witnesses
    <3>3. UNCHANGED tasks_ /\ condition_' \subseteq condition_
      BY <2>6 DEF TaskEnds, SpuriousWakeup
    <3> QED BY <1>0, <3>2, <3>3, EnoughWitnesses
  <2> QED BY <1>6, <2>1, <2>2, <2>3, <2>4, <2>5, <2>6 DEF WorkerStep
<1>7. CASE UNCHANGED vars
  BY <1>7 DEF vars, NoMissedWakeup, Ready, Notifying
<1> QED BY <1>2, <1>3, <1>4, <1>5, <1>6, <1>7 DEF Next, DestructorStep

\* While a worker sleeps, every queued task is spoken for by a worker that is
\* awake or by a notify_one that is still to come, although both notifies are
\* sent after queueMutex_ was released.
THEOREM WakeupsAreNotMissed == Spec => []NoMissedWakeup
<1>1. Init => NoMissedWakeup
  BY DEF Init, NoMissedWakeup
<1> QED BY <1>1, TypeCorrect, NextNoMissedWakeup, PTL DEF Spec
-----------------------------------------------------------------------------
(* Somebody can go on.                                                       *)

\* A worker that has a step to take other than falling asleep, and an owner
\* that has one other than enqueueing more: the guards of those actions.
WorkerCanGoOn(w) ==
  \/ Awake(w) /\ (stop_ \/ tasks_ # <<>>)
  \/ At(w, "running") /\ ~stop_ /\ Spawns[task[w]] \ spawned[w] # {}
  \/ At(w, "running") /\ stop_ /\ Spawns[task[w]] # spawned[w]
  \/ At(w, "running") /\ Spawns[task[w]] = spawned[w]
  \/ At(w, "notify")
OwnerCanGoOn ==
  \/ At(Owner, "notify") \/ At(Owner, "notify all")
  \/ At(Owner, "join") /\ \A w \in Workers : pc[w] = "exited"

\* An accepted task has not run to its end, or the destructor has not returned.
WorkRemains ==
  /\ ~terminated
  /\ \/ \E n \in 1 .. Len(accepted) : accepted[n] \notin finished
     \/ stop_ /\ pc[Owner] # "done"
GoesOn == WorkRemains => OwnerCanGoOn \/ \E w \in Workers : WorkerCanGoOn(w)

\* A running task has enqueued only what it enqueues, and the owner that has
\* set stop_ is in the destructor.
SpawnedIsSpawns == \A w \in Running : spawned[w] \subseteq Spawns[task[w]]
OwnerStops == stop_ => pc[Owner] \in {"notify all", "join", "done"}

LEMMA NextOwnerStops == TypeOK /\ OwnerStops /\ [Next]_vars => OwnerStops'
<1> SUFFICES ASSUME TypeOK, OwnerStops, [Next]_vars PROVE OwnerStops'
  OBVIOUS
<1> USE OwnerIsNoWorker DEF TypeOK, OwnerStops, Goto, At
<1>1. CASE UNCHANGED vars
  BY <1>1 DEF vars
<1>2. ASSUME NEW x \in Tasks, OwnerEnqueues(x) PROVE OwnerStops'
  BY <1>2 DEF OwnerEnqueues, Emplace
<1>3. CASE OwnerNotifies
  BY <1>3 DEF OwnerNotifies
<1>4. CASE Stop \/ NotifyAll \/ Join
  BY <1>4 DEF Stop, NotifyAll, Join
<1>5. ASSUME NEW w \in Workers, WorkerStep(w) \/ SpuriousWakeup(w) PROVE OwnerStops'
  <2>1. UNCHANGED stop_ /\ pc'[Owner] = pc[Owner]
    BY <1>5
       DEF WorkerStep, Sleep, Exit, Take, TaskEnqueues, TaskNotifies, TaskThrows, TaskEnds,
           SpuriousWakeup
  <2> QED BY <2>1
<1> QED BY <1>1, <1>2, <1>3, <1>4, <1>5 DEF Next, DestructorStep

\* As long as an accepted task has not ended or the destructor has not
\* returned, some thread has a step to take that brings it closer: workers
\* and destructor are never all asleep or waiting for each other.
THEOREM ThePoolGoesOn == Spec => []GoesOn
<1>1. Init => SpawnedIsSpawns
  BY OwnerIsNoWorker DEF Init, SpawnedIsSpawns, Running, Threads
<1>2. TypeOK /\ SpawnedIsSpawns /\ [Next]_vars => SpawnedIsSpawns'
  <2> SUFFICES ASSUME TypeOK, SpawnedIsSpawns, [Next]_vars, NEW v \in Workers,
                      pc'[v] \in {"running", "notify"}
               PROVE  spawned'[v] \subseteq Spawns[task'[v]]
    BY DEF SpawnedIsSpawns, Running
  <2> USE OwnerIsNoWorker DEF TypeOK, SpawnedIsSpawns, Running
  <2>1. ASSUME UNCHANGED <<task, spawned>>, pc'[v] = pc[v] \/ pc[v] = "running" \/ pc[v] = "notify"
        PROVE  spawned'[v] \subseteq Spawns[task'[v]]
    BY <2>1
  <2>2. CASE UNCHANGED vars
    BY <2>1, <2>2 DEF vars
  <2>3. CASE (\E x \in Tasks : OwnerEnqueues(x)) \/ OwnerNotifies \/ Stop \/ NotifyAll \/ Join
    <3>1. UNCHANGED <<task, spawned>> /\ \E label : pc' = [pc EXCEPT ![Owner] = label]
      BY <2>3 DEF OwnerEnqueues, OwnerNotifies, Stop, NotifyAll, Join, Goto
    <3> QED BY <2>1, <3>1
  <2>4. ASSUME NEW w \in Workers,
               \/ Sleep(w) \/ Exit(w) \/ TaskNotifies(w) \/ TaskThrows(w)
               \/ SpuriousWakeup(w)
        PROVE  spawned'[v] \subseteq Spawns[task'[v]]
    BY <2>1, <2>4 DEF Sleep, Exit, TaskNotifies, TaskThrows, SpuriousWakeup, Goto, At
  <2>5. ASSUME NEW w \in Workers, Take(w) PROVE spawned'[v] \subseteq Spawns[task'[v]]
    <3>1. CASE v = w
      BY <2>5, <3>1 DEF Take
    <3>2. CASE v # w
      BY <2>5, <3>2 DEF Take, Goto
    <3> QED BY <3>1, <3>2
  <2>6. ASSUME NEW w \in Workers, TaskEnqueues(w) PROVE spawned'[v] \subseteq Spawns[task'[v]]
    <3>1. CASE v = w
      BY <2>6, <3>1 DEF TaskEnqueues, At
    <3>2. CASE v # w
      BY <2>6, <3>2 DEF TaskEnqueues, Goto
    <3> QED BY <3>1, <3>2
  <2>7. ASSUME NEW w \in Workers, TaskEnds(w) PROVE spawned'[v] \subseteq Spawns[task'[v]]
    BY <2>7 DEF TaskEnds, Goto
  <2> QED BY <2>2, <2>3, <2>4, <2>5, <2>6, <2>7 DEF Next, DestructorStep, WorkerStep
<1>3. Invariant /\ NoMissedWakeup /\ SpawnedIsSpawns /\ OwnerStops => GoesOn
  <2> SUFFICES ASSUME Invariant, NoMissedWakeup, SpawnedIsSpawns, OwnerStops, WorkRemains,
                      ~OwnerCanGoOn, \A w \in Workers : ~WorkerCanGoOn(w)
               PROVE  FALSE
    BY DEF GoesOn
  <2> USE DEF Invariant, At
  \* Whoever runs a task can go on with it, and nobody is about to notify.
  <2>1. Running = {} /\ Notifying = {}
    <3>1. \A w \in Workers : pc[w] # "running" /\ pc[w] # "notify"
      BY DEF WorkerCanGoOn, SpawnedIsSpawns, Running, WorkRemains, TypeOK
    <3> QED BY <3>1 DEF Running, Notifying, Threads, OwnerCanGoOn, WorkRemains
  \* No task is left in the queue: nobody is awake to take it, so nobody may sleep.
  <2>2. tasks_ = <<>>
    <3> SUFFICES ASSUME tasks_ # <<>> PROVE FALSE
      OBVIOUS
    <3>1. Ready = {}
      BY DEF Ready, WorkerCanGoOn, Awake, WorkRemains
    <3>2. Cardinality(Ready) = 0 /\ Cardinality(Notifying) = 0
      BY <2>1, <3>1, FS_EmptySet
    <3>3. Len(tasks_) \in Nat /\ Len(tasks_) # 0
      BY EmptySeq, LenProperties DEF TypeOK
    <3>4. condition_ = {}
      BY <3>2, <3>3 DEF NoMissedWakeup
    <3>5. \A w \in Workers : pc[w] = "exited"
      BY <2>1, <3>1, <3>4 DEF Ready, Running, TypeOK, WorkerLabels
    <3> QED BY <3>5, PoolAssumption DEF LeavingIsFinal
  \* So every accepted task has ended, and the destructor waits for a worker.
  <2>3. \A n \in 1 .. Len(accepted) : accepted[n] \in finished
    <3>1. accepted = started
      BY <2>2, ConcatEmptySeq DEF StartedInOrder, TypeOK
    <3>2. Range(started) = finished
      BY <2>1 DEF TakenIsRunOrRunning
    <3> QED BY <3>1, <3>2, RangeEquality DEF TypeOK
  <2>4. stop_ /\ pc[Owner] = "join" /\ condition_ = {}
    BY <2>3 DEF WorkRemains, OwnerStops, OwnerCanGoOn, NobodySleepsThroughStop
  <2>5. PICK w \in Workers : pc[w] # "exited"
    BY <2>4 DEF OwnerCanGoOn, WorkRemains
  <2>6. pc[w] = "wait"
    BY <2>1, <2>5 DEF Running, TypeOK, WorkerLabels
  <2> QED BY <2>4, <2>6 DEF WorkerCanGoOn, Awake, WorkRemains
<1>4. Spec => []SpawnedIsSpawns
  BY <1>1, <1>2, TypeCorrect, PTL DEF Spec
<1>5. Spec => []OwnerStops
  <2>1. Init => OwnerStops
    BY DEF Init, OwnerStops
  <2> QED BY <2>1, NextOwnerStops, TypeCorrect, PTL DEF Spec
<1> QED BY <1>3, <1>4, <1>5, InvariantHolds, WakeupsAreNotMissed, PTL
=============================================================================
