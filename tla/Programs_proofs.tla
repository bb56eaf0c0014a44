--------------------------- MODULE Programs_proofs ---------------------------
(***************************************************************************)
(* Proofs about the repository's programs, as MCPrograms composes them,    *)
(* for every value of their constants.                                     *)
(***************************************************************************)
EXTENDS MCPrograms, SequenceTheorems, FiniteSetTheorems, WellFoundedInduction, TLAPS

-----------------------------------------------------------------------------
(* rocker.                                                                   *)

ChildLabels == {"none", "mount private", "sethostname", "chroot", "chdir", "mount proc",
                "execvp", "umounted", "command", "zombie", "reaped"}

\* The child runs and has made its mounts private.
IsPrivate == child \in {"sethostname", "chroot", "chdir", "mount proc", "execvp", "umounted", "command"}

\* A mount can reach the host only while the mounts are shared: the child
\* makes them private before it mounts anything, and each further step is
\* taken only after the one before has succeeded.
ChildIsContained ==
  /\ child \in ChildLabels
  /\ DOMAIN mounts = Container!Namespaces /\ mounts["host"] = {}
  /\ IsPrivate => shared = FALSE
  /\ child \in {"chroot", "chdir", "mount proc", "execvp", "command"} => hostname = "Knocker-Host"
  /\ child \in {"chdir", "mount proc", "execvp", "command"} => root = Container!rootfs
  /\ child \in {"mount proc", "execvp", "command"} => cwd = Container!rootfs
  /\ mounts["container"] = IF child \in {"execvp", "command"} THEN {Container!rootfs} ELSE {}
  /\ child \in {"none", "zombie", "reaped"} => processes = {}

\* The parent waits for the child it has made, and frees the stack it has
\* allocated.
ParentWaits ==
  /\ parent \in {"malloc", "clone"} => child = "none"
  /\ parent \in {"free", "exited"} => child \in {"none", "reaped"}
  /\ parent \in {"malloc", "exited"} => stack = FALSE

RockerInvariant == ChildIsContained /\ ParentWaits

LEMMA RockerInit == Container!Init => RockerInvariant
BY DEF Container!Init, RockerInvariant, ChildIsContained, ParentWaits, ChildLabels, IsPrivate,
       Container!Namespaces

LEMMA RockerParentStep ==
  ASSUME RockerInvariant, Container!ParentStep
  PROVE  RockerInvariant'
<1> USE DEF RockerInvariant, ChildIsContained, ParentWaits, ChildLabels, IsPrivate,
            Container!Parent, Container!childVars
<1>1. CASE Container!malloc
  BY <1>1 DEF Container!malloc
<1>2. CASE Container!clone
  BY <1>2 DEF Container!clone
<1>3. CASE Container!NoDirectory \/ Container!NoFile
  BY <1>3 DEF Container!NoDirectory, Container!NoFile
<1>4. CASE Container!WriteProcs
  BY <1>4 DEF Container!WriteProcs
<1>5. CASE \/ Container!WriteLimit("pids", "memory", "pids.max")
           \/ Container!WriteLimit("memory", "waitpid", "memory.max")
  BY <1>5 DEF Container!WriteLimit
<1>6. CASE Container!waitpid
  BY <1>6 DEF Container!waitpid
<1>7. CASE Container!free
  BY <1>7 DEF Container!free
<1> QED BY <1>1, <1>2, <1>3, <1>4, <1>5, <1>6, <1>7 DEF Container!ParentStep

LEMMA RockerChildStep ==
  ASSUME RockerInvariant,
         \/ Container!mountPrivate \/ Container!sethostname \/ Container!chroot \/ Container!chdir
         \/ Container!mountProc \/ Container!execvp \/ Container!umount \/ Container!ChildExits
  PROVE  RockerInvariant'
<1> USE DEF RockerInvariant, ChildIsContained, ParentWaits, ChildLabels, IsPrivate,
            Container!Child, Container!parentVars
<1>1. CASE Container!mountPrivate \/ Container!sethostname \/ Container!chroot \/ Container!chdir
  BY <1>1 DEF Container!mountPrivate, Container!sethostname, Container!chroot, Container!chdir
<1>2. CASE Container!mountProc
  <2>1. Container!Reached = {"container"}
    BY <1>2 DEF Container!mountProc, Container!Reached
  <2> QED BY <1>2, <2>1 DEF Container!mountProc, Container!Namespaces
<1>3. CASE Container!execvp
  BY <1>3 DEF Container!execvp
<1>4. CASE Container!umount
  <2>1. Container!Reached = {"container"}
    BY <1>4 DEF Container!umount, Container!Reached
  <2> QED BY <1>4, <2>1 DEF Container!umount, Container!Namespaces
<1>5. CASE Container!ChildExits
  BY <1>5 DEF Container!ChildExits, Container!Namespaces
<1> QED BY <1>1, <1>2, <1>3, <1>4, <1>5

LEMMA RockerNext ==
  ASSUME RockerInvariant, Container!Next \/ UNCHANGED rockerVars
  PROVE  RockerInvariant'
<1>1. CASE UNCHANGED rockerVars \/ Container!Finished
  BY <1>1 DEF rockerVars, Container!Finished, Container!vars, Container!parentVars, Container!childVars,
              RockerInvariant, ChildIsContained, ParentWaits, ChildLabels, IsPrivate
<1>2. ASSUME NEW p \in Processes, NEW q \in Processes, Container!fork(p, q) \/ Container!exit(p)
      PROVE  RockerInvariant'
  BY <1>2 DEF Container!fork, Container!exit, Container!parentVars, Container!childVars,
              RockerInvariant, ChildIsContained, ParentWaits, ChildLabels, IsPrivate
<1> QED BY <1>1, <1>2, RockerParentStep, RockerChildStep DEF Container!Next

\* Every step of a program is a step of rocker, or leaves rocker alone.
LEMMA RockerSteps == [Next]_vars => Container!Next \/ UNCHANGED rockerVars
BY DEF Next, vars, ByQueue, ByDemo, ByStack, ByRocker, ByScreen, ByBench, By, NoOtherStep

LEMMA RockerInvariantHolds == FairSpec => []RockerInvariant
<1>1. Init => RockerInvariant
  BY RockerInit DEF Init
<1>2. RockerInvariant /\ [Next]_vars => RockerInvariant'
  BY RockerSteps, RockerNext
<1> QED BY <1>1, <1>2, PTL DEF FairSpec

\* No mount of the container propagates to the host, the command runs only
\* inside a complete container, and nothing of the container is left when
\* main() returns, wherever a call has failed.
THEOREM RockerLeavesHostUntouched == FairSpec => []HostUntouched
<1>1. RockerInvariant => HostUntouched
  BY DEF RockerInvariant, ChildIsContained, ParentWaits, HostUntouched, Container!HostUntouched
<1> QED BY <1>1, RockerInvariantHolds, PTL

\* The child's stack is freed on every path through main().
THEOREM RockerFreesItsStack == FairSpec => []Container!StackIsFreed
<1>1. RockerInvariant => Container!StackIsFreed
  BY DEF RockerInvariant, ParentWaits, Container!StackIsFreed
<1> QED BY <1>1, RockerInvariantHolds, PTL
-----------------------------------------------------------------------------
(* The SDL framebuffer.                                                      *)

Resources == {"SDL", "window", "renderer", "texture"}

\* What is held is the lower end of the ladder, and nothing when main() is over.
HoldsLowerEnd ==
  /\ acquired \in Seq(Resources) /\ Len(acquired) \in 0 .. 4
  /\ \A k \in 1 .. Len(acquired) : acquired[k] = Screen!Ladder[k]
  /\ fbpc = "exited" => acquired = <<>>

FrameInvariant == frame \in Nat /\ Screen!ShowsOnePixel

LEMMA LadderProperties ==
  /\ Screen!Ladder \in Seq(Resources) /\ Len(Screen!Ladder) = 4
  /\ \A k \in 1 .. 4 : Screen!Ladder[k] \in Resources
BY DEF Screen!Ladder, Resources

\* What SubSeq keeps of a sequence.
LEMMA PrefixProperties ==
  ASSUME NEW S, NEW s \in Seq(S), NEW n \in 0 .. Len(s)
  PROVE  /\ SubSeq(s, 1, n) \in Seq(S) /\ Len(SubSeq(s, 1, n)) = n
         /\ \A k \in 1 .. n : SubSeq(s, 1, n)[k] = s[k]
<1>1. Len(s) \in Nat /\ \A k \in 1 .. n : s[k] \in S
  BY LenProperties
<1>2. n \in Int /\ n - 1 + 1 = n /\ \A k \in 1 .. n : 1 + k - 1 = k
  BY <1>1
<1>3. /\ SubSeq(s, 1, n) \in Seq(S)
      /\ Len(SubSeq(s, 1, n)) = IF 1 <= n THEN n - 1 + 1 ELSE 0
      /\ \A k \in 1 .. n - 1 + 1 : SubSeq(s, 1, n)[k] = s[1 + k - 1]
  BY <1>1, <1>2, SubSeqProperties
<1> QED BY <1>1, <1>2, <1>3

LEMMA HoldsLowerEndNext ==
  ASSUME HoldsLowerEnd, Screen!Next \/ UNCHANGED screenVars
  PROVE  HoldsLowerEnd'
<1> USE DEF HoldsLowerEnd
<1>1. CASE Screen!Acquire
  <2> DEFINE r == Screen!Ladder[Len(acquired) + 1]
  <2>1. Len(acquired) \in 0 .. 3 /\ r \in Resources /\ acquired' = Append(acquired, r)
        /\ fbpc' \in {"poll", "acquire"}
    BY <1>1, LadderProperties DEF Screen!Acquire
  <2>2. /\ acquired' \in Seq(Resources) /\ Len(acquired') = Len(acquired) + 1
        /\ acquired'[Len(acquired) + 1] = r
        /\ \A k \in 1 .. Len(acquired) : acquired'[k] = acquired[k]
    <3> HIDE DEF r
    <3> QED BY <2>1, AppendProperties
  <2> QED BY <2>1, <2>2
<1>2. CASE Screen!Release
  <2>1. CASE acquired = <<>>
    BY <1>2, <2>1 DEF Screen!Release
  <2>2. CASE acquired # <<>>
    <3>1. acquired' = SubSeq(acquired, 1, Len(acquired) - 1) /\ fbpc' = "release"
      BY <1>2, <2>2 DEF Screen!Release
    <3>2. Len(acquired) \in 1 .. 4
      BY <2>2, EmptySeq
    <3>3. /\ acquired' \in Seq(Resources) /\ Len(acquired') = Len(acquired) - 1
          /\ \A k \in 1 .. Len(acquired) - 1 : acquired'[k] = acquired[k]
      <4>1. Len(acquired) - 1 \in 0 .. Len(acquired) /\ acquired \in Seq(Resources)
        BY <3>2
      <4>2. /\ SubSeq(acquired, 1, Len(acquired) - 1) \in Seq(Resources)
            /\ Len(SubSeq(acquired, 1, Len(acquired) - 1)) = Len(acquired) - 1
            /\ \A k \in 1 .. Len(acquired) - 1 :
                 SubSeq(acquired, 1, Len(acquired) - 1)[k] = acquired[k]
        BY <4>1, PrefixProperties
      <4> QED BY <3>1, <4>2
    <3> QED BY <3>1, <3>2, <3>3
  <2> QED BY <2>1, <2>2
<1>3. CASE \/ Screen!AcquireFails \/ Screen!PollEvent \/ Screen!Draw \/ Screen!Finished
           \/ (\E e \in {"quit", "key"} : Screen!Post(e)) \/ UNCHANGED screenVars
  BY <1>3 DEF Screen!AcquireFails, Screen!PollEvent, Screen!Draw, Screen!Finished, Screen!vars,
              Screen!Post, screenVars
<1> QED BY <1>1, <1>2, <1>3 DEF Screen!Next, Screen!Program

\* put_pixel's bounds check lets the pixel of a frame pass.
LEMMA PixelIsInside ==
  ASSUME NEW f \in Nat, NEW w \in Nat \ {0}, NEW h \in Nat \ {0}
  PROVE  /\ f % w \in 0 .. w - 1 /\ h \div 2 \in 0 .. h - 1
         /\ w * (h \div 2) + (f % w) \in 0 .. w * h - 1
         /\ (w * (h \div 2) + (f % w)) \div w = h \div 2
<1>1. f % w \in 0 .. w - 1 /\ h \div 2 \in 0 .. h - 1
  OBVIOUS
<1>2. ASSUME NEW x \in 0 .. w - 1, NEW y \in 0 .. h - 1
      PROVE  w * y + x \in 0 .. w * h - 1 /\ (w * y + x) \div w = y
  OBVIOUS
<1> QED BY <1>1, <1>2

LEMMA FrameInvariantNext ==
  ASSUME FrameInvariant, Screen!Next \/ UNCHANGED screenVars
  PROVE  FrameInvariant'
<1>1. CASE Screen!Draw
  <2> DEFINE x == frame % WIDTH
             y == HEIGHT \div 2
             k == WIDTH * y + x
  <2>1. /\ WIDTH \in Nat \ {0} /\ HEIGHT \in Nat \ {0} /\ UINT32_MAX \in Nat
        /\ frame \in Nat
    BY ProgramAssumptions DEF Screen!FramebufferAssumption, FrameInvariant
  <2>2. x \in 0 .. WIDTH - 1 /\ y \in 0 .. HEIGHT - 1 /\ k \in Screen!Pixels /\ k \div WIDTH = y
    BY <2>1, PixelIsInside DEF Screen!Pixels
  <2>3. frame' \in Nat
    BY <1>1, <2>1 DEF Screen!Draw
  <2>4. texture' = Screen!put_pixel(x, y, Lit, Screen!Blank)
    BY <1>1 DEF Screen!Draw
  <2>5. Screen!put_pixel(x, y, Lit, Screen!Blank) = [Screen!Blank EXCEPT ![k] = Lit]
    <3> HIDE DEF x, y
    <3> QED BY <2>1, <2>2 DEF Screen!put_pixel
  <2> HIDE DEF x, k
  <2> QED BY <2>2, <2>3, <2>4, <2>5 DEF FrameInvariant, Screen!ShowsOnePixel
<1>2. CASE \/ Screen!Acquire \/ Screen!AcquireFails \/ Screen!Release \/ Screen!PollEvent
           \/ Screen!Finished \/ (\E e \in {"quit", "key"} : Screen!Post(e)) \/ UNCHANGED screenVars
  <2>1. UNCHANGED <<frame, texture>>
    BY <1>2 DEF Screen!Acquire, Screen!AcquireFails, Screen!Release, Screen!PollEvent,
                Screen!Finished, Screen!Post, Screen!vars, Screen!loopVars, screenVars
  <2> QED BY <2>1 DEF FrameInvariant, Screen!ShowsOnePixel
<1> QED BY <1>1, <1>2 DEF Screen!Next, Screen!Program

LEMMA ScreenSteps == [Next]_vars => Screen!Next \/ UNCHANGED screenVars
BY DEF Next, vars, ByQueue, ByDemo, ByStack, ByRocker, ByScreen, ByBench, By, NoOtherStep

\* What was made last is released first on every path through main(), the
\* failed calls included, and nothing is held at its end.
THEOREM FramebufferReleasesInOrder == FairSpec => []Screen!ReleasedInOrder
<1>1. Init => HoldsLowerEnd
  <2>1. <<>> \in Seq(Resources) /\ Len(<<>>) = 0
    BY EmptySeq
  <2>2. Init => Screen!Init
    BY DEF Init
  <2>3. Screen!Init => fbpc = "acquire" /\ acquired = <<>>
    BY DEF Screen!Init
  <2> QED BY <2>1, <2>2, <2>3 DEF HoldsLowerEnd
<1>2. HoldsLowerEnd /\ [Next]_vars => HoldsLowerEnd'
  BY ScreenSteps, HoldsLowerEndNext
<1>3. HoldsLowerEnd => Screen!ReleasedInOrder
  <2> SUFFICES ASSUME HoldsLowerEnd PROVE Screen!ReleasedInOrder
    OBVIOUS
  <2> DEFINE lower == SubSeq(Screen!Ladder, 1, Len(acquired))
  <2>1. acquired \in Seq(Resources) /\ Len(acquired) \in 0 .. 4
    BY DEF HoldsLowerEnd
  <2>2. /\ lower \in Seq(Resources) /\ Len(lower) = Len(acquired)
        /\ \A k \in 1 .. Len(acquired) : lower[k] = Screen!Ladder[k]
    BY <2>1, LadderProperties, PrefixProperties
  <2>3. acquired = lower
    <3> HIDE DEF lower
    <3> QED BY <2>1, <2>2, SeqEqual DEF HoldsLowerEnd
  <2> QED BY <2>3 DEF HoldsLowerEnd, Screen!ReleasedInOrder
<1> QED BY <1>1, <1>2, <1>3, PTL DEF FairSpec

\* Every frame shows exactly one lit pixel, in the middle row and inside the
\* picture, whatever the size of the picture and also after frame has wrapped.
THEOREM FramesShowOnePixel == FairSpec => []ShowsOnePixel
<1>1. Init => FrameInvariant
  <2>1. Screen!Init => frame = 0 /\ texture = [k \in Screen!Pixels |-> 0]
    BY DEF Screen!Init
  <2>2. Init => Screen!Init
    BY DEF Init
  <2> QED BY <2>1, <2>2 DEF FrameInvariant, Screen!ShowsOnePixel
<1>2. FrameInvariant /\ [Next]_vars => FrameInvariant'
  BY ScreenSteps, FrameInvariantNext
<1>3. FrameInvariant => ShowsOnePixel
  BY DEF FrameInvariant, ShowsOnePixel
<1> QED BY <1>1, <1>2, <1>3, PTL DEF FairSpec
-----------------------------------------------------------------------------
(* The memory pool's benchmark.                                              *)

PoolFacts == INSTANCE MemPool_proofs WITH pc <- mpc

\* Objects are deleted in the order of their construction, so that the first
\* LIVE chunks are on top of the free list again when the next round begins.
StaysInFirstChunks ==
  /\ o \in Seq(1 .. LIVE) /\ Len(o) <= LIVE
  /\ held \subseteq 1 .. LIVE
  /\ \A k \in 1 .. Len(o) : o[k] \in held
  /\ \A j, k \in 1 .. Len(o) : o[j] = o[k] => j = k
  /\ mpc = "ready" => /\ Len(free) >= LIVE - Len(o)
                      /\ \A k \in 1 .. LIVE - Len(o) : free[k] \in 1 .. LIVE

\* The objects constructed in this round hold what they were given.
ObjectsKeepValues ==
  /\ iteration \in Nat
  /\ stage \in {"new", "constructor", "delete"}
  /\ mpc = "linking" => stage = "new" /\ o = <<>>
  /\ stage = "new" => \A k \in 1 .. Len(o) : word[o[k]] = iteration + k
  /\ stage = "constructor" => /\ Len(o) \in Nat \ {0} /\ result = o[Len(o)]
                              /\ \A k \in 1 .. Len(o) - 1 : word[o[k]] = iteration + k
  /\ stage = "delete" => o # <<>> /\ read = [k \in 1 .. LIVE |-> iteration + k]

BenchmarkInvariant == PoolFacts!IInv /\ StaysInFirstChunks /\ ObjectsKeepValues

\* Each of its steps is one the pool's own proofs speak of, and keeps their
\* invariant.
LEMMA PoolSteps ==
  ASSUME PoolFacts!IInv,
         \/ Bench!Pool!LinkNext \/ Bench!Pool!TerminateList \/ Bench!Pool!Allocate
         \/ \E c \in Bench!Pool!Chunks : Bench!Pool!Deallocate(c) \/ Bench!Pool!ClientWrites(c)
         \/ UNCHANGED benchVars
  PROVE  (PoolFacts!Next \/ UNCHANGED PoolFacts!vars) /\ PoolFacts!IInv'
<1>1. /\ Bench!Pool!LinkNext => PoolFacts!LinkNext
      /\ Bench!Pool!TerminateList => PoolFacts!TerminateList
      /\ Bench!Pool!Allocate => PoolFacts!Allocate
  BY DEF Bench!Pool!LinkNext, PoolFacts!LinkNext, Bench!Pool!TerminateList, PoolFacts!TerminateList,
         Bench!Pool!Allocate, PoolFacts!Allocate, Bench!Pool!Chunks, PoolFacts!Chunks,
         Bench!Pool!nullptr, PoolFacts!nullptr
<1>2. Bench!Pool!Chunks = PoolFacts!Chunks
  BY DEF Bench!Pool!Chunks, PoolFacts!Chunks
<1>3. ASSUME NEW c \in PoolFacts!Chunks
      PROVE  /\ Bench!Pool!Deallocate(c) => PoolFacts!Deallocate(c)
             /\ Bench!Pool!ClientWrites(c) => PoolFacts!ClientWrites(c)
  BY DEF Bench!Pool!Deallocate, PoolFacts!Deallocate, Bench!Pool!ClientWrites, PoolFacts!ClientWrites
<1>4. UNCHANGED benchVars => UNCHANGED PoolFacts!vars
  BY DEF benchVars, PoolFacts!vars
<1>5. PoolFacts!Next \/ UNCHANGED PoolFacts!vars
  BY <1>1, <1>2, <1>3, <1>4 DEF PoolFacts!Next
<1>6. Amount \in Nat \ {0}
  BY ProgramAssumptions DEF Bench!BenchmarkAssumption
<1> QED BY <1>5, <1>6, PoolFacts!NextKeeps DEF PoolFacts!AmountAssumption

LEMMA BenchmarkConstants ==
  Amount \in Nat /\ LIVE \in Nat /\ LIVE <= Amount /\ LIVE > 0
BY ProgramAssumptions DEF Bench!BenchmarkAssumption

\* What the invariant says of the objects and of the free list in the pool
\* that is ready.
LEMMA PoolFactsOnObjects ==
  ASSUME BenchmarkInvariant
  PROVE  /\ Len(o) \in 0 .. LIVE /\ o \in Seq(1 .. LIVE)
         /\ \A k \in 1 .. Len(o) : o[k] \in 1 .. LIVE /\ o[k] \in held
         /\ held \subseteq Bench!Pool!Chunks /\ DOMAIN word = Bench!Pool!Chunks
         /\ free \in Seq(Bench!Pool!Chunks) /\ Len(free) \in Nat
         /\ mpc = "ready" =>
              /\ free # <<>> => freeListHead_ = free[1]
              /\ free = <<>> => freeListHead_ = Bench!Pool!nullptr
              /\ \A k \in 1 .. Len(free) : free[k] \notin held
<1>1. o \in Seq(1 .. LIVE) /\ Len(o) \in Nat /\ \A k \in 1 .. Len(o) : o[k] \in 1 .. LIVE
  BY LenProperties DEF BenchmarkInvariant, StaysInFirstChunks
<1>2. /\ held \subseteq Bench!Pool!Chunks /\ DOMAIN word = Bench!Pool!Chunks
      /\ free \in Seq(Bench!Pool!Chunks)
  BY DEF BenchmarkInvariant, PoolFacts!IInv, PoolFacts!TypeOK, Bench!Pool!Chunks, PoolFacts!Chunks
<1>3. Len(free) \in Nat /\ DOMAIN free = 1 .. Len(free)
  BY <1>2, LenProperties
<1>4. ASSUME mpc = "ready"
      PROVE  /\ free # <<>> => freeListHead_ = free[1]
             /\ free = <<>> => freeListHead_ = Bench!Pool!nullptr
             /\ \A k \in 1 .. Len(free) : free[k] \notin held
  <2>1. /\ freeListHead_ = IF free = <<>> THEN PoolFacts!nullptr ELSE free[1]
        /\ PoolFacts!Range(free) = PoolFacts!Chunks \ held
    BY <1>4 DEF BenchmarkInvariant, PoolFacts!IInv, PoolFacts!FreeListIsFree
  <2>2. \A k \in 1 .. Len(free) : free[k] \in PoolFacts!Range(free)
    BY <1>3 DEF PoolFacts!Range
  <2> QED BY <2>1, <2>2 DEF Bench!Pool!nullptr, PoolFacts!nullptr
<1> QED BY <1>1, <1>2, <1>3, <1>4, BenchmarkConstants DEF BenchmarkInvariant, StaysInFirstChunks

\* The constructor of the pool.
LEMMA MemoryManagerKeeps ==
  ASSUME BenchmarkInvariant, Bench!memoryManager
  PROVE  StaysInFirstChunks' /\ ObjectsKeepValues'
<1> USE DEF BenchmarkInvariant, StaysInFirstChunks, ObjectsKeepValues
<1>1. o = <<>> /\ stage = "new" /\ UNCHANGED <<o, stage, iteration, read, held>>
  BY DEF Bench!memoryManager, Bench!Pool!LinkNext, Bench!Pool!TerminateList
<1>2. Len(o) = 0
  BY <1>1, EmptySeq
<1>3. CASE Bench!Pool!LinkNext
  <2>1. mpc' = "linking"
    BY <1>3 DEF Bench!Pool!LinkNext
  <2> QED BY <1>1, <1>2, <2>1
<1>4. CASE Bench!Pool!TerminateList
  <2>1. mpc' = "ready" /\ free' = [k \in 1 .. Amount |-> k]
    BY <1>4 DEF Bench!Pool!TerminateList, Bench!Pool!Chunks
  <2>2. Len(free') = Amount /\ \A k \in 1 .. LIVE : free'[k] = k
    BY <2>1, BenchmarkConstants
  <2>3. \A k \in 1 .. LIVE - Len(o) : free'[k] \in 1 .. LIVE
    BY <1>2, <2>2, BenchmarkConstants
  <2>4. StaysInFirstChunks'
    BY <1>1, <1>2, <2>2, <2>3, BenchmarkConstants
  <2>5. ObjectsKeepValues'
    <3>1. \A k \in 1 .. Len(o') : word'[o'[k]] = iteration' + k
      BY <1>1, <1>2
    <3> QED BY <1>1, <2>1, <3>1
  <2> QED BY <2>4, <2>5
<1> QED BY <1>3, <1>4 DEF Bench!memoryManager

LEMMA NewKeeps ==
  ASSUME BenchmarkInvariant, Bench!New
  PROVE  StaysInFirstChunks' /\ ObjectsKeepValues'
<1> DEFINE c == free[1]
<1>1. /\ stage = "new" /\ Len(o) < LIVE /\ stage' = "constructor" /\ mpc = "ready" /\ mpc' = mpc
      /\ o' = Append(o, result') /\ result' = freeListHead_ /\ held' = held \cup {freeListHead_}
      /\ free' = Tail(free) /\ freeListHead_ # Bench!Pool!nullptr
      /\ UNCHANGED <<iteration, read, word>>
  BY DEF Bench!New, Bench!Pool!Allocate
<1>2. /\ Len(o) \in Nat /\ o \in Seq(1 .. LIVE) /\ free \in Seq(Bench!Pool!Chunks) /\ Len(free) \in Nat
      /\ \A k \in 1 .. Len(o) : o[k] \in held
      /\ held \subseteq 1 .. LIVE
      /\ \A j, k \in 1 .. Len(o) : o[j] = o[k] => j = k
      /\ Len(free) >= LIVE - Len(o) /\ \A k \in 1 .. LIVE - Len(o) : free[k] \in 1 .. LIVE
  BY <1>1, PoolFactsOnObjects DEF BenchmarkInvariant, StaysInFirstChunks
<1>3. 1 \in 1 .. LIVE - Len(o) /\ 1 \in 1 .. Len(free) /\ free # <<>>
  BY <1>1, <1>2, EmptySeq, BenchmarkConstants
<1>4. freeListHead_ = c /\ c \in 1 .. LIVE /\ c \notin held
  BY <1>1, <1>2, <1>3, PoolFactsOnObjects
<1> HIDE DEF c
<1>5. /\ o' \in Seq(1 .. LIVE) /\ Len(o') = Len(o) + 1 /\ o'[Len(o) + 1] = c
      /\ \A k \in 1 .. Len(o) : o'[k] = o[k]
  BY <1>1, <1>2, <1>4, AppendProperties
<1>6. /\ Len(free') = Len(free) - 1
      /\ \A k \in 1 .. Len(free) - 1 : free'[k] = free[k + 1]
  BY <1>1, <1>2, <1>3, HeadTailProperties
<1>7. \A k \in 1 .. Len(o') : k \in 1 .. Len(o) \/ k = Len(o) + 1
  BY <1>2, <1>5
<1>8. /\ \A k \in 1 .. Len(o') : o'[k] \in held'
      /\ \A j, k \in 1 .. Len(o') : o'[j] = o'[k] => j = k
  BY <1>1, <1>2, <1>4, <1>5, <1>7
<1>9. /\ Len(free') >= LIVE - Len(o')
      /\ \A k \in 1 .. LIVE - Len(o') : free'[k] \in 1 .. LIVE
  <2>1. Len(free') >= LIVE - Len(o')
    BY <1>2, <1>5, <1>6, BenchmarkConstants
  <2>2. ASSUME NEW k \in 1 .. LIVE - Len(o') PROVE free'[k] \in 1 .. LIVE
    <3>1. k + 1 \in 1 .. LIVE - Len(o) /\ k \in 1 .. Len(free) - 1
      BY <1>2, <1>5, BenchmarkConstants
    <3> QED BY <1>2, <1>6, <3>1
  <2> QED BY <2>1, <2>2
<1>10. StaysInFirstChunks'
  <2>1. Len(o') <= LIVE /\ held' \subseteq 1 .. LIVE
    BY <1>1, <1>2, <1>4, <1>5, BenchmarkConstants
  <2> QED BY <1>5, <1>8, <1>9, <2>1 DEF StaysInFirstChunks
<1>11. ObjectsKeepValues'
  <2>1. \A k \in 1 .. Len(o') - 1 : word'[o'[k]] = iteration' + k
    BY <1>1, <1>2, <1>5 DEF BenchmarkInvariant, ObjectsKeepValues
  <2> QED BY <1>1, <1>2, <1>4, <1>5, <2>1 DEF BenchmarkInvariant, ObjectsKeepValues
<1> QED BY <1>10, <1>11

LEMMA NewCannotCrash ==
  ASSUME BenchmarkInvariant PROVE ~Bench!NewCrashes
<1> SUFFICES ASSUME Bench!NewCrashes PROVE FALSE
  OBVIOUS
<1>1. Len(o) < LIVE /\ mpc = "ready" /\ freeListHead_ = Bench!Pool!nullptr
  BY DEF Bench!NewCrashes, Bench!Pool!AllocateFails
<1>2. Len(free) >= LIVE - Len(o) /\ Len(free) \in Nat /\ Len(o) \in Nat
      /\ \A k \in 1 .. LIVE - Len(o) : free[k] \in 1 .. LIVE
  BY <1>1, PoolFactsOnObjects DEF BenchmarkInvariant, StaysInFirstChunks
<1>3. free # <<>> /\ free[1] \in 1 .. LIVE
  BY <1>1, <1>2, EmptySeq, BenchmarkConstants
<1> QED BY <1>1, <1>3, PoolFactsOnObjects DEF Bench!Pool!nullptr

LEMMA ConstructorKeeps ==
  ASSUME BenchmarkInvariant, Bench!Object1
  PROVE  StaysInFirstChunks' /\ ObjectsKeepValues'
<1>1. /\ stage = "constructor" /\ stage' = "new" /\ mpc = "ready"
      /\ word'[result] = iteration + Len(o)
      /\ UNCHANGED <<iteration, o, read, mpc, held, free, result>>
  BY DEF Bench!Object1, Bench!Pool!ClientWrites
<1>2. PICK d \in Data : word' = [word EXCEPT ![result] = d]
  BY DEF Bench!Object1, Bench!Pool!ClientWrites
<1>3. /\ Len(o) \in Nat \ {0} /\ result = o[Len(o)]
      /\ \A k \in 1 .. Len(o) - 1 : word[o[k]] = iteration + k
      /\ \A j, k \in 1 .. Len(o) : o[j] = o[k] => j = k
  BY <1>1 DEF BenchmarkInvariant, ObjectsKeepValues, StaysInFirstChunks
<1>4. ASSUME NEW k \in 1 .. Len(o) PROVE word'[o[k]] = iteration + k
  <2>1. CASE k = Len(o)
    BY <1>1, <1>3, <2>1
  <2>2. CASE k # Len(o)
    <3>1. k \in 1 .. Len(o) - 1 /\ Len(o) \in 1 .. Len(o)
      BY <1>3, <2>2
    <3>2. o[k] # result
      BY <1>3, <2>2, <3>1
    <3>3. word'[o[k]] = word[o[k]]
      BY <1>2, <3>2
    <3> QED BY <1>3, <3>1, <3>3
  <2> QED BY <2>1, <2>2
<1> QED BY <1>1, <1>4 DEF BenchmarkInvariant, StaysInFirstChunks, ObjectsKeepValues

LEMMA GetKeeps ==
  ASSUME BenchmarkInvariant, Bench!get
  PROVE  StaysInFirstChunks' /\ ObjectsKeepValues'
<1>1. /\ stage = "new" /\ Len(o) = LIVE /\ stage' = "delete"
      /\ read' = [k \in 1 .. LIVE |-> word[o[k]]]
      /\ UNCHANGED <<mpc, word, held, free, iteration, o>>
  BY DEF Bench!get, Bench!poolVars
<1>2. o # <<>>
  BY <1>1, EmptySeq, BenchmarkConstants
<1>3. mpc # "linking"
  BY <1>2 DEF BenchmarkInvariant, ObjectsKeepValues
<1> QED BY <1>1, <1>2, <1>3 DEF BenchmarkInvariant, StaysInFirstChunks, ObjectsKeepValues

LEMMA DeleteKeeps ==
  ASSUME BenchmarkInvariant, Bench!Delete
  PROVE  StaysInFirstChunks' /\ ObjectsKeepValues'
<1> DEFINE c == o[1]
<1>1. stage = "delete" /\ o # <<>> /\ read = [k \in 1 .. LIVE |-> iteration + k] /\ iteration \in Nat
  BY DEF Bench!Delete, BenchmarkInvariant, ObjectsKeepValues
<1>2. /\ Len(o) \in Nat \ {0} /\ o \in Seq(1 .. LIVE) /\ c \in 1 .. LIVE /\ Head(o) = c
      /\ free \in Seq(Bench!Pool!Chunks) /\ Len(free) \in Nat /\ c \in Bench!Pool!Chunks
      /\ \A k \in 1 .. Len(o) : o[k] \in held
      /\ \A j, k \in 1 .. Len(o) : o[j] = o[k] => j = k
  BY <1>1, PoolFactsOnObjects, EmptySeq DEF BenchmarkInvariant, StaysInFirstChunks
<1> HIDE DEF c
<1>3. /\ mpc = "ready" /\ held' = held \ {c} /\ free' = <<c>> \o free /\ o' = Tail(o)
      /\ UNCHANGED <<mpc, read>>
      /\ IF Len(o) > 1 THEN UNCHANGED <<stage, iteration>>
                       ELSE stage' = "new" /\ iteration' = iteration + 1
  BY <1>2 DEF Bench!Delete, Bench!Pool!Deallocate
<1>4. /\ o' \in Seq(1 .. LIVE) /\ Len(o') = Len(o) - 1
      /\ \A k \in 1 .. Len(o) - 1 : o'[k] = o[k + 1]
  BY <1>1, <1>2, <1>3, HeadTailProperties
<1>5. /\ Len(free') = Len(free) + 1 /\ free'[1] = c
      /\ \A k \in 2 .. Len(free) + 1 : free'[k] = free[k - 1]
  <2>1. <<c>> \in Seq(Bench!Pool!Chunks) /\ Len(<<c>>) = 1 /\ <<c>>[1] = c
    BY <1>2
  <2>2. /\ Len(<<c>> \o free) = 1 + Len(free)
        /\ \A k \in 1 .. 1 + Len(free) :
             (<<c>> \o free)[k] = IF k <= 1 THEN <<c>>[k] ELSE free[k - 1]
    BY <1>2, <2>1, ConcatProperties
  <2> QED BY <1>2, <1>3, <2>1, <2>2
<1>6. Len(free) >= LIVE - Len(o) /\ \A k \in 1 .. LIVE - Len(o) : free[k] \in 1 .. LIVE
  BY <1>3 DEF BenchmarkInvariant, StaysInFirstChunks
<1>7. Len(free') >= LIVE - Len(o') /\ \A k \in 1 .. LIVE - Len(o') : free'[k] \in 1 .. LIVE
  <2>1. Len(free') >= LIVE - Len(o')
    BY <1>2, <1>4, <1>5, <1>6, BenchmarkConstants
  <2>2. ASSUME NEW k \in 1 .. LIVE - Len(o') PROVE free'[k] \in 1 .. LIVE
    <3>1. k = 1 \/ (k \in 2 .. Len(free) + 1 /\ k - 1 \in 1 .. LIVE - Len(o))
      BY <1>2, <1>4, <1>6, BenchmarkConstants
    <3> QED BY <1>2, <1>5, <1>6, <3>1
  <2> QED BY <2>1, <2>2
<1>8. ASSUME NEW j \in 1 .. Len(o')
      PROVE  /\ o'[j] \in held'
             /\ \A k \in 1 .. Len(o') : o'[j] = o'[k] => j = k
  <2>1. \A k \in 1 .. Len(o') : k + 1 \in 1 .. Len(o) /\ o'[k] = o[k + 1] /\ k + 1 # 1
    BY <1>2, <1>4
  <2>2. o[j + 1] # o[1]
    BY <1>2, <2>1
  <2>3. \A k \in 1 .. Len(o') : o[j + 1] = o[k + 1] => j + 1 = k + 1
    BY <1>2, <2>1
  <2>4. \A k \in 1 .. Len(o') : j + 1 = k + 1 => j = k
    BY <1>4
  <2> QED BY <1>2, <1>3, <2>1, <2>2, <2>3, <2>4 DEF c
<1>9. StaysInFirstChunks'
  BY <1>2, <1>3, <1>4, <1>7, <1>8, BenchmarkConstants
     DEF BenchmarkInvariant, StaysInFirstChunks
<1>10. ObjectsKeepValues'
  <2>1. CASE Len(o) > 1
    <3>1. o' # <<>>
      BY <1>2, <1>4, <2>1, EmptySeq
    <3> QED BY <1>1, <1>3, <2>1, <3>1 DEF ObjectsKeepValues
  <2>2. CASE ~(Len(o) > 1)
    <3>1. Len(o') = 0
      BY <1>2, <1>4, <2>2
    <3> QED BY <1>1, <1>3, <2>2, <3>1 DEF ObjectsKeepValues
  <2> QED BY <2>1, <2>2
<1> QED BY <1>9, <1>10

LEMMA BenchmarkNext ==
  ASSUME BenchmarkInvariant, Bench!Next \/ UNCHANGED benchVars
  PROVE  BenchmarkInvariant'
<1>1. PoolFacts!IInv
  BY DEF BenchmarkInvariant
<1>2. CASE Bench!memoryManager
  BY <1>1, <1>2, PoolSteps, MemoryManagerKeeps DEF BenchmarkInvariant, Bench!memoryManager
<1>3. CASE Bench!New
  BY <1>1, <1>3, PoolSteps, NewKeeps DEF BenchmarkInvariant, Bench!New
<1>4. CASE Bench!Object1
  <2>1. Bench!Pool!ClientWrites(result) /\ result \in Bench!Pool!Chunks
    BY <1>4, PoolFactsOnObjects DEF Bench!Object1, Bench!Pool!ClientWrites
  <2> QED BY <1>1, <1>4, <2>1, PoolSteps, ConstructorKeeps DEF BenchmarkInvariant
<1>5. CASE Bench!Delete
  <2>1. Bench!Pool!Deallocate(Head(o)) /\ Head(o) \in Bench!Pool!Chunks
    BY <1>5, PoolFactsOnObjects DEF Bench!Delete, Bench!Pool!Deallocate
  <2> QED BY <1>1, <1>5, <2>1, PoolSteps, DeleteKeeps DEF BenchmarkInvariant
<1>6. CASE Bench!get
  <2>1. UNCHANGED PoolFacts!vars
    BY <1>6 DEF Bench!get, Bench!poolVars, PoolFacts!vars
  <2>2. PoolFacts!IInv'
    BY <1>1, <2>1, PoolFacts!NextKeeps, BenchmarkConstants DEF PoolFacts!AmountAssumption
  <2> QED BY <1>6, <2>2, GetKeeps DEF BenchmarkInvariant
<1>7. CASE UNCHANGED benchVars \/ Bench!Finished
  <2>1. UNCHANGED benchVars
    BY <1>7 DEF Bench!Finished, Bench!vars, Bench!poolVars, benchVars
  <2>2. PoolFacts!IInv'
    BY <1>1, <2>1, PoolSteps
  <2> QED BY <2>1, <2>2 DEF benchVars, BenchmarkInvariant, StaysInFirstChunks, ObjectsKeepValues
<1> QED BY <1>2, <1>3, <1>4, <1>5, <1>6, <1>7, NewCannotCrash DEF Bench!Next

LEMMA BenchmarkInit == Init => BenchmarkInvariant
<1> SUFFICES ASSUME Init PROVE BenchmarkInvariant
  OBVIOUS
<1>1. Bench!Pool!Init /\ stage = "new" /\ iteration = 0 /\ o = <<>>
  BY DEF Init, Bench!Init
<1>2. PoolFacts!Init /\ mpc = "linking" /\ held = {}
  BY <1>1 DEF Bench!Pool!Init, PoolFacts!Init, Bench!Pool!Chunks, PoolFacts!Chunks,
              Bench!Pool!memory_, PoolFacts!memory_, Bench!Pool!nullptr, PoolFacts!nullptr
<1>3. PoolFacts!IInv
  BY <1>2, PoolFacts!InitHolds, BenchmarkConstants DEF PoolFacts!AmountAssumption
<1>4. Len(<<>>) = 0 /\ <<>> \in Seq(1 .. LIVE)
  BY EmptySeq
<1> QED BY <1>1, <1>2, <1>3, <1>4, BenchmarkConstants
       DEF BenchmarkInvariant, StaysInFirstChunks, ObjectsKeepValues

LEMMA BenchmarkSteps == [Next]_vars => Bench!Next \/ UNCHANGED benchVars
BY DEF Next, vars, ByQueue, ByDemo, ByStack, ByRocker, ByScreen, ByBench, By, NoOtherStep

\* operator new never returns the null pointer, every object holds what it was
\* constructed with when it is read, and the benchmark never leaves the first
\* LIVE chunks of the pool, for any number of rounds.
THEOREM BenchmarkIsServed == FairSpec => []PoolServesBenchmark
<1>1. BenchmarkInvariant /\ [Next]_vars => BenchmarkInvariant'
  BY BenchmarkSteps, BenchmarkNext
<1>2. BenchmarkInvariant => PoolServesBenchmark
  BY DEF BenchmarkInvariant, StaysInFirstChunks, ObjectsKeepValues,
         PoolServesBenchmark, Bench!PoolServesBenchmark
<1> QED BY BenchmarkInit, <1>1, <1>2, PTL DEF FairSpec
\* The benchmark owns every chunk it hands back or writes to: it uses the pool
\* as the pool's specification demands, so the pool is an allocator there too,
\* for any number of rounds.
THEOREM BenchmarkPoolIsAllocator == FairSpec => PoolFacts!ImplementsAllocator
<1>1. Init => PoolFacts!Init
  BY DEF Init, Bench!Init, Bench!Pool!Init, PoolFacts!Init, Bench!Pool!Chunks, PoolFacts!Chunks,
         Bench!Pool!memory_, PoolFacts!memory_, Bench!Pool!nullptr, PoolFacts!nullptr
<1>2. BenchmarkInvariant /\ [Next]_vars => [PoolFacts!Next]_(PoolFacts!vars)
  <2> SUFFICES ASSUME BenchmarkInvariant, Bench!Next \/ UNCHANGED benchVars
               PROVE  PoolFacts!Next \/ UNCHANGED PoolFacts!vars
    BY BenchmarkSteps
  <2>1. PoolFacts!IInv
    BY DEF BenchmarkInvariant
  <2>2. CASE Bench!memoryManager \/ Bench!New
    BY <2>1, <2>2, PoolSteps DEF Bench!memoryManager, Bench!New
  <2>3. CASE Bench!Object1
    <3>1. Bench!Pool!ClientWrites(result) /\ result \in Bench!Pool!Chunks
      BY <2>3, PoolFactsOnObjects DEF Bench!Object1, Bench!Pool!ClientWrites
    <3> QED BY <2>1, <3>1, PoolSteps
  <2>4. CASE Bench!Delete
    <3>1. Bench!Pool!Deallocate(Head(o)) /\ Head(o) \in Bench!Pool!Chunks
      BY <2>4, PoolFactsOnObjects DEF Bench!Delete, Bench!Pool!Deallocate
    <3> QED BY <2>1, <3>1, PoolSteps
  <2>5. CASE Bench!get \/ Bench!Finished \/ UNCHANGED benchVars
    BY <2>5 DEF Bench!get, Bench!Finished, Bench!vars, Bench!poolVars, benchVars, PoolFacts!vars
  <2> QED BY <2>2, <2>3, <2>4, <2>5, NewCannotCrash DEF Bench!Next
<1>3. FairSpec => []BenchmarkInvariant
  <2>1. BenchmarkInvariant /\ [Next]_vars => BenchmarkInvariant'
    BY BenchmarkSteps, BenchmarkNext
  <2> QED BY <2>1, BenchmarkInit, PTL DEF FairSpec
<1>4. FairSpec => PoolFacts!Spec
  BY <1>1, <1>2, <1>3, PTL DEF FairSpec, PoolFacts!Spec
<1>5. PoolFacts!Spec => PoolFacts!ImplementsAllocator
  BY PoolFacts!PoolIsAllocator, BenchmarkConstants DEF PoolFacts!AmountAssumption
<1> QED BY <1>4, <1>5, PTL
-----------------------------------------------------------------------------
(* The demo of ThreadSafeQueue.                                              *)

QueueFacts == INSTANCE ThreadSafeQueue_proofs
              WITH Threads <- Demo!AllThreads, Values <- Demo!Items,
                   max_size_ <- QueueCapacity, MaxPushes <- Demo!TOTAL_ITEMS

Idle == Demo!Queue!Idle

DemoLabels == {"loop", "calling", "exited", "join producers", "join consumers", "PASS", "FAIL"}

\* A producer that has made its call pushes its next item, no push is ever
\* refused, and it leaves after the last one.
ProducerInOrder(p) ==
  /\ pc[p] \in {"loop", "calling", "exited"}
  /\ pc[p] # "calling" => call[p] = Idle
  /\ pc[p] = "calling" =>
       /\ i[p] < ItemsPerProducer
       /\ \/ call[p].op = "push" /\ call[p].value = <<p, i[p]>>
          \/ call[p] = Idle /\ ret[p].ok = TRUE
  /\ pc[p] = "exited" => i[p] = ItemsPerProducer

\* A consumer leaves when pop has returned nullopt, which it does only when
\* the queue is shut down and drained.
ConsumerStays(c) ==
  /\ pc[c] \in {"loop", "calling", "exited"}
  /\ call[c] = Idle \/ call[c].op = "pop"
  /\ pc[c] # "calling" => call[c] = Idle
  /\ pc[c] = "exited" \/ (pc[c] = "calling" /\ call[c] = Idle /\ ret[c].ok # TRUE)
       => done_ = TRUE /\ queue_ = <<>>

\* The queue is shut down only after every producer has gone.
ThreadsInOrder ==
  /\ pc \in [Demo!AllThreads -> DemoLabels] /\ i \in [Producers -> 0 .. ItemsPerProducer]
  /\ call[Main] = Idle
  /\ done_ = TRUE => \A p \in Producers : pc[p] = "exited"
  /\ \A p \in Producers : ProducerInOrder(p)
  /\ \A c \in Consumers : ConsumerStays(c)

\* The items for which push has returned true, whether or not they are counted.
Produced ==
  {x \in Demo!Items : \/ x[2] < i[x[1]]
                      \/ x[2] = i[x[1]] /\ pc[x[1]] = "calling" /\ call[x[1]] = Idle}

AcceptedOnce ==
  /\ \A m, n \in 1 .. Len(accepted) : accepted[m] = accepted[n] => m = n
  /\ {accepted[n] : n \in 1 .. Len(accepted)} = Produced

DemoInvariant ==
  /\ QueueFacts!TypeOK /\ QueueFacts!FIFO
  /\ ThreadsInOrder /\ AcceptedOnce

\* While the open queue runs, the threads of the demo do not.
QueueDemoInvariant ==
  /\ program = "queue" => \A c \in Consumers : pc[c] = "loop"
  /\ program # "queue" => DemoInvariant

\* The modules QueueDemo and ThreadSafeQueue_proofs count as this one does.
LEMMA SameCounting ==
  /\ \A S : Demo!IsFiniteSet(S) = IsFiniteSet(S) /\ QueueFacts!IsFiniteSet(S) = IsFiniteSet(S)
  /\ \A S : Demo!Cardinality(S) = Cardinality(S)
<1>1. \A S : Demo!IsFiniteSet(S) = IsFiniteSet(S)
  BY DEF Demo!IsFiniteSet, IsFiniteSet
<1>2. \A S : QueueFacts!IsFiniteSet(S) = IsFiniteSet(S)
  BY DEF QueueFacts!IsFiniteSet, IsFiniteSet
<1>3. \A S : Demo!Cardinality(S) = Cardinality(S)
  BY DEF Demo!Cardinality, Cardinality
<1> QED BY <1>1, <1>2, <1>3

LEMMA DemoConstants ==
  /\ ItemsPerProducer \in Nat /\ IsFiniteSet(Producers) /\ IsFiniteSet(Demo!Items)
  /\ Demo!TOTAL_ITEMS \in Nat /\ Cardinality(Demo!Items) = Demo!TOTAL_ITEMS
  /\ Producers \cap Consumers = {} /\ Main \notin Producers \cup Consumers
  /\ Producers \subseteq Demo!AllThreads /\ Consumers \subseteq Demo!AllThreads
  /\ Main \in Demo!AllThreads
  /\ QueueFacts!QueueAssumption
<1>1. /\ ItemsPerProducer \in Nat /\ IsFiniteSet(Producers) /\ IsFiniteSet(Consumers)
      /\ QueueCapacity \in Nat \ {0}
      /\ Producers \cap Consumers = {} /\ Main \notin Producers \cup Consumers
  BY DemoAssumptions, SameCounting DEF Demo!DemoAssumption
<1>2. Cardinality(Producers) \in Nat
  BY <1>1, FS_CardinalityType
<1>3. /\ IsFiniteSet(0 .. ItemsPerProducer - 1)
      /\ Cardinality(0 .. ItemsPerProducer - 1) = ItemsPerProducer
  <2>1. 0 \in Int /\ ItemsPerProducer - 1 \in Int
    BY <1>1
  <2>2. /\ IsFiniteSet(0 .. ItemsPerProducer - 1)
        /\ Cardinality(0 .. ItemsPerProducer - 1)
             = IF 0 > ItemsPerProducer - 1 THEN 0 ELSE (ItemsPerProducer - 1) - 0 + 1
    BY <2>1, FS_Interval
  <2> QED BY <1>1, <2>2
<1>4. IsFiniteSet(Demo!Items) /\ Cardinality(Demo!Items) = Cardinality(Producers) * ItemsPerProducer
  BY <1>1, <1>3, FS_Product DEF Demo!Items
<1>5. /\ Demo!TOTAL_ITEMS = Cardinality(Producers) * ItemsPerProducer
      /\ Demo!TOTAL_ITEMS \in Nat
  <2>1. Demo!TOTAL_ITEMS = Cardinality(Producers) * ItemsPerProducer
    BY SameCounting DEF Demo!TOTAL_ITEMS
  <2>2. \A m, n \in Nat : m * n \in Nat
    OBVIOUS
  <2> QED BY <1>1, <1>2, <2>1, <2>2
<1>6. IsFiniteSet(Demo!AllThreads)
  <2>1. IsFiniteSet({Main})
    BY FS_Singleton
  <2>2. IsFiniteSet(Producers \cup Consumers)
    BY <1>1, FS_Union
  <2> QED BY <2>1, <2>2, FS_Union DEF Demo!AllThreads
<1>7. QueueFacts!QueueAssumption
  BY <1>1, <1>5, <1>6, SameCounting DEF QueueFacts!QueueAssumption
<1> QED BY <1>1, <1>4, <1>5, <1>7 DEF Demo!AllThreads

\* Every step of the demo is a step of the queue as seen by its own proofs, or
\* leaves the queue alone.
LEMMA DemoQueueSteps ==
  ASSUME Demo!Next \/ UNCHANGED <<queueVars, demoVars>>, ThreadsInOrder
  PROVE  QueueFacts!Next \/ UNCHANGED QueueFacts!vars
<1> USE DEF QueueFacts!Next, QueueFacts!vars
<1>1. ASSUME NEW p \in Producers, Demo!ProducerPushes(p)
      PROVE  QueueFacts!Next
  <2>1. Demo!Queue!CallPush(p, <<p, i[p]>>) /\ i[p] \in 0 .. ItemsPerProducer - 1
    BY <1>1, DemoConstants DEF Demo!ProducerPushes, ThreadsInOrder
  <2>2. <<p, i[p]>> \in Demo!Items /\ p \in Demo!AllThreads
    BY <2>1, DemoConstants DEF Demo!Items
  <2>3. QueueFacts!CallPush(p, <<p, i[p]>>)
    BY <2>1 DEF Demo!Queue!CallPush, QueueFacts!CallPush, Demo!Queue!Idle, QueueFacts!Idle,
                Demo!Queue!PushCall, QueueFacts!PushCall
  <2> QED BY <2>2, <2>3
<1>2. ASSUME NEW c \in Consumers, Demo!ConsumerPops(c)
      PROVE  QueueFacts!Next
  <2>1. QueueFacts!CallPop(c)
    BY <1>2 DEF Demo!ConsumerPops, Demo!Queue!CallPop, QueueFacts!CallPop, Demo!Queue!Idle,
                QueueFacts!Idle, Demo!Queue!PopCall, QueueFacts!PopCall
  <2> QED BY <2>1, DemoConstants
<1>3. CASE Demo!MainShutsDown
  <2>1. QueueFacts!Shutdown(Main)
    BY <1>3 DEF Demo!MainShutsDown, Demo!Queue!Shutdown, QueueFacts!Shutdown, Demo!Queue!Idle, QueueFacts!Idle
  <2> QED BY <2>1, DemoConstants
<1>4. ASSUME NEW t \in Demo!AllThreads, Demo!InQueue(t)
      PROVE  QueueFacts!Next
  <2>1. QueueFacts!Proceed(t)
    BY <1>4
       DEF Demo!InQueue, Demo!Queue!Proceed, QueueFacts!Proceed,
           Demo!Queue!PushSleep, Demo!Queue!PushRefused, Demo!Queue!PushAccepted,
           Demo!Queue!PopSleep, Demo!Queue!PopEmpty, Demo!Queue!PopItem,
           QueueFacts!PushSleep, QueueFacts!PushRefused, QueueFacts!PushAccepted,
           QueueFacts!PopSleep, QueueFacts!PopEmpty, QueueFacts!PopItem,
           Demo!Queue!InPush, QueueFacts!InPush, Demo!Queue!InPop, QueueFacts!InPop,
           Demo!Queue!Asleep, QueueFacts!Asleep, Demo!Queue!has_space, QueueFacts!has_space,
           Demo!Queue!has_item, QueueFacts!has_item, Demo!Queue!Idle, QueueFacts!Idle,
           Demo!Queue!ReturnWith, QueueFacts!ReturnWith, Demo!Queue!PushBack, QueueFacts!PushBack,
           Demo!Queue!PopFront, QueueFacts!PopFront, Demo!Queue!Pushed, QueueFacts!Pushed,
           Demo!Queue!Popped, QueueFacts!Popped, Demo!Queue!nullopt, QueueFacts!nullopt,
           Demo!Queue!NotifyOne, QueueFacts!NotifyOne
  <2> QED BY <2>1
<1>5. ASSUME NEW t \in Demo!AllThreads, Demo!WakesSpuriously(t)
      PROVE  QueueFacts!Next
  <2>1. QueueFacts!SpuriousWakeup(t)
    BY <1>5 DEF Demo!WakesSpuriously, Demo!Queue!SpuriousWakeup, QueueFacts!SpuriousWakeup,
                Demo!Queue!Asleep, QueueFacts!Asleep
  <2> QED BY <2>1
<1>6. ASSUME \/ \E p \in Producers : Demo!ProducerCounts(p) \/ Demo!ProducerExits(p)
             \/ \E c \in Consumers : Demo!ConsumerCounts(c) \/ Demo!ConsumerExits(c)
             \/ Demo!MainChecks \/ Demo!Finished \/ UNCHANGED <<queueVars, demoVars>>
      PROVE  UNCHANGED QueueFacts!vars
  BY <1>6 DEF Demo!ProducerCounts, Demo!ProducerExits, Demo!ConsumerCounts, Demo!ConsumerExits,
              Demo!MainChecks, Demo!Finished, Demo!vars, Demo!queueVars, queueVars
<1> QED
  BY <1>1, <1>2, <1>3, <1>4, <1>5, <1>6, DemoConstants
     DEF Demo!Next, Demo!ProducerStep, Demo!ConsumerStep, Demo!MainStep

\* What is pending in the call of a thread can be read off op.
LEMMA CallTypes ==
  ASSUME QueueFacts!TypeOK
  PROVE  /\ call \in [Demo!AllThreads -> QueueFacts!Calls]
         /\ ret \in [Demo!AllThreads -> QueueFacts!Returns]
         /\ Idle.op = "none"
         /\ queue_ \in Seq(Demo!Items) /\ accepted \in Seq(Demo!Items) /\ delivered \in Seq(Demo!Items)
         /\ done_ \in BOOLEAN
BY DEF QueueFacts!TypeOK, Idle, Demo!Queue!Idle

\* A step that leaves the other threads alone, and the data of the queue.
LEMMA OtherThreadsInOrder ==
  ASSUME ThreadsInOrder, NEW t \in Demo!AllThreads,
         \A u \in Demo!AllThreads \ {t} : pc'[u] = pc[u] /\ call'[u] = call[u] /\ ret'[u] = ret[u],
         \A p \in Producers \ {t} : i'[p] = i[p],
         done_ = TRUE /\ queue_ = <<>> => done_' = TRUE /\ queue_' = <<>>
  PROVE  /\ \A p \in Producers \ {t} : ProducerInOrder(p)'
         /\ \A c \in Consumers \ {t} : ConsumerStays(c)'
<1>1. ASSUME NEW p \in Producers \ {t} PROVE ProducerInOrder(p)'
  <2>1. pc'[p] = pc[p] /\ call'[p] = call[p] /\ ret'[p] = ret[p] /\ i'[p] = i[p]
    BY DemoConstants
  <2> QED BY <2>1 DEF ThreadsInOrder, ProducerInOrder, Idle, Demo!Queue!Idle
<1>2. ASSUME NEW c \in Consumers \ {t} PROVE ConsumerStays(c)'
  <2>1. pc'[c] = pc[c] /\ call'[c] = call[c] /\ ret'[c] = ret[c]
    BY DemoConstants
  <2> QED BY <2>1 DEF ThreadsInOrder, ConsumerStays, Idle, Demo!Queue!Idle
<1> QED BY <1>1, <1>2

\* The same for what has been produced.
LEMMA ProducedUnchanged ==
  ASSUME AcceptedOnce, UNCHANGED accepted,
         \A x \in Demo!Items :
           \/ i'[x[1]] = i[x[1]] /\ UNCHANGED <<pc[x[1]], call[x[1]]>>
           \/ (x \in Produced) <=> (x \in Produced')
  PROVE  AcceptedOnce'
<1>1. \A x \in Demo!Items : (x \in Produced) <=> (x \in Produced')
  BY DEF Produced, Idle, Demo!Queue!Idle
<1>2. Produced' = Produced
  BY <1>1 DEF Produced
<1> QED BY <1>2 DEF AcceptedOnce

LEMMA ProducerPushesKeeps ==
  ASSUME DemoInvariant, NEW p \in Producers, Demo!ProducerPushes(p)
  PROVE  ThreadsInOrder' /\ AcceptedOnce'
<1> USE DemoConstants DEF Idle
<1>1. /\ pc[p] = "loop" /\ i[p] < ItemsPerProducer /\ call[p] = Demo!Queue!Idle
      /\ pc' = [pc EXCEPT ![p] = "calling"]
      /\ call' = [call EXCEPT ![p] = Demo!Queue!PushCall(<<p, i[p]>>)]
      /\ UNCHANGED <<queue_, done_, ret, accepted, i>>
  BY DEF Demo!ProducerPushes, Demo!Goto, Demo!Queue!CallPush
<1>2. /\ pc \in [Demo!AllThreads -> DemoLabels] /\ call \in [Demo!AllThreads -> QueueFacts!Calls]
      /\ p \in Demo!AllThreads /\ p # Main
  BY CallTypes DEF DemoInvariant, ThreadsInOrder
<1>3. /\ pc' \in [Demo!AllThreads -> DemoLabels] /\ pc'[p] = "calling"
      /\ call'[p] = Demo!Queue!PushCall(<<p, i[p]>>)
      /\ \A u \in Demo!AllThreads \ {p} : pc'[u] = pc[u] /\ call'[u] = call[u] /\ ret'[u] = ret[u]
  BY <1>1, <1>2 DEF DemoLabels
<1>4. call'[p].op = "push" /\ call'[p].value = <<p, i[p]>> /\ call'[p] # Demo!Queue!Idle
  BY <1>3 DEF Demo!Queue!PushCall, Demo!Queue!Idle
<1>5. ProducerInOrder(p)'
  BY <1>1, <1>3, <1>4 DEF ProducerInOrder
<1>6. (\A q \in Producers : ProducerInOrder(q)') /\ (\A c \in Consumers : ConsumerStays(c)')
  BY <1>1, <1>2, <1>3, <1>5, OtherThreadsInOrder DEF DemoInvariant
<1>7. ~(done_ = TRUE)
  BY <1>1 DEF DemoInvariant, ThreadsInOrder
<1>8. ThreadsInOrder'
  <2>1. call'[Main] = Demo!Queue!Idle
    BY <1>2, <1>3 DEF DemoInvariant, ThreadsInOrder
  <2> QED BY <1>1, <1>3, <1>6, <1>7, <2>1 DEF DemoInvariant, ThreadsInOrder
<1>9. ASSUME NEW x \in Demo!Items, x[1] = p
      PROVE  (x \in Produced) <=> (x \in Produced')
  <2>1. (x \in Produced) <=> x[2] < i[p]
    BY <1>1, <1>9 DEF Produced
  <2>2. (x \in Produced') <=> x[2] < i[p]
    BY <1>1, <1>4, <1>9 DEF Produced
  <2> QED BY <2>1, <2>2
<1>10. AcceptedOnce'
  <2>1. \A x \in Demo!Items : x[1] \in Demo!AllThreads
    BY DEF Demo!Items
  <2> QED BY <1>1, <1>3, <1>9, <2>1, ProducedUnchanged DEF DemoInvariant
<1> QED BY <1>8, <1>10

LEMMA ProducerReturnsKeeps ==
  ASSUME DemoInvariant, NEW p \in Producers, Demo!ProducerCounts(p) \/ Demo!ProducerExits(p)
  PROVE  ThreadsInOrder' /\ AcceptedOnce'
<1> USE DemoConstants DEF Idle
<1>1. /\ pc \in [Demo!AllThreads -> DemoLabels] /\ i \in [Producers -> 0 .. ItemsPerProducer]
      /\ p \in Demo!AllThreads /\ p # Main
      /\ ProducerInOrder(p)
  BY DEF DemoInvariant, ThreadsInOrder
<1>2. UNCHANGED <<queue_, done_, call, ret, accepted>>
  BY DEF Demo!ProducerCounts, Demo!ProducerExits, Demo!queueVars
<1>3. /\ call[p] = Demo!Queue!Idle
      /\ pc' \in [Demo!AllThreads -> DemoLabels]
      /\ \A u \in Demo!AllThreads \ {p} : pc'[u] = pc[u] /\ call'[u] = call[u] /\ ret'[u] = ret[u]
      /\ i' \in [Producers -> 0 .. ItemsPerProducer] /\ \A q \in Producers \ {p} : i'[q] = i[q]
      /\ \/ pc[p] = "calling" /\ pc'[p] = "loop" /\ i'[p] = i[p] + 1
         \/ pc[p] = "loop" /\ pc'[p] = "exited" /\ i'[p] = i[p] /\ i[p] = ItemsPerProducer
  <2>1. CASE Demo!ProducerCounts(p)
    <3>1. /\ pc[p] = "calling" /\ call[p] = Demo!Queue!Idle
          /\ i' = [i EXCEPT ![p] = i[p] + 1] /\ pc' = [pc EXCEPT ![p] = "loop"]
      BY <2>1 DEF Demo!ProducerCounts, Demo!Returned, Demo!Goto
    <3>2. i[p] < ItemsPerProducer /\ i[p] + 1 \in 0 .. ItemsPerProducer
      BY <1>1, <3>1 DEF ProducerInOrder
    <3> QED BY <1>1, <1>2, <3>1, <3>2 DEF DemoLabels
  <2>2. CASE Demo!ProducerExits(p)
    <3>1. pc' = [pc EXCEPT ![p] = "exited"] /\ UNCHANGED i
      BY <2>2 DEF Demo!ProducerExits, Demo!Goto
    <3>2. ~(Demo!Returned(p) /\ ~ret[p].ok)
      <4>1. Demo!Returned(p) => ret[p].ok = TRUE
        <5>1. Idle.op = "none"
          BY CallTypes DEF DemoInvariant
        <5> QED BY <1>1, <5>1 DEF ProducerInOrder, Demo!Returned
      <4> QED BY <4>1
    <3>3. pc[p] = "loop" /\ i[p] = ItemsPerProducer
      BY <2>2, <3>2 DEF Demo!ProducerExits
    <3> QED BY <1>1, <1>2, <3>1, <3>3 DEF DemoLabels, ProducerInOrder
  <2> QED BY <2>1, <2>2
<1>4. ProducerInOrder(p)'
  BY <1>1, <1>2, <1>3 DEF ProducerInOrder
<1>5. (\A q \in Producers : ProducerInOrder(q)') /\ (\A c \in Consumers : ConsumerStays(c)')
  BY <1>1, <1>2, <1>3, <1>4, OtherThreadsInOrder DEF DemoInvariant
<1>6. done_ # TRUE
  BY <1>3 DEF DemoInvariant, ThreadsInOrder
<1>7. ThreadsInOrder'
  BY <1>2, <1>3, <1>5, <1>6 DEF DemoInvariant, ThreadsInOrder
<1>8. ASSUME NEW x \in Demo!Items, x[1] = p
      PROVE  (x \in Produced) <=> (x \in Produced')
  <2>1. x[2] \in Nat /\ x[2] < ItemsPerProducer /\ i[p] \in Nat
    BY <1>1 DEF Demo!Items
  <2>2. CASE pc[p] = "calling"
    <3>1. (x \in Produced) <=> x[2] < i[p] \/ x[2] = i[p]
      BY <1>3, <1>8, <2>2 DEF Produced
    <3>2. (x \in Produced') <=> x[2] < i[p] + 1
      BY <1>3, <1>8, <2>2 DEF Produced
    <3> QED BY <2>1, <3>1, <3>2
  <2>3. CASE pc[p] = "loop"
    <3>1. (x \in Produced) <=> x[2] < i[p]
      BY <1>3, <1>8, <2>3 DEF Produced
    <3>2. (x \in Produced') <=> x[2] < i[p]
      BY <1>3, <1>8, <2>3 DEF Produced
    <3> QED BY <3>1, <3>2
  <2> QED BY <1>3, <2>2, <2>3
<1>9. AcceptedOnce'
  <2>1. \A x \in Demo!Items : x[1] \in Producers /\ x[1] \in Demo!AllThreads
    BY DEF Demo!Items
  <2> QED BY <1>2, <1>3, <1>8, <2>1, ProducedUnchanged DEF DemoInvariant
<1> QED BY <1>7, <1>9

\* Steps that touch neither a producer nor the histories.
LEMMA ProducersUntouched ==
  ASSUME DemoInvariant, UNCHANGED <<accepted, i>>,
         \A p \in Producers : pc'[p] = pc[p] /\ call'[p] = call[p]
  PROVE  AcceptedOnce'
<1>1. \A x \in Demo!Items : x[1] \in Producers
  BY DEF Demo!Items
<1> QED BY <1>1, ProducedUnchanged DEF DemoInvariant

LEMMA ConsumerStepKeeps ==
  ASSUME DemoInvariant, NEW c \in Consumers,
         Demo!ConsumerPops(c) \/ Demo!ConsumerCounts(c) \/ Demo!ConsumerExits(c)
  PROVE  ThreadsInOrder' /\ AcceptedOnce'
<1> USE DemoConstants DEF Idle
<1>1. /\ pc \in [Demo!AllThreads -> DemoLabels] /\ call \in [Demo!AllThreads -> QueueFacts!Calls]
      /\ c \in Demo!AllThreads /\ c # Main /\ c \notin Producers
      /\ ConsumerStays(c)
  BY CallTypes DEF DemoInvariant, ThreadsInOrder
<1>2. UNCHANGED <<queue_, done_, ret, accepted, i>>
  BY DEF Demo!ConsumerPops, Demo!ConsumerCounts, Demo!ConsumerExits, Demo!Queue!CallPop, Demo!queueVars
<1>3. /\ pc' \in [Demo!AllThreads -> DemoLabels]
      /\ \A u \in Demo!AllThreads \ {c} : pc'[u] = pc[u] /\ call'[u] = call[u]
      /\ ConsumerStays(c)'
  <2>1. CASE Demo!ConsumerPops(c)
    <3>1. /\ pc' = [pc EXCEPT ![c] = "calling"]
          /\ call' = [call EXCEPT ![c] = Demo!Queue!PopCall]
      BY <2>1 DEF Demo!ConsumerPops, Demo!Queue!CallPop, Demo!Goto
    <3>2. Demo!Queue!PopCall.op = "pop" /\ Demo!Queue!PopCall # Demo!Queue!Idle
      BY DEF Demo!Queue!PopCall, Demo!Queue!Idle
    <3> HIDE DEF Idle
    <3>3. pc'[c] = "calling" /\ call'[c] = Demo!Queue!PopCall
      BY <1>1, <3>1
    <3>4. ConsumerStays(c)'
      BY <3>2, <3>3 DEF ConsumerStays, Idle
    <3> QED BY <1>1, <3>1, <3>4 DEF DemoLabels
  <2>2. CASE Demo!ConsumerCounts(c)
    <3>1. /\ pc' = [pc EXCEPT ![c] = "loop"] /\ UNCHANGED call
          /\ call[c] = Demo!Queue!Idle
      BY <2>2 DEF Demo!ConsumerCounts, Demo!Returned, Demo!Goto, Demo!queueVars
    <3> QED BY <1>1, <3>1 DEF DemoLabels, ConsumerStays
  <2>3. CASE Demo!ConsumerExits(c)
    <3>1. /\ pc' = [pc EXCEPT ![c] = "exited"] /\ UNCHANGED call
          /\ pc[c] = "calling" /\ call[c] = Demo!Queue!Idle /\ ~ret[c].ok
      BY <2>3 DEF Demo!ConsumerExits, Demo!Returned, Demo!Goto, Demo!queueVars
    <3>2. ret[c].ok # TRUE
      BY <3>1
    <3>3. done_ = TRUE /\ queue_ = <<>>
      BY <1>1, <3>1, <3>2 DEF ConsumerStays
    <3> QED BY <1>1, <1>2, <3>1, <3>3 DEF DemoLabels, ConsumerStays
  <2> QED BY <2>1, <2>2, <2>3
<1>4. (\A q \in Producers : ProducerInOrder(q)') /\ (\A d \in Consumers : ConsumerStays(d)')
  BY <1>1, <1>2, <1>3, OtherThreadsInOrder DEF DemoInvariant
<1>5. \A q \in Producers : pc'[q] = pc[q] /\ call'[q] = call[q]
  BY <1>1, <1>3
<1>6. call'[Main] = call[Main]
  BY <1>1, <1>3
<1>7. ThreadsInOrder'
  BY <1>2, <1>3, <1>4, <1>5, <1>6 DEF DemoInvariant, ThreadsInOrder
<1> QED BY <1>2, <1>5, <1>7, ProducersUntouched

LEMMA MainStepKeeps ==
  ASSUME DemoInvariant,
         \/ Demo!MainShutsDown \/ Demo!MainChecks \/ Demo!Finished
         \/ \E t \in Demo!AllThreads : Demo!WakesSpuriously(t)
         \/ UNCHANGED <<queueVars, demoVars>>
  PROVE  ThreadsInOrder' /\ AcceptedOnce'
<1> USE DemoConstants
<1>1. /\ UNCHANGED <<queue_, call, ret, accepted, i>>
      /\ \/ UNCHANGED done_
         \/ done_' = TRUE /\ \A p \in Producers : pc[p] = "exited"
      /\ UNCHANGED pc \/ \E label \in DemoLabels : pc' = [pc EXCEPT ![Main] = label]
  <2>1. CASE Demo!MainShutsDown
    BY <2>1 DEF Demo!MainShutsDown, Demo!Joined, Demo!Queue!Shutdown, Demo!Goto, DemoLabels
  <2>2. CASE Demo!MainChecks
    <3>1. \E label \in {"PASS", "FAIL"} : pc' = [pc EXCEPT ![Main] = label]
      BY <2>2 DEF Demo!MainChecks, Demo!Goto
    <3> QED BY <2>2, <3>1 DEF Demo!MainChecks, Demo!queueVars, DemoLabels
  <2>3. CASE Demo!Finished \/ UNCHANGED <<queueVars, demoVars>>
    BY <2>3 DEF Demo!Finished, Demo!vars, Demo!queueVars, queueVars, demoVars
  <2>4. ASSUME NEW t \in Demo!AllThreads, Demo!WakesSpuriously(t)
        PROVE  UNCHANGED <<queue_, call, ret, accepted, i, done_, pc>>
    BY <2>4 DEF Demo!WakesSpuriously, Demo!Queue!SpuriousWakeup
  <2> QED BY <2>1, <2>2, <2>3, <2>4
<1>2. pc \in [Demo!AllThreads -> DemoLabels] /\ Main \notin Producers /\ Main \notin Consumers
  BY DEF DemoInvariant, ThreadsInOrder
<1>3. /\ pc' \in [Demo!AllThreads -> DemoLabels]
      /\ \A t \in Demo!AllThreads \ {Main} : pc'[t] = pc[t]
  BY <1>1, <1>2
<1>4. done_ = TRUE => done_' = TRUE
  BY <1>1
<1>5. (\A p \in Producers : ProducerInOrder(p)') /\ (\A c \in Consumers : ConsumerStays(c)')
  BY <1>1, <1>2, <1>3, <1>4, OtherThreadsInOrder DEF DemoInvariant
<1>6. \A p \in Producers : pc'[p] = pc[p]
  BY <1>2, <1>3
<1>7. ThreadsInOrder'
  BY <1>1, <1>3, <1>5, <1>6 DEF DemoInvariant, ThreadsInOrder, Idle, Demo!Queue!Idle
<1> QED BY <1>1, <1>6, <1>7, ProducersUntouched

\* The critical sections of a consumer: pop sleeps, finds the queue drained, or
\* takes an item.
LEMMA PopKeeps ==
  ASSUME DemoInvariant, NEW c \in Consumers, Demo!InQueue(c)
  PROVE  ThreadsInOrder' /\ AcceptedOnce'
<1> USE DemoConstants DEF Idle
<1>1. /\ call \in [Demo!AllThreads -> QueueFacts!Calls] /\ ret \in [Demo!AllThreads -> QueueFacts!Returns]
      /\ c \in Demo!AllThreads /\ c # Main /\ c \notin Producers
      /\ ConsumerStays(c) /\ Demo!Queue!Idle.op = "none" /\ done_ \in BOOLEAN
  BY CallTypes DEF DemoInvariant, ThreadsInOrder
<1>2. UNCHANGED <<pc, i>>
  BY DEF Demo!InQueue
<1>3. ~Demo!Queue!InPush(c)
  BY <1>1 DEF ConsumerStays, Demo!Queue!InPush
<1>4. /\ UNCHANGED <<done_, accepted>>
      /\ \A u \in Demo!AllThreads \ {c} : call'[u] = call[u] /\ ret'[u] = ret[u]
      /\ done_ = TRUE /\ queue_ = <<>> => queue_' = <<>>
      /\ ConsumerStays(c)'
  <2>1. CASE Demo!Queue!PopSleep(c)
    BY <1>1, <1>2, <2>1 DEF Demo!Queue!PopSleep, ConsumerStays
  <2>2. CASE Demo!Queue!PopEmpty(c)
    <3>1. /\ call[c].op = "pop" /\ done_ = TRUE /\ queue_ = <<>>
          /\ call' = [call EXCEPT ![c] = Demo!Queue!Idle]
          /\ ret' = [ret EXCEPT ![c] = Demo!Queue!nullopt("pop")]
          /\ UNCHANGED <<queue_, done_, accepted>>
      BY <1>1, <2>2 DEF Demo!Queue!PopEmpty, Demo!Queue!InPop, Demo!Queue!has_item, Demo!Queue!ReturnWith
    <3>2. pc[c] = "calling" /\ call'[c] = Demo!Queue!Idle
      BY <1>1, <3>1 DEF ConsumerStays
    <3> QED BY <1>1, <1>2, <3>1, <3>2 DEF ConsumerStays
  <2>3. CASE Demo!Queue!PopItem(c)
    <3> DEFINE r == Demo!Queue!Popped("pop", Head(queue_))
    <3>1. /\ call[c].op = "pop" /\ queue_ # <<>>
          /\ call' = [call EXCEPT ![c] = Demo!Queue!Idle]
          /\ ret' = [ret EXCEPT ![c] = r]
          /\ UNCHANGED <<done_, accepted>>
      BY <2>3 DEF Demo!Queue!PopItem, Demo!Queue!InPop, Demo!Queue!has_item, Demo!Queue!PopFront
    <3>2. pc[c] = "calling"
      BY <1>1, <3>1 DEF ConsumerStays
    <3>3. r.ok = TRUE
      BY DEF Demo!Queue!Popped
    <3> HIDE DEF r
    <3>4. call'[c] = Demo!Queue!Idle /\ ret'[c] = r
      BY <1>1, <3>1
    <3>5. ConsumerStays(c)'
      BY <1>2, <3>2, <3>3, <3>4 DEF ConsumerStays
    <3> QED BY <1>1, <3>1, <3>5
  <2> QED BY <1>3, <2>1, <2>2, <2>3
          DEF Demo!InQueue, Demo!Queue!Proceed, Demo!Queue!PushSleep, Demo!Queue!PushRefused,
              Demo!Queue!PushAccepted
<1>5. (\A q \in Producers : ProducerInOrder(q)') /\ (\A d \in Consumers : ConsumerStays(d)')
  BY <1>1, <1>2, <1>4, OtherThreadsInOrder DEF DemoInvariant
<1>6. \A q \in Producers : pc'[q] = pc[q] /\ call'[q] = call[q]
  BY <1>1, <1>2, <1>4
<1>7. ThreadsInOrder'
  BY <1>1, <1>2, <1>4, <1>5 DEF DemoInvariant, ThreadsInOrder
<1> QED BY <1>2, <1>4, <1>6, <1>7, ProducersUntouched

\* A producer's critical section accepts exactly the item it is at.
LEMMA PushKeeps ==
  ASSUME DemoInvariant, NEW p \in Producers, Demo!InQueue(p)
  PROVE  ThreadsInOrder' /\ AcceptedOnce'
<1> USE DemoConstants DEF Idle
<1> DEFINE v == <<p, i[p]>>
<1>1. /\ call \in [Demo!AllThreads -> QueueFacts!Calls] /\ ret \in [Demo!AllThreads -> QueueFacts!Returns]
      /\ p \in Demo!AllThreads /\ p # Main
      /\ ProducerInOrder(p) /\ Demo!Queue!Idle.op = "none" /\ done_ \in BOOLEAN
      /\ i \in [Producers -> 0 .. ItemsPerProducer] /\ accepted \in Seq(Demo!Items)
  BY CallTypes DEF DemoInvariant, ThreadsInOrder
<1>2. UNCHANGED <<pc, i>>
  BY DEF Demo!InQueue
<1>3. Demo!Queue!PushSleep(p) \/ Demo!Queue!PushRefused(p) \/ Demo!Queue!PushAccepted(p)
  BY <1>1 DEF ProducerInOrder, Demo!InQueue, Demo!Queue!Proceed, Demo!Queue!InPop,
              Demo!Queue!PopSleep, Demo!Queue!PopEmpty, Demo!Queue!PopItem
<1>4. /\ call[p].op = "push" /\ pc[p] = "calling" /\ i[p] < ItemsPerProducer
      /\ call[p].value = v /\ call[p] # Demo!Queue!Idle
  BY <1>1, <1>3
     DEF ProducerInOrder, Demo!Queue!InPush, Demo!Queue!PushSleep, Demo!Queue!PushRefused,
         Demo!Queue!PushAccepted
<1>5. done_ # TRUE
  BY <1>4 DEF DemoInvariant, ThreadsInOrder
<1>6. CASE Demo!Queue!PushSleep(p)
  <2>1. UNCHANGED <<queue_, done_, call, ret, accepted>>
    BY <1>6 DEF Demo!Queue!PushSleep
  <2>2. ThreadsInOrder'
    BY <1>2, <2>1 DEF DemoInvariant, ThreadsInOrder, ProducerInOrder, ConsumerStays
  <2> QED BY <1>2, <2>1, <2>2, ProducersUntouched
<1>7. CASE Demo!Queue!PushRefused(p)
  BY <1>1, <1>5, <1>7 DEF Demo!Queue!PushRefused
<1>8. CASE Demo!Queue!PushAccepted(p)
  <2> DEFINE r == Demo!Queue!Pushed("push", TRUE)
  <2>1. /\ accepted' = Append(accepted, v)
        /\ call' = [call EXCEPT ![p] = Demo!Queue!Idle]
        /\ ret' = [ret EXCEPT ![p] = r]
        /\ UNCHANGED done_
    BY <1>4, <1>8 DEF Demo!Queue!PushAccepted, Demo!Queue!PushBack
  <2>2. r.ok = TRUE
    BY DEF Demo!Queue!Pushed
  <2>3. v \in Demo!Items /\ v \notin Produced
    BY <1>1, <1>4 DEF Demo!Items, Produced
  <2> HIDE DEF r, v
  <2>4. /\ call'[p] = Demo!Queue!Idle /\ ret'[p] = r
        /\ \A u \in Demo!AllThreads \ {p} : call'[u] = call[u] /\ ret'[u] = ret[u]
    BY <1>1, <2>1
  <2>5. ProducerInOrder(p)'
    BY <1>2, <1>4, <2>2, <2>4 DEF ProducerInOrder
  <2>6. (\A q \in Producers : ProducerInOrder(q)') /\ (\A c \in Consumers : ConsumerStays(c)')
    BY <1>1, <1>2, <1>5, <2>4, <2>5, OtherThreadsInOrder DEF DemoInvariant
  <2>7. ThreadsInOrder'
    BY <1>1, <1>2, <2>1, <2>4, <2>6 DEF DemoInvariant, ThreadsInOrder
  <2>8. Produced' = Produced \cup {v}
    <3>1. ASSUME NEW x \in Demo!Items PROVE x \in Produced' <=> x \in Produced \/ x = v
      <4>1. /\ x[1] \in Producers /\ x[2] \in Int /\ x = <<x[1], x[2]>>
        BY DEF Demo!Items
      <4>2. CASE x[1] = p
        <5>1. x \in Produced' <=> x[2] < i[p] \/ x[2] = i[p]
          BY <1>2, <1>4, <2>4, <4>2 DEF Produced
        <5>2. x \in Produced <=> x[2] < i[p]
          BY <1>4, <4>2 DEF Produced
        <5>3. x = v <=> x[2] = i[p]
          BY <4>1, <4>2 DEF v
        <5> QED BY <5>1, <5>2, <5>3
      <4>3. CASE x[1] # p
        <5>1. call'[x[1]] = call[x[1]]
          BY <2>4, <4>1, <4>3
        <5>2. x # v
          BY <4>3 DEF v
        <5> QED BY <1>2, <5>1, <5>2 DEF Produced
      <4> QED BY <4>2, <4>3
    <3>2. Produced \subseteq Demo!Items /\ Produced' \subseteq Demo!Items
      BY DEF Produced
    <3> QED BY <2>3, <3>1, <3>2
  <2>9. /\ Len(accepted) \in Nat /\ Len(accepted') = Len(accepted) + 1
        /\ \A n \in 1 .. Len(accepted) : accepted'[n] = accepted[n]
        /\ accepted'[Len(accepted) + 1] = v
    BY <1>1, <2>1, <2>3, AppendProperties, LenProperties
  <2>10. \A n \in 1 .. Len(accepted') : n \in 1 .. Len(accepted) \/ n = Len(accepted) + 1
    BY <2>9
  <2>11. /\ \A n \in 1 .. Len(accepted) : accepted[n] \in Produced
         /\ \A m, n \in 1 .. Len(accepted) : accepted[m] = accepted[n] => m = n
         /\ \A x \in Produced : \E n \in 1 .. Len(accepted) : accepted[n] = x
    BY DEF DemoInvariant, AcceptedOnce
  <2>12. \A m, n \in 1 .. Len(accepted') : accepted'[m] = accepted'[n] => m = n
    BY <2>3, <2>9, <2>10, <2>11
  <2>13. {accepted'[n] : n \in 1 .. Len(accepted')} = Produced'
    <3>1. ASSUME NEW n \in 1 .. Len(accepted') PROVE accepted'[n] \in Produced'
      BY <2>8, <2>9, <2>10, <2>11
    <3>2. ASSUME NEW x \in Produced' PROVE \E n \in 1 .. Len(accepted') : accepted'[n] = x
      <4>1. Len(accepted) + 1 \in 1 .. Len(accepted') /\ 1 .. Len(accepted) \subseteq 1 .. Len(accepted')
        BY <2>9
      <4>2. CASE x = v
        BY <2>9, <4>1, <4>2
      <4>3. CASE x \in Produced
        BY <2>9, <2>11, <4>1, <4>3
      <4> QED BY <2>8, <4>2, <4>3
    <3> QED BY <3>1, <3>2
  <2> QED BY <2>7, <2>12, <2>13 DEF AcceptedOnce
<1> QED BY <1>3, <1>6, <1>7, <1>8

LEMMA DemoNext ==
  ASSUME DemoInvariant, Demo!Next \/ UNCHANGED <<queueVars, demoVars>>
  PROVE  DemoInvariant'
<1>1. QueueFacts!Next \/ UNCHANGED QueueFacts!vars
  BY DemoQueueSteps DEF DemoInvariant
<1>2. QueueFacts!TypeOK' /\ QueueFacts!FIFO'
  BY <1>1, DemoConstants, QueueFacts!NextTypeOK, QueueFacts!NextFIFO
     DEF DemoInvariant, QueueFacts!QueueAssumption
<1>3. ThreadsInOrder' /\ AcceptedOnce'
  BY ProducerPushesKeeps, ProducerReturnsKeeps, PushKeeps, ConsumerStepKeeps, PopKeeps, MainStepKeeps
     DEF Demo!Next, Demo!ProducerStep, Demo!ConsumerStep, Demo!MainStep
<1> QED BY <1>2, <1>3 DEF DemoInvariant

LEMMA DemoInit == Demo!Init => DemoInvariant /\ \A c \in Consumers : pc[c] = "loop"
<1> SUFFICES ASSUME Demo!Init PROVE DemoInvariant /\ \A c \in Consumers : pc[c] = "loop"
  OBVIOUS
<1>1. /\ queue_ = <<>> /\ accepted = <<>> /\ done_ = FALSE
      /\ call = [t \in Demo!AllThreads |-> Demo!Queue!Idle]
      /\ pc = [t \in Demo!AllThreads |-> IF t = Main THEN "join producers" ELSE "loop"]
      /\ i = [p \in Producers |-> 0]
      /\ QueueFacts!Init
  BY DEF Demo!Init, Demo!Queue!Init, QueueFacts!Init, Demo!Queue!Idle, QueueFacts!Idle
<1>2. QueueFacts!TypeOK
  BY <1>1, DemoConstants, QueueFacts!InitTypeOK DEF QueueFacts!QueueAssumption
<1>3. QueueFacts!FIFO
  <2>1. delivered = <<>>
    BY <1>1 DEF QueueFacts!Init
  <2>2. <<>> \o <<>> = <<>>
    BY EmptySeq, ConcatEmptySeq
  <2> QED BY <1>1, <2>1, <2>2 DEF QueueFacts!FIFO
<1>4. \A c \in Consumers : pc[c] = "loop" /\ ConsumerStays(c)
  BY <1>1, DemoConstants DEF ConsumerStays, Idle
<1>5. \A p \in Producers : pc[p] = "loop" /\ i[p] = 0 /\ call[p] = Demo!Queue!Idle
  BY <1>1, DemoConstants
<1>6. ThreadsInOrder
  <2>1. \A p \in Producers : ProducerInOrder(p)
    BY <1>5 DEF ProducerInOrder, Idle
  <2>2. pc \in [Demo!AllThreads -> DemoLabels] /\ call[Main] = Idle
    BY <1>1, DemoConstants DEF DemoLabels, Idle
  <2>3. i \in [Producers -> 0 .. ItemsPerProducer]
    <3>1. 0 \in 0 .. ItemsPerProducer
      BY DemoConstants
    <3> QED BY <1>1, <3>1
  <2> QED BY <1>1, <1>4, <2>1, <2>2, <2>3 DEF ThreadsInOrder
<1>7. AcceptedOnce
  <2>1. Produced = {}
    BY <1>5 DEF Produced, Demo!Items
  <2>2. Len(<<>>) = 0
    BY EmptySeq
  <2>3. 1 .. Len(accepted) = {}
    <3>1. accepted = <<>>
      BY <1>1
    <3>2. 1 .. 0 = {}
      OBVIOUS
    <3> QED BY <2>2, <3>1, <3>2
  <2> QED BY <2>1, <2>3 DEF AcceptedOnce
<1> QED BY <1>2, <1>3, <1>4, <1>6, <1>7 DEF DemoInvariant

LEMMA DemoSteps ==
  [Next]_vars => /\ program' = program
                 /\ program = "queue" => UNCHANGED demoVars
                 /\ program # "queue" => Demo!Next \/ UNCHANGED <<queueVars, demoVars>>
BY DEF Next, vars, ByQueue, ByDemo, ByStack, ByRocker, ByScreen, ByBench, By, NoOtherStep, NoQueueStep

\* Once a consumer has left, every item has been produced and handed out.
LEMMA GoneConsumersGotAll ==
  ASSUME DemoInvariant, NEW c \in Consumers, pc[c] = "exited"
  PROVE  /\ Len(delivered) = Demo!TOTAL_ITEMS
         /\ {delivered[n] : n \in 1 .. Len(delivered)} = Demo!Items
<1>1. queue_ = <<>> /\ done_ = TRUE
  BY DEF DemoInvariant, ThreadsInOrder, ConsumerStays
<1>2. \A p \in Producers : i[p] = ItemsPerProducer
  BY <1>1 DEF DemoInvariant, ThreadsInOrder, ProducerInOrder
<1>3. Produced = Demo!Items
  <2>1. ASSUME NEW x \in Demo!Items PROVE x[2] < i[x[1]]
    <3>1. x[1] \in Producers /\ x[2] \in 0 .. ItemsPerProducer - 1
      BY DEF Demo!Items
    <3> QED BY <1>2, <3>1, DemoConstants
  <2> QED BY <2>1 DEF Produced
<1>4. accepted = delivered /\ delivered \in Seq(Demo!Items)
  <2>1. delivered \in Seq(Demo!Items) /\ accepted = delivered \o queue_
    BY CallTypes DEF DemoInvariant, QueueFacts!FIFO
  <2> QED BY <1>1, <2>1, ConcatEmptySeq
<1>5. /\ \A m, n \in 1 .. Len(delivered) : delivered[m] = delivered[n] => m = n
      /\ {delivered[n] : n \in 1 .. Len(delivered)} = Demo!Items
  BY <1>3, <1>4 DEF DemoInvariant, AcceptedOnce
<1>6. Len(delivered) = Cardinality(Demo!Items)
  <2>1. Len(delivered) \in Nat /\ delivered \in [1 .. Len(delivered) -> Demo!Items]
        /\ DOMAIN delivered = 1 .. Len(delivered)
    BY <1>4, LenProperties
  <2>2. delivered \in Bijection(1 .. Len(delivered), Demo!Items)
    <3>1. \A x \in Demo!Items : \E n \in 1 .. Len(delivered) : delivered[n] = x
      BY <1>5
    <3> QED BY <1>5, <2>1, <3>1 DEF Bijection, Injection, Surjection, IsInjective
  <2> QED BY <2>1, <2>2, FS_CountingElements DEF ExistsBijection
<1> QED BY <1>5, <1>6, DemoConstants

LEMMA QueueDemoInvariantHolds == FairSpec => []QueueDemoInvariant
<1>1. Init => QueueDemoInvariant
  BY DemoInit DEF Init, QueueDemoInvariant
<1>2. QueueDemoInvariant /\ [Next]_vars => QueueDemoInvariant'
  <2> SUFFICES ASSUME QueueDemoInvariant, [Next]_vars PROVE QueueDemoInvariant'
    OBVIOUS
  <2>1. CASE program = "queue"
    BY <2>1, DemoSteps DEF QueueDemoInvariant, demoVars
  <2>2. CASE program # "queue"
    BY <2>2, DemoSteps, DemoNext DEF QueueDemoInvariant
  <2> QED BY <2>1, <2>2
<1> QED BY <1>1, <1>2, PTL DEF FairSpec

\* No consumer leaves while an item is still to come, for any number of
\* producers, consumers and items and any capacity of the queue.
THEOREM ConsumersDoNotLeaveEarly == FairSpec => []NoConsumerLeavesEarly
<1>1. QueueDemoInvariant => NoConsumerLeavesEarly
  BY GoneConsumersGotAll DEF QueueDemoInvariant, NoConsumerLeavesEarly, Demo!NoConsumerLeavesEarly
<1> QED BY <1>1, QueueDemoInvariantHolds, PTL

\* The demo uses the queue as its specification allows.
LEMMA QueueDemoUsesQueue == FairSpec /\ program # "queue" => QueueFacts!Spec
<1> DEFINE Runs == program # "queue"
<1>1. Init => QueueFacts!Init
  BY DEF Init, Demo!Init, Demo!Queue!Init, QueueFacts!Init, Demo!Queue!Idle, QueueFacts!Idle
<1>2. Runs /\ [Next]_vars => Runs'
  BY DemoSteps
<1>3. Runs /\ QueueDemoInvariant /\ [Next]_vars => [QueueFacts!Next]_(QueueFacts!vars)
  BY DemoSteps, DemoQueueSteps DEF QueueDemoInvariant, DemoInvariant
<1> QED BY <1>1, <1>2, <1>3, QueueDemoInvariantHolds, PTL DEF FairSpec, QueueFacts!Spec

\* All that is proved of the queue holds in its demo, for any number of threads
\* and items and any capacity: it hands items over as the abstract channel does,
\* and no wakeup is missed.
THEOREM QueueDemoHasAChannel ==
  FairSpec /\ program # "queue" => QueueFacts!ImplementsChannel /\ []QueueFacts!NoMissedWakeup
<1>1. QueueFacts!Spec => QueueFacts!ImplementsChannel
  BY QueueFacts!QueueImplementsChannel, DemoConstants DEF QueueFacts!QueueAssumption
<1>2. QueueFacts!Spec => []QueueFacts!NoMissedWakeup
  BY QueueFacts!WakeupsAreNotMissed, DemoConstants DEF QueueFacts!QueueAssumption
<1> QED BY <1>1, <1>2, QueueDemoUsesQueue, PTL

\* Who of the demo has a step to take: the guards of its actions, the model's
\* bound on pushes included.
ProducerCanStep(p) ==
  \/ pc[p] = "loop" /\ (i[p] = ItemsPerProducer \/ Len(accepted) < Demo!TOTAL_ITEMS)
  \/ pc[p] = "calling" /\ (call[p] = Idle \/ Demo!Queue!InPush(p))
ConsumerCanStep(c) ==
  \/ pc[c] = "loop"
  \/ pc[c] = "calling" /\ (call[c] = Idle \/ Demo!Queue!InPop(c))
MainCanStep ==
  \/ pc[Main] = "join producers" /\ Demo!Joined(Producers)
  \/ pc[Main] = "join consumers" /\ Demo!Joined(Consumers)
  \/ pc[Main] \in {"PASS", "FAIL"}
DemoGoesOn ==
  \/ \E p \in Producers : ProducerCanStep(p)
  \/ \E c \in Consumers : ConsumerCanStep(c)
  \/ MainCanStep

\* main joins the consumers only once it has shut the queue down.
MainInOrder ==
  /\ pc[Main] \in {"join producers", "join consumers", "PASS", "FAIL"}
  /\ pc[Main] = "join consumers" => done_ = TRUE

\* A producer with an item left has not yet pushed it, so that fewer items
\* than there are were accepted: the bound on pushes never stops it.
LEMMA BoundIsNotReached ==
  ASSUME DemoInvariant, NEW p \in Producers, pc[p] = "loop", i[p] # ItemsPerProducer
  PROVE  Len(accepted) < Demo!TOTAL_ITEMS
<1>1. /\ i \in [Producers -> 0 .. ItemsPerProducer] /\ ItemsPerProducer \in Nat
      /\ accepted \in Seq(Demo!Items)
  BY CallTypes, DemoConstants DEF DemoInvariant, ThreadsInOrder
<1>2. <<p, i[p]>> \in Demo!Items \ Produced
  BY <1>1 DEF Demo!Items, Produced
<1>3. IsFiniteSet(Demo!Items) /\ Cardinality(Demo!Items) = Demo!TOTAL_ITEMS
  BY DemoConstants
<1>4. Produced \subseteq Demo!Items
  BY DEF Produced
<1>5. IsFiniteSet(Produced) /\ Cardinality(Produced) < Cardinality(Demo!Items)
  <2>1. Produced # Demo!Items
    BY <1>2
  <2>2. /\ IsFiniteSet(Produced) /\ Cardinality(Produced) \in Nat /\ Cardinality(Demo!Items) \in Nat
        /\ Cardinality(Produced) <= Cardinality(Demo!Items)
        /\ Cardinality(Produced) = Cardinality(Demo!Items) => Produced = Demo!Items
    BY <1>3, <1>4, FS_Subset, FS_CardinalityType
  <2> QED BY <2>1, <2>2
<1>6. Cardinality(Produced) = Len(accepted)
  <2>1. Len(accepted) \in Nat /\ accepted \in [1 .. Len(accepted) -> Demo!Items]
    BY <1>1, LenProperties
  <2>2. /\ \A m, n \in 1 .. Len(accepted) : accepted[m] = accepted[n] => m = n
        /\ \A n \in 1 .. Len(accepted) : accepted[n] \in Produced
        /\ \A x \in Produced : \E n \in 1 .. Len(accepted) : accepted[n] = x
    BY DEF DemoInvariant, AcceptedOnce
  <2>3. accepted \in Bijection(1 .. Len(accepted), Produced)
    BY <2>1, <2>2 DEF Bijection, Injection, Surjection, IsInjective
  <2> QED BY <1>5, <2>1, <2>3, FS_CountingElements DEF ExistsBijection
<1> QED BY <1>3, <1>5, <1>6

LEMMA SomeoneCanStep ==
  ASSUME DemoInvariant, MainInOrder,
         QueueFacts!NoMissedWakeup, QueueFacts!NobodySleepsAfterShutdown
  PROVE  DemoGoesOn
<1> SUFFICES ASSUME ~DemoGoesOn PROVE FALSE
  OBVIOUS
<1> USE DEF Idle
<1>1. /\ call \in [Demo!AllThreads -> QueueFacts!Calls]
      /\ \A p \in Producers : ProducerInOrder(p)
      /\ \A c \in Consumers : ConsumerStays(c)
      /\ done_ \in BOOLEAN
      /\ not_full_ \subseteq {t \in Demo!AllThreads : call[t].op = "push"}
      /\ not_empty_ \subseteq {t \in Demo!AllThreads : call[t].op = "pop"}
      /\ queue_ \in Seq(Demo!Items) /\ Len(queue_) \in Nat
  BY CallTypes, LenProperties DEF DemoInvariant, ThreadsInOrder, QueueFacts!TypeOK
<1>2. \A t : t \in Demo!Queue!Asleep <=> t \in not_full_ \cup not_empty_
  BY DEF Demo!Queue!Asleep
\* Every thread has left or sleeps on the condition variable of its call.
<1>3. \A p \in Producers : pc[p] = "exited" \/ p \in not_full_
  <2> SUFFICES ASSUME NEW p \in Producers, pc[p] # "exited" PROVE p \in not_full_
    OBVIOUS
  <2>1. pc[p] # "loop"
    BY BoundIsNotReached DEF DemoGoesOn, ProducerCanStep
  <2>2. call[p] # Idle /\ call[p].op = "push" /\ p \in Demo!Queue!Asleep
    BY <1>1, <2>1 DEF ProducerInOrder, DemoGoesOn, ProducerCanStep, Demo!Queue!InPush
  <2> QED BY <1>1, <1>2, <2>2
<1>4. \A c \in Consumers : pc[c] = "exited" \/ c \in not_empty_
  <2> SUFFICES ASSUME NEW c \in Consumers, pc[c] # "exited" PROVE c \in not_empty_
    OBVIOUS
  <2>1. call[c].op = "pop" /\ c \in Demo!Queue!Asleep
    BY <1>1 DEF ConsumerStays, DemoGoesOn, ConsumerCanStep, Demo!Queue!InPop
  <2> QED BY <1>1, <1>2, <2>1
<1>5. done_ = TRUE => not_full_ = {} /\ not_empty_ = {}
  BY DEF QueueFacts!NobodySleepsAfterShutdown, QueueFacts!Asleep
<1>6. CASE pc[Main] = "join producers"
  <2>1. PICK p \in Producers : p \in not_full_
    BY <1>3, <1>6 DEF DemoGoesOn, MainCanStep, Demo!Joined
  <2>2. PICK c \in Consumers : c \in not_empty_
    <3>1. done_ # TRUE
      BY <1>5, <2>1
    <3> QED BY <1>1, <1>4, <3>1, DemoAssumptions DEF ConsumerStays, Demo!DemoAssumption
  \* Nobody is awake inside push or pop.
  <2>3. /\ {t \in Demo!AllThreads : QueueFacts!InPush(t)} = {}
        /\ {t \in Demo!AllThreads : QueueFacts!InPop(t)} = {}
    <3>1. ASSUME NEW t \in Demo!AllThreads PROVE ~QueueFacts!InPush(t) /\ ~QueueFacts!InPop(t)
      <4>1. CASE t = Main
        BY <4>1 DEF DemoInvariant, ThreadsInOrder, Demo!Queue!Idle, QueueFacts!InPush, QueueFacts!InPop
      <4>2. CASE t \in Producers \cup Consumers
        <5>1. pc[t] = "exited" => call[t] = Demo!Queue!Idle
          BY <1>1, <4>2 DEF ProducerInOrder, ConsumerStays
        <5>2. Demo!Queue!Idle.op = "none"
          BY DEF Demo!Queue!Idle
        <5>3. t \in not_full_ \cup not_empty_ \/ pc[t] = "exited"
          BY <1>3, <1>4, <4>2
        <5> QED BY <5>1, <5>2, <5>3 DEF QueueFacts!InPush, QueueFacts!InPop, QueueFacts!Asleep
      <4> QED BY <4>1, <4>2 DEF Demo!AllThreads
    <3> QED BY <3>1
  <2>4. QueueFacts!Cardinality({}) = 0
    <3>1. QueueFacts!Cardinality({}) = Cardinality({})
      BY DEF QueueFacts!Cardinality, Cardinality
    <3> QED BY <3>1, FS_EmptySet
  <2>5. Len(queue_) <= 0 /\ QueueCapacity - Len(queue_) <= 0
    BY <2>1, <2>2, <2>3, <2>4 DEF QueueFacts!NoMissedWakeup
  <2> QED BY <1>1, <2>5, DemoConstants DEF QueueFacts!QueueAssumption
<1>7. CASE pc[Main] = "join consumers"
  BY <1>4, <1>5, <1>7 DEF MainInOrder, DemoGoesOn, MainCanStep, Demo!Joined
<1> QED BY <1>6, <1>7 DEF MainInOrder, DemoGoesOn, MainCanStep

\* "no hangs" (Thread_Safe_Queue/main.cpp:117), as far as safety goes: until
\* main has returned, some thread of the demo has a step to take; never are
\* all of them asleep or waiting for each other.
THEOREM QueueDemoGoesOn == FairSpec /\ program # "queue" => []DemoGoesOn
<1> DEFINE Runs == program # "queue" /\ MainInOrder
<1>1. FairSpec /\ program # "queue" => []Runs
  <2>1. Init /\ program # "queue" => Runs
    <3>1. Demo!Init => pc[Main] = "join producers"
      BY DemoConstants DEF Demo!Init
    <3> QED BY <3>1 DEF Init, MainInOrder
  <2>2. Runs /\ QueueDemoInvariant /\ [Next]_vars => Runs'
    <3> SUFFICES ASSUME Runs, DemoInvariant, Demo!Next \/ UNCHANGED <<queueVars, demoVars>>
                 PROVE  MainInOrder'
      BY DemoSteps DEF QueueDemoInvariant
    <3>1. /\ pc \in [Demo!AllThreads -> DemoLabels] /\ Main \in Demo!AllThreads
          /\ Main \notin Producers /\ Main \notin Consumers /\ done_ \in BOOLEAN
      BY DemoConstants DEF DemoInvariant, ThreadsInOrder, QueueFacts!TypeOK
    <3>2. CASE Demo!MainShutsDown
      BY <3>1, <3>2 DEF Demo!MainShutsDown, Demo!Goto, Demo!Queue!Shutdown, MainInOrder
    <3>3. CASE Demo!MainChecks
      <4>1. \E label \in {"PASS", "FAIL"} : pc' = [pc EXCEPT ![Main] = label]
        BY <3>3 DEF Demo!MainChecks, Demo!Goto
      <4> QED BY <3>1, <4>1 DEF MainInOrder
    <3>4. CASE ~(Demo!MainShutsDown \/ Demo!MainChecks)
      <4>1. done_' = done_
        BY <3>4
           DEF Demo!Next, Demo!ProducerStep, Demo!ConsumerStep, Demo!MainStep,
               Demo!ProducerPushes, Demo!ProducerCounts, Demo!ProducerExits, Demo!ConsumerPops,
               Demo!ConsumerCounts, Demo!ConsumerExits, Demo!InQueue, Demo!WakesSpuriously,
               Demo!Finished, Demo!vars, Demo!queueVars, queueVars, Demo!Queue!CallPush,
               Demo!Queue!CallPop, Demo!Queue!SpuriousWakeup, Demo!Queue!Proceed,
               Demo!Queue!PushSleep, Demo!Queue!PushRefused, Demo!Queue!PushAccepted,
               Demo!Queue!PopSleep, Demo!Queue!PopEmpty, Demo!Queue!PopItem,
               Demo!Queue!PushBack, Demo!Queue!PopFront, Demo!Queue!ReturnWith
      <4>2. \/ UNCHANGED pc
            \/ \E t \in Producers \cup Consumers, label \in DemoLabels : pc' = [pc EXCEPT ![t] = label]
        BY <3>4
           DEF Demo!Next, Demo!ProducerStep, Demo!ConsumerStep, Demo!MainStep,
               Demo!ProducerPushes, Demo!ProducerCounts, Demo!ProducerExits, Demo!ConsumerPops,
               Demo!ConsumerCounts, Demo!ConsumerExits, Demo!InQueue, Demo!WakesSpuriously,
               Demo!Finished, Demo!vars, demoVars, Demo!Goto, DemoLabels
      <4>3. pc'[Main] = pc[Main]
        BY <3>1, <4>2
      <4> QED BY <4>1, <4>3 DEF MainInOrder
    <3> QED BY <3>2, <3>3, <3>4
  <2> QED BY <2>1, <2>2, QueueDemoInvariantHolds, PTL DEF FairSpec
<1>2. QueueFacts!Spec => []QueueFacts!NobodySleepsAfterShutdown
  BY QueueFacts!NobodySleepsOnceShutDown, DemoConstants DEF QueueFacts!QueueAssumption
<1>3. Runs /\ QueueDemoInvariant /\ QueueFacts!NoMissedWakeup
           /\ QueueFacts!NobodySleepsAfterShutdown => DemoGoesOn
  BY SomeoneCanStep DEF QueueDemoInvariant
<1> QED BY <1>1, <1>2, <1>3, QueueDemoInvariantHolds, QueueDemoUsesQueue, QueueDemoHasAChannel, PTL

\* What the demo of the queue has counted: the items whose push has returned to
\* a producer that went on, and the items handed to a consumer that has yet to
\* count its own.
Counted == {x \in Demo!Items : x[2] < i[x[1]]}
Uncounted == {c \in Consumers : pc[c] = "calling" /\ call[c] = Idle /\ ret[c].ok = TRUE}
TotalsAreRight ==
  /\ total_produced = Cardinality(Counted)
  /\ total_consumed + Cardinality(Uncounted) = Len(delivered)
  /\ total_consumed \in Nat

LEMMA TotalsAreFinite ==
  ASSUME DemoInvariant
  PROVE  /\ IsFiniteSet(Counted) /\ IsFiniteSet(Uncounted) /\ IsFiniteSet(Consumers)
         /\ Cardinality(Counted) \in Nat /\ Cardinality(Uncounted) \in Nat
         /\ Len(delivered) \in Nat /\ delivered \in Seq(Demo!Items)
<1>1. IsFiniteSet(Demo!Items)
  BY DemoConstants
<1>2. IsFiniteSet(Consumers)
  BY DemoAssumptions, SameCounting DEF Demo!DemoAssumption
<1>3. IsFiniteSet(Counted) /\ IsFiniteSet(Uncounted)
  BY <1>1, <1>2, FS_Subset DEF Counted, Uncounted
<1>4. delivered \in Seq(Demo!Items) /\ Len(delivered) \in Nat
  BY CallTypes, LenProperties DEF DemoInvariant
<1> QED BY <1>2, <1>3, <1>4, FS_CardinalityType

\* A step that finishes no pop and is no consumer's counts nothing.
LEMMA TotalsStay ==
  ASSUME DemoInvariant, TotalsAreRight,
         UNCHANGED <<i, total_produced, total_consumed, delivered>>,
         \A c \in Consumers : c \in Uncounted' <=> c \in Uncounted
  PROVE  TotalsAreRight'
<1>1. Uncounted' = Uncounted
  BY DEF Uncounted
<1>2. Counted' = Counted
  BY DEF Counted
<1> QED BY <1>1, <1>2 DEF TotalsAreRight

LEMMA ProducerTotals ==
  ASSUME DemoInvariant, TotalsAreRight, NEW p \in Producers, Demo!ProducerStep(p)
  PROVE  TotalsAreRight'
<1>1. /\ call \in [Demo!AllThreads -> QueueFacts!Calls] /\ ret \in [Demo!AllThreads -> QueueFacts!Returns]
      /\ pc \in [Demo!AllThreads -> DemoLabels] /\ i \in [Producers -> 0 .. ItemsPerProducer]
      /\ p \in Demo!AllThreads /\ p \notin Consumers /\ Consumers \subseteq Demo!AllThreads
      /\ ProducerInOrder(p) /\ Idle.op = "none" /\ Idle = Demo!Queue!Idle
  BY CallTypes, DemoConstants DEF DemoInvariant, ThreadsInOrder, Idle
<1>2. ASSUME NEW label, pc' = [pc EXCEPT ![p] = label] \/ pc' = pc, NEW u,
             call' = [call EXCEPT ![p] = u] \/ call' = call, NEW r,
             ret' = [ret EXCEPT ![p] = r] \/ ret' = ret
      PROVE  \A c \in Consumers : c \in Uncounted' <=> c \in Uncounted
  <2>1. \A c \in Consumers : pc'[c] = pc[c] /\ call'[c] = call[c] /\ ret'[c] = ret[c]
    BY <1>1, <1>2
  <2> QED BY <2>1, <1>1 DEF Uncounted, Idle, Demo!Queue!Idle
<1>3. CASE Demo!ProducerPushes(p)
  <2>1. /\ pc' = [pc EXCEPT ![p] = "calling"]
        /\ call' = [call EXCEPT ![p] = Demo!Queue!PushCall(<<p, i[p]>>)]
        /\ UNCHANGED <<i, total_produced, total_consumed, delivered, ret>>
    BY <1>3 DEF Demo!ProducerPushes, Demo!Goto, Demo!Queue!CallPush
  <2> QED BY <2>1, <1>2, TotalsStay
<1>4. CASE Demo!ProducerExits(p)
  <2>1. /\ pc' = [pc EXCEPT ![p] = "exited"]
        /\ UNCHANGED <<i, total_produced, total_consumed, delivered, call, ret>>
    BY <1>4 DEF Demo!ProducerExits, Demo!Goto, Demo!queueVars
  <2> QED BY <2>1, <1>2, TotalsStay
<1>5. CASE Demo!ProducerCounts(p)
  <2>1. /\ pc[p] = "calling" /\ call[p] = Idle
        /\ pc' = [pc EXCEPT ![p] = "loop"] /\ i' = [i EXCEPT ![p] = i[p] + 1]
        /\ total_produced' = total_produced + 1
        /\ UNCHANGED <<total_consumed, delivered, call, ret>>
    BY <1>1, <1>5 DEF Demo!ProducerCounts, Demo!Returned, Demo!Goto, Demo!queueVars
  <2>2. Uncounted' = Uncounted
    <3>1. \A c \in Consumers : c \in Uncounted' <=> c \in Uncounted
      BY <2>1, <1>2
    <3> QED BY <3>1 DEF Uncounted
  <2> DEFINE v == <<p, i[p]>>
  <2>3. i[p] < ItemsPerProducer /\ i[p] \in Nat /\ v \in Demo!Items
    BY <1>1, <2>1, DemoConstants DEF ProducerInOrder, Demo!Items
  <2>4. Counted' = Counted \cup {v} /\ v \notin Counted
    <3>1. ASSUME NEW x \in Demo!Items PROVE x[2] < i'[x[1]] <=> x[2] < i[x[1]] \/ x = v
      <4>1. /\ x[1] \in Producers /\ x[2] \in Nat /\ x = <<x[1], x[2]>>
        BY DemoConstants DEF Demo!Items
      <4>2. CASE x[1] = p
        <5>1. i'[p] = i[p] + 1
          BY <1>1, <2>1
        <5>2. x = v <=> x[2] = i[p]
          BY <4>1, <4>2
        <5> QED BY <4>1, <4>2, <5>1, <5>2, <2>3
      <4>3. CASE x[1] # p
        <5>1. i'[x[1]] = i[x[1]]
          BY <1>1, <2>1, <4>1, <4>3
        <5>2. x # v
          BY <4>3
        <5> QED BY <5>1, <5>2
      <4> QED BY <4>2, <4>3
    <3>2. v \notin Counted
      BY <2>3 DEF Counted
    <3> HIDE DEF v
    <3>3. \A x : x \in Counted' <=> x \in Counted \/ x = v
      BY <3>1, <2>3 DEF Counted
    <3> QED BY <3>2, <3>3
  <2>5. Cardinality(Counted') = Cardinality(Counted) + 1
    BY <2>4, TotalsAreFinite, FS_AddElement
  <2> HIDE DEF v
  <2> QED BY <2>1, <2>2, <2>5 DEF TotalsAreRight
<1>6. CASE Demo!InQueue(p)
  <2>1. Demo!Queue!PushSleep(p) \/ Demo!Queue!PushRefused(p) \/ Demo!Queue!PushAccepted(p)
    BY <1>1, <1>6
       DEF ProducerInOrder, Demo!InQueue, Demo!Queue!Proceed, Demo!Queue!InPop,
           Demo!Queue!PopSleep, Demo!Queue!PopEmpty, Demo!Queue!PopItem
  <2>2. UNCHANGED <<pc, i, total_produced, total_consumed>>
    BY <1>6 DEF Demo!InQueue
  <2>3. /\ UNCHANGED delivered
        /\ \E u : call' = [call EXCEPT ![p] = u] \/ call' = call
        /\ \E r : ret' = [ret EXCEPT ![p] = r] \/ ret' = ret
    BY <2>1 DEF Demo!Queue!PushSleep, Demo!Queue!PushRefused, Demo!Queue!PushAccepted,
                Demo!Queue!ReturnWith, Demo!Queue!PushBack
  <2>4. PICK u, r : /\ call' = [call EXCEPT ![p] = u] \/ call' = call
                    /\ ret' = [ret EXCEPT ![p] = r] \/ ret' = ret
    BY <2>3
  <2> QED BY <1>2, <2>2, <2>3, <2>4, TotalsStay
<1> QED BY <1>3, <1>4, <1>5, <1>6 DEF Demo!ProducerStep

LEMMA ConsumerTotals ==
  ASSUME DemoInvariant, TotalsAreRight, NEW c \in Consumers, Demo!ConsumerStep(c)
  PROVE  TotalsAreRight'
<1>1. /\ call \in [Demo!AllThreads -> QueueFacts!Calls] /\ ret \in [Demo!AllThreads -> QueueFacts!Returns]
      /\ pc \in [Demo!AllThreads -> DemoLabels]
      /\ c \in Demo!AllThreads /\ Consumers \subseteq Demo!AllThreads
      /\ ConsumerStays(c) /\ Idle.op = "none" /\ Idle = Demo!Queue!Idle
      /\ queue_ \in Seq(Demo!Items)
  BY CallTypes, DemoConstants DEF DemoInvariant, ThreadsInOrder, Idle
<1>2. /\ IsFiniteSet(Uncounted) /\ Cardinality(Uncounted) \in Nat /\ Len(delivered) \in Nat
      /\ delivered \in Seq(Demo!Items)
  BY TotalsAreFinite
<1>3. ASSUME \A d \in Consumers \ {c} : pc'[d] = pc[d] /\ call'[d] = call[d] /\ ret'[d] = ret[d]
      PROVE  \A d \in Consumers \ {c} : d \in Uncounted' <=> d \in Uncounted
  BY <1>3 DEF Uncounted, Idle, Demo!Queue!Idle
<1>4. CASE Demo!ConsumerPops(c)
  <2>1. /\ pc[c] = "loop" /\ pc' = [pc EXCEPT ![c] = "calling"]
        /\ call' = [call EXCEPT ![c] = Demo!Queue!PopCall]
        /\ UNCHANGED <<i, total_produced, total_consumed, delivered, ret>>
    BY <1>4 DEF Demo!ConsumerPops, Demo!Goto, Demo!Queue!CallPop
  <2>2. Demo!Queue!PopCall # Demo!Queue!Idle
    BY DEF Demo!Queue!PopCall, Demo!Queue!Idle
  <2>3. /\ call'[c] = Demo!Queue!PopCall
        /\ \A d \in Consumers \ {c} : pc'[d] = pc[d] /\ call'[d] = call[d] /\ ret'[d] = ret[d]
    BY <1>1, <2>1
  <2>4. c \notin Uncounted /\ c \notin Uncounted'
    BY <2>1, <2>2, <2>3 DEF Uncounted, Idle
  <2> QED BY <1>3, <2>1, <2>3, <2>4, TotalsStay
<1>5. CASE Demo!ConsumerExits(c)
  <2>1. /\ ~ret[c].ok /\ pc' = [pc EXCEPT ![c] = "exited"]
        /\ UNCHANGED <<i, total_produced, total_consumed, delivered, call, ret>>
    BY <1>5 DEF Demo!ConsumerExits, Demo!Goto, Demo!queueVars
  <2>2. \A d \in Consumers \ {c} : pc'[d] = pc[d] /\ call'[d] = call[d] /\ ret'[d] = ret[d]
    BY <1>1, <2>1
  <2>3. c \notin Uncounted /\ c \notin Uncounted'
    BY <2>1 DEF Uncounted
  <2> QED BY <1>3, <2>1, <2>2, <2>3, TotalsStay
<1>6. CASE Demo!ConsumerCounts(c)
  <2>1. /\ pc[c] = "calling" /\ call[c] = Idle /\ ret[c].ok
        /\ pc' = [pc EXCEPT ![c] = "loop"] /\ total_consumed' = total_consumed + 1
        /\ UNCHANGED <<i, total_produced, delivered, call, ret>>
    BY <1>1, <1>6 DEF Demo!ConsumerCounts, Demo!Returned, Demo!Goto, Demo!queueVars
  <2>2. /\ pc'[c] = "loop"
        /\ \A d \in Consumers \ {c} : pc'[d] = pc[d] /\ call'[d] = call[d] /\ ret'[d] = ret[d]
    BY <1>1, <2>1
  <2>3. c \in Uncounted /\ c \notin Uncounted'
    BY <2>1, <2>2 DEF Uncounted
  <2>4. Uncounted' = Uncounted \ {c}
    <3>1. \A d \in Consumers \ {c} : d \in Uncounted' <=> d \in Uncounted
      BY <1>3, <2>2
    <3> QED BY <2>3, <3>1 DEF Uncounted
  <2>5. Cardinality(Uncounted') = Cardinality(Uncounted) - 1
    BY <1>2, <2>3, <2>4, FS_RemoveElement
  <2>6. Counted' = Counted
    BY <2>1 DEF Counted
  <2> QED BY <1>2, <2>1, <2>5, <2>6 DEF TotalsAreRight
<1>7. CASE Demo!InQueue(c)
  <2>1. UNCHANGED <<pc, i, total_produced, total_consumed>>
    BY <1>7 DEF Demo!InQueue
  <2>2. CASE Demo!Queue!PopSleep(c)
    <3>1. UNCHANGED <<call, ret, delivered>>
      BY <2>2 DEF Demo!Queue!PopSleep
    <3>2. Uncounted' = Uncounted
      BY <2>1, <3>1 DEF Uncounted, Idle, Demo!Queue!Idle
    <3> QED BY <2>1, <3>1, <3>2, TotalsStay
  <2>3. CASE Demo!Queue!PopEmpty(c)
    <3>1. /\ call[c].op = "pop" /\ call' = [call EXCEPT ![c] = Idle]
          /\ ret' = [ret EXCEPT ![c] = Demo!Queue!nullopt("pop")]
          /\ UNCHANGED delivered
      BY <1>1, <2>3 DEF Demo!Queue!PopEmpty, Demo!Queue!InPop, Demo!Queue!ReturnWith
    <3>2. /\ ret'[c] = Demo!Queue!nullopt("pop")
          /\ \A d \in Consumers \ {c} : pc'[d] = pc[d] /\ call'[d] = call[d] /\ ret'[d] = ret[d]
      BY <1>1, <2>1, <3>1
    <3>3. c \notin Uncounted
      BY <1>1, <3>1 DEF Uncounted
    <3>4. c \notin Uncounted'
      BY <3>2 DEF Uncounted, Demo!Queue!nullopt
    <3> QED BY <1>3, <2>1, <3>1, <3>2, <3>3, <3>4, TotalsStay
  <2>4. CASE Demo!Queue!PopItem(c)
    <3> DEFINE v == Head(queue_)
    <3>1. /\ call[c].op = "pop" /\ queue_ # <<>> /\ call' = [call EXCEPT ![c] = Idle]
          /\ ret' = [ret EXCEPT ![c] = Demo!Queue!Popped("pop", v)]
          /\ delivered' = Append(delivered, v)
      BY <1>1, <2>4 DEF Demo!Queue!PopItem, Demo!Queue!InPop, Demo!Queue!has_item, Demo!Queue!PopFront
    <3>2. v \in Demo!Items
      BY <1>1, <3>1, HeadTailProperties
    <3> HIDE DEF v
    <3>3. Len(delivered') = Len(delivered) + 1
      BY <1>2, <3>1, <3>2, AppendProperties
    <3>4. /\ ret'[c] = Demo!Queue!Popped("pop", v) /\ call'[c] = Idle
          /\ \A d \in Consumers \ {c} : pc'[d] = pc[d] /\ call'[d] = call[d] /\ ret'[d] = ret[d]
      BY <1>1, <2>1, <3>1
    <3>5. c \notin Uncounted /\ pc[c] = "calling"
      BY <1>1, <3>1 DEF Uncounted, ConsumerStays
    <3>6. Demo!Queue!Popped("pop", v).ok = TRUE
      BY DEF Demo!Queue!Popped
    <3>7. c \in Uncounted'
      BY <2>1, <3>4, <3>5, <3>6 DEF Uncounted, Idle, Demo!Queue!Idle
    <3>8. Uncounted' = Uncounted \cup {c}
      <4>1. \A d \in Consumers \ {c} : d \in Uncounted' <=> d \in Uncounted
        BY <1>3, <3>4
      <4> QED BY <3>7, <4>1 DEF Uncounted
    <3>9. Cardinality(Uncounted') = Cardinality(Uncounted) + 1
      BY <1>2, <3>5, <3>8, FS_AddElement
    <3>10. Counted' = Counted
      BY <2>1 DEF Counted
    <3> QED BY <1>2, <2>1, <3>3, <3>9, <3>10 DEF TotalsAreRight
  <2>5. ~Demo!Queue!InPush(c)
    BY <1>1 DEF ConsumerStays, Demo!Queue!InPush
  <2> QED BY <1>7, <2>2, <2>3, <2>4, <2>5
          DEF Demo!InQueue, Demo!Queue!Proceed, Demo!Queue!PushSleep, Demo!Queue!PushRefused,
              Demo!Queue!PushAccepted
<1> QED BY <1>4, <1>5, <1>6, <1>7 DEF Demo!ConsumerStep

LEMMA TotalsNext ==
  ASSUME DemoInvariant, TotalsAreRight, Demo!Next \/ UNCHANGED <<queueVars, demoVars>>
  PROVE  TotalsAreRight'
<1>1. ASSUME \/ Demo!MainShutsDown \/ Demo!MainChecks \/ Demo!Finished
             \/ \E t \in Demo!AllThreads : Demo!WakesSpuriously(t)
             \/ UNCHANGED <<queueVars, demoVars>>
      PROVE  TotalsAreRight'
  <2>1. /\ UNCHANGED <<i, total_produced, total_consumed, delivered, call, ret>>
        /\ UNCHANGED pc \/ \E label : pc' = [pc EXCEPT ![Main] = label]
    BY <1>1 DEF Demo!MainShutsDown, Demo!MainChecks, Demo!Finished, Demo!WakesSpuriously, Demo!Goto,
                Demo!Queue!Shutdown, Demo!Queue!SpuriousWakeup, Demo!vars, Demo!queueVars, queueVars, demoVars
  <2>2. \A c \in Consumers : pc'[c] = pc[c]
    BY <2>1, DemoConstants DEF DemoInvariant, ThreadsInOrder
  <2>3. \A c \in Consumers : c \in Uncounted' <=> c \in Uncounted
    BY <2>1, <2>2 DEF Uncounted, Idle, Demo!Queue!Idle
  <2> QED BY <2>1, <2>3, TotalsStay
<1> QED BY <1>1, ProducerTotals, ConsumerTotals DEF Demo!Next, Demo!MainStep

LEMMA TotalsInit == Demo!Init => TotalsAreRight
<1> SUFFICES ASSUME Demo!Init PROVE TotalsAreRight
  OBVIOUS
<1>1. /\ i = [p \in Producers |-> 0] /\ total_produced = 0 /\ total_consumed = 0
      /\ delivered = <<>>
  BY DEF Demo!Init, Demo!Queue!Init
<1>2. Counted = {}
  <2>1. \A x \in Demo!Items : ~(x[2] < i[x[1]])
    <3>1. \A x \in Demo!Items : x[1] \in Producers /\ x[2] \in Nat
      BY DemoConstants DEF Demo!Items
    <3> QED BY <1>1, <3>1
  <2> QED BY <2>1 DEF Counted
<1>3. Uncounted = {}
  BY DemoInit DEF Uncounted
<1>4. Len(<<>>) = 0 /\ Cardinality({}) = 0
  BY EmptySeq, FS_EmptySet
<1> QED BY <1>1, <1>2, <1>3, <1>4 DEF TotalsAreRight

\* Once every consumer has left, every item has been counted twice: by the
\* producer that pushed it and by the consumer that popped it.
LEMMA AllIsCounted ==
  ASSUME DemoInvariant, TotalsAreRight, \A c \in Consumers : pc[c] = "exited"
  PROVE  total_produced = Demo!TOTAL_ITEMS /\ total_consumed = Demo!TOTAL_ITEMS /\ queue_ = <<>>
<1>1. PICK c \in Consumers : pc[c] = "exited"
  BY DemoAssumptions DEF Demo!DemoAssumption
<1>2. Len(delivered) = Demo!TOTAL_ITEMS
  BY <1>1, GoneConsumersGotAll
<1>3. queue_ = <<>> /\ done_ = TRUE
  BY <1>1 DEF DemoInvariant, ThreadsInOrder, ConsumerStays
<1>4. Uncounted = {}
  BY DEF Uncounted
<1>5. total_consumed = Demo!TOTAL_ITEMS
  BY <1>2, <1>4, FS_EmptySet DEF TotalsAreRight
<1>6. Counted = Demo!Items
  <2>1. \A p \in Producers : i[p] = ItemsPerProducer
    BY <1>3 DEF DemoInvariant, ThreadsInOrder, ProducerInOrder
  <2>2. \A x \in Demo!Items : x[1] \in Producers /\ x[2] \in 0 .. ItemsPerProducer - 1
    BY DEF Demo!Items
  <2> QED BY <2>1, <2>2, DemoConstants DEF Counted
<1> QED BY <1>3, <1>5, <1>6, DemoConstants DEF TotalsAreRight

\* Thread_Safe_Queue/main.cpp:117: the demo of the queue never prints that its
\* check has failed, for any number of threads and items and any capacity.
THEOREM QueueDemoNeverFails == FairSpec => [](pc[Main] # "FAIL")
<1> DEFINE Good == /\ QueueDemoInvariant /\ pc[Main] # "FAIL"
                   /\ program # "queue" => TotalsAreRight
<1>1. Init => Good
  <2>1. ASSUME Demo!Init PROVE pc[Main] = "join producers"
    BY <2>1, DemoConstants DEF Demo!Init
  <2> QED BY <2>1, DemoInit, TotalsInit DEF Init, QueueDemoInvariant
<1>2. Good /\ [Next]_vars => Good'
  <2> SUFFICES ASSUME Good, [Next]_vars PROVE Good'
    OBVIOUS
  <2>1. CASE program = "queue"
    BY <2>1, DemoSteps DEF QueueDemoInvariant, demoVars
  <2>2. CASE program # "queue"
    <3>1. /\ DemoInvariant /\ TotalsAreRight /\ program' = program
          /\ Demo!Next \/ UNCHANGED <<queueVars, demoVars>>
      BY <2>2, DemoSteps DEF QueueDemoInvariant
    <3>2. DemoInvariant' /\ TotalsAreRight'
      BY <3>1, DemoNext, TotalsNext
    <3>3. pc \in [Demo!AllThreads -> DemoLabels] /\ Main \in Demo!AllThreads
          /\ Main \notin Producers /\ Main \notin Consumers
      BY <3>1, DemoConstants DEF DemoInvariant, ThreadsInOrder
    <3>4. pc'[Main] # "FAIL"
      <4>1. CASE Demo!MainChecks
        <5>1. total_produced = Demo!TOTAL_ITEMS /\ total_consumed = Demo!TOTAL_ITEMS /\ queue_ = <<>>
          BY <3>1, <4>1, AllIsCounted DEF Demo!MainChecks, Demo!Joined
        <5>2. pc' = [pc EXCEPT ![Main] = "PASS"]
          BY <4>1, <5>1 DEF Demo!MainChecks, Demo!Goto
        <5> QED BY <3>3, <5>2
      <4>2. CASE Demo!MainShutsDown
        BY <3>3, <4>2 DEF Demo!MainShutsDown, Demo!Goto
      <4>3. CASE \/ Demo!Finished \/ UNCHANGED <<queueVars, demoVars>>
                 \/ \E t \in Demo!AllThreads : Demo!WakesSpuriously(t)
        BY <4>3 DEF Demo!Finished, Demo!WakesSpuriously, Demo!vars, demoVars
      <4>4. ASSUME NEW t \in Producers \cup Consumers,
                   UNCHANGED pc \/ \E label : pc' = [pc EXCEPT ![t] = label]
            PROVE  pc'[Main] # "FAIL"
        BY <3>3, <4>4
      <4>5. ASSUME NEW p \in Producers, Demo!ProducerStep(p) PROVE pc'[Main] # "FAIL"
        <5>1. UNCHANGED pc \/ \E label : pc' = [pc EXCEPT ![p] = label]
          BY <4>5 DEF Demo!ProducerStep, Demo!ProducerPushes, Demo!ProducerCounts, Demo!ProducerExits,
                      Demo!InQueue, Demo!Goto
        <5> QED BY <4>4, <5>1
      <4>6. ASSUME NEW c \in Consumers, Demo!ConsumerStep(c) PROVE pc'[Main] # "FAIL"
        <5>1. UNCHANGED pc \/ \E label : pc' = [pc EXCEPT ![c] = label]
          BY <4>6 DEF Demo!ConsumerStep, Demo!ConsumerPops, Demo!ConsumerCounts, Demo!ConsumerExits,
                      Demo!InQueue, Demo!Goto
        <5> QED BY <4>4, <5>1
      <4> QED BY <3>1, <4>1, <4>2, <4>3, <4>5, <4>6 DEF Demo!Next, Demo!MainStep
    <3> QED BY <2>2, <3>1, <3>2, <3>4 DEF QueueDemoInvariant
  <2> QED BY <2>1, <2>2
<1> QED BY <1>1, <1>2, PTL DEF FairSpec

-----------------------------------------------------------------------------
(* Sums over finite sets, as the demo of LockFreeStack takes them.          *)

\* A set of numbers has a least element: from the order on Nat.
LEMMA Least ==
  ASSUME NEW T \in SUBSET Nat, T # {}
  PROVE  \E x \in T : \A y \in T : x <= y
<1> DEFINE R == OpToRel(<, Nat)
<1>1. IsWellFoundedOn(R, Nat)
  BY NatLessThanWellFounded
<1>2. PICK x \in T : \A y \in T : <<y, x>> \notin R
  <2> HIDE DEF R
  <2> QED BY <1>1, WFMin
<1>3. \A y \in T : ~(y < x)
  BY <1>2 DEF OpToRel
<1> QED BY <1>3

\* The sum of f over a set s of T, if g knows it for the smaller sets: what the
\* library takes an element of s by, and one step of its recursion.
Some(s) == CHOOSE x \in s : TRUE
SumStep(f, g, s) == IF s = {} THEN 0 ELSE f[Some(s)] + g[s \ {Some(s)}]
PartialSums(f, S) == CHOOSE g : g = [s \in SUBSET S |-> SumStep(f, g, s)]

LEMMA SumIs ==
  ASSUME NEW f, NEW S
  PROVE  StackRun!SumFunctionOnSet(f, S) = PartialSums(f, S)[S]
BY DEF StackRun!SumFunctionOnSet, StackRun!FoldFunctionOnSet, StackRun!MapThenFoldSet,
       PartialSums, SumStep, Some

LEMMA SomeIn ==
  ASSUME NEW s, s # {} PROVE Some(s) \in s
BY DEF Some

\* A non-empty finite set without one element is smaller by one.
LEMMA SmallerByOne ==
  ASSUME NEW S, IsFiniteSet(S), NEW s \in SUBSET S, NEW x \in s
  PROVE  /\ Cardinality(s) \in Nat /\ Cardinality(s \ {x}) \in Nat
         /\ Cardinality(s \ {x}) = Cardinality(s) - 1
<1>1. IsFiniteSet(s)
  BY FS_Subset
<1>2. IsFiniteSet(s \ {x}) /\ Cardinality(s \ {x}) = Cardinality(s) - 1
  BY <1>1, FS_RemoveElement
<1> QED BY <1>1, <1>2, FS_CardinalityType

\* The recursion is well defined on a finite set.
LEMMA PartialSumsExist ==
  ASSUME NEW S, IsFiniteSet(S), NEW f, \A x \in S : f[x] \in Int
  PROVE  /\ PartialSums(f, S) \in [SUBSET S -> Int]
         /\ \A s \in SUBSET S : PartialSums(f, S)[s] = SumStep(f, PartialSums(f, S), s)
<1> DEFINE Small(n) == {s \in SUBSET S : Cardinality(s) <= n}
           Sums(g, n) == \A s \in Small(n) : g[s] = SumStep(f, g, s)
           Bad == {n \in Nat : ~ \E g \in [Small(n) -> Int] : Sums(g, n)}
<1>1. \A s \in SUBSET S : IsFiniteSet(s) /\ Cardinality(s) \in Nat /\ Cardinality(s) <= Cardinality(S)
  BY FS_Subset, FS_CardinalityType
<1>2. 0 \notin Bad
  <2> DEFINE g == [s \in Small(0) |-> 0]
  <2>1. ASSUME NEW s \in Small(0) PROVE s = {}
    <3>1. Cardinality(s) = 0 /\ IsFiniteSet(s)
      BY <1>1
    <3> QED BY <3>1, FS_EmptySet
  <2>2. ASSUME NEW s \in Small(0) PROVE g[s] = SumStep(f, g, s)
    BY <2>1 DEF SumStep
  <2>3. g \in [Small(0) -> Int] /\ Sums(g, 0)
    BY <2>2
  <2> QED BY <2>3
<1>3. ASSUME NEW n \in Nat, n \notin Bad PROVE n + 1 \notin Bad
  <2>1. PICK g \in [Small(n) -> Int] : Sums(g, n)
    BY <1>3
  <2> DEFINE h == [s \in Small(n + 1) |-> SumStep(f, g, s)]
  <2> HIDE DEF h
  <2>2. ASSUME NEW s \in Small(n + 1), s # {}
        PROVE  /\ s \ {Some(s)} \in Small(n) /\ s \ {Some(s)} \in Small(n + 1) /\ Some(s) \in S
    <3>1. Some(s) \in s /\ s \in SUBSET S
      BY <2>2, SomeIn
    <3>2. /\ Cardinality(s) \in Nat /\ Cardinality(s \ {Some(s)}) \in Nat
          /\ Cardinality(s \ {Some(s)}) = Cardinality(s) - 1
      BY <3>1, SmallerByOne
    <3> QED BY <3>1, <3>2
  <2>3. ASSUME NEW s \in Small(n + 1) PROVE SumStep(f, g, s) \in Int
    <3>1. CASE s = {}
      BY <3>1 DEF SumStep
    <3>2. CASE s # {}
      <4>1. g[s \ {Some(s)}] \in Int /\ f[Some(s)] \in Int
        BY <3>2, <2>1, <2>2
      <4> QED BY <3>2, <4>1 DEF SumStep
    <3> QED BY <3>1, <3>2
  <2>4. h \in [Small(n + 1) -> Int] /\ \A s \in Small(n + 1) : h[s] = SumStep(f, g, s)
    BY <2>3 DEF h
  <2>5. \A s \in Small(n) : s \in Small(n + 1)
    BY <1>1
  <2>6. \A s \in Small(n) : h[s] = g[s]
    BY <2>1, <2>4, <2>5
  <2>7. ASSUME NEW s \in Small(n + 1) PROVE h[s] = SumStep(f, h, s)
    <3>1. CASE s = {}
      BY <3>1, <2>4 DEF SumStep
    <3>2. CASE s # {}
      <4>1. h[s \ {Some(s)}] = g[s \ {Some(s)}]
        BY <3>2, <2>2, <2>6
      <4> QED BY <3>2, <4>1, <2>4 DEF SumStep
    <3> QED BY <3>1, <3>2
  <2>8. Sums(h, n + 1)
    BY <2>7
  <2> QED BY <2>4, <2>8
<1>4. Bad = {}
  <2> SUFFICES ASSUME Bad # {} PROVE FALSE
    OBVIOUS
  <2> HIDE DEF Bad
  <2>1. Bad \in SUBSET Nat
    BY DEF Bad
  <2>2. PICK m \in Bad : \A k \in Bad : m <= k
    BY <2>1, Least
  <2>3. m \in Nat /\ m # 0
    BY <2>1, <1>2
  <2>4. m - 1 \in Nat /\ (m - 1) + 1 = m /\ m - 1 \notin Bad
    BY <2>1, <2>2, <2>3
  <2> QED BY <2>4, <1>3
<1> DEFINE N == Cardinality(S)
<1>5. N \in Nat /\ Small(N) = SUBSET S
  BY <1>1, FS_CardinalityType
<1>6. PICK g \in [Small(N) -> Int] : Sums(g, N)
  BY <1>4, <1>5
<1>7. g = [s \in SUBSET S |-> SumStep(f, g, s)] /\ g \in [SUBSET S -> Int]
  <2>1. g \in [SUBSET S -> Int] /\ \A s \in SUBSET S : g[s] = SumStep(f, g, s)
    BY <1>5, <1>6
  <2> QED BY <2>1
<1> DEFINE p == PartialSums(f, S)
<1>8. p = [s \in SUBSET S |-> SumStep(f, p, s)]
  BY <1>7 DEF PartialSums
<1> HIDE DEF p
<1>9. \A s \in SUBSET S : p[s] = SumStep(f, p, s)
  BY <1>8
<1>10. p \in [SUBSET S -> Int]
  <2> SUFFICES \A s \in SUBSET S : p[s] = g[s]
    BY <1>7, <1>8
  <2> DEFINE Differ == {Cardinality(s) : s \in {s \in SUBSET S : p[s] # g[s]}}
  <2> SUFFICES ASSUME NEW s0 \in SUBSET S, p[s0] # g[s0] PROVE FALSE
    OBVIOUS
  <2>1. Differ \in SUBSET Nat /\ Differ # {}
    BY <1>1
  <2> HIDE DEF Differ
  <2>2. PICK m \in Differ : \A k \in Differ : m <= k
    BY <2>1, Least
  <2>3. PICK s \in SUBSET S : p[s] # g[s] /\ Cardinality(s) = m
    BY <2>2 DEF Differ
  <2>4. \A s1 \in SUBSET S : p[s1] # g[s1] => m <= Cardinality(s1)
    BY <2>2 DEF Differ
  <2>5. g[s] = SumStep(f, g, s) /\ p[s] = SumStep(f, p, s)
    BY <1>7, <1>9
  <2>6. s # {}
    BY <2>3, <2>5 DEF SumStep
  <2>7. Some(s) \in s /\ s \ {Some(s)} \in SUBSET S
    BY <2>6, SomeIn
  <2>8. Cardinality(s) \in Nat /\ Cardinality(s \ {Some(s)}) = Cardinality(s) - 1
    BY <2>7, SmallerByOne
  <2>9. p[s \ {Some(s)}] = g[s \ {Some(s)}]
    BY <2>3, <2>4, <2>7, <2>8
  <2> QED BY <2>3, <2>5, <2>6, <2>9 DEF SumStep
<1> QED BY <1>9, <1>10 DEF p

\* Neither the set the recursion is defined on matters, nor what f is elsewhere.
LEMMA PartialSumsAgree ==
  ASSUME NEW S, IsFiniteSet(S), NEW T \in SUBSET S,
         NEW f, NEW g, \A x \in S : g[x] \in Int, \A x \in T : f[x] = g[x]
  PROVE  \A s \in SUBSET T : PartialSums(f, T)[s] = PartialSums(g, S)[s]
<1> DEFINE p == PartialSums(f, T)  q == PartialSums(g, S)
           Differ == {Cardinality(s) : s \in {s \in SUBSET T : p[s] # q[s]}}
<1>1. IsFiniteSet(T) /\ \A x \in T : f[x] \in Int
  BY FS_Subset
<1>2. \A s \in SUBSET T : p[s] = SumStep(f, p, s)
  BY <1>1, PartialSumsExist
<1>3. \A s \in SUBSET T : q[s] = SumStep(g, q, s)
  BY PartialSumsExist
<1> HIDE DEF p, q
<1> SUFFICES ASSUME NEW s0 \in SUBSET T, p[s0] # q[s0] PROVE FALSE
  BY DEF p, q
<1>4. \A s \in SUBSET T : Cardinality(s) \in Nat
  BY <1>1, FS_Subset, FS_CardinalityType
<1>5. Differ \in SUBSET Nat /\ Differ # {}
  BY <1>4
<1> HIDE DEF Differ
<1>6. PICK m \in Differ : \A k \in Differ : m <= k
  BY <1>5, Least
<1>7. PICK s \in SUBSET T : p[s] # q[s] /\ Cardinality(s) = m
  BY <1>6 DEF Differ
<1>8. \A s1 \in SUBSET T : p[s1] # q[s1] => m <= Cardinality(s1)
  BY <1>6 DEF Differ
<1>9. p[s] = SumStep(f, p, s) /\ q[s] = SumStep(g, q, s)
  BY <1>2, <1>3
<1>10. s # {}
  BY <1>7, <1>9 DEF SumStep
<1>11. Some(s) \in s /\ s \ {Some(s)} \in SUBSET T /\ Some(s) \in T
  BY <1>10, SomeIn
<1>12. Cardinality(s) \in Nat /\ Cardinality(s \ {Some(s)}) = Cardinality(s) - 1
  BY <1>1, <1>11, SmallerByOne
<1>13. p[s \ {Some(s)}] = q[s \ {Some(s)}]
  BY <1>7, <1>8, <1>11, <1>12
<1> QED BY <1>7, <1>9, <1>10, <1>11, <1>13 DEF SumStep

\* Any element may be taken first.
LEMMA AnyElementFirst ==
  ASSUME NEW S, IsFiniteSet(S), NEW f, \A x \in S : f[x] \in Int
  PROVE  \A s \in SUBSET S : \A x \in s :
           PartialSums(f, S)[s] = f[x] + PartialSums(f, S)[s \ {x}]
<1> DEFINE p == PartialSums(f, S)
           Wrong(s) == \E x \in s : p[s] # f[x] + p[s \ {x}]
           Sizes == {Cardinality(s) : s \in {s \in SUBSET S : Wrong(s)}}
<1>1. p \in [SUBSET S -> Int] /\ \A s \in SUBSET S : p[s] = SumStep(f, p, s)
  BY PartialSumsExist
<1> HIDE DEF p
<1> SUFFICES ASSUME NEW s0 \in SUBSET S, Wrong(s0) PROVE FALSE
  BY DEF p
<1>2. \A s \in SUBSET S : Cardinality(s) \in Nat
  BY FS_Subset, FS_CardinalityType
<1>3. Sizes \in SUBSET Nat /\ Sizes # {}
  BY <1>2
<1> HIDE DEF Sizes
<1>4. PICK m \in Sizes : \A k \in Sizes : m <= k
  BY <1>3, Least
<1>5. PICK s \in SUBSET S : Wrong(s) /\ Cardinality(s) = m
  BY <1>4 DEF Sizes
<1>6. \A s1 \in SUBSET S : Wrong(s1) => m <= Cardinality(s1)
  BY <1>4 DEF Sizes
<1>7. PICK x \in s : p[s] # f[x] + p[s \ {x}]
  BY <1>5
<1> DEFINE y == Some(s)
<1>8. y \in s
  BY <1>7, SomeIn
<1>9. p[s] = f[y] + p[s \ {y}]
  BY <1>1, <1>7 DEF SumStep
<1> HIDE DEF y
<1>10. x # y /\ x \in S /\ y \in S
  BY <1>7, <1>8, <1>9
<1>11. s \ {x} \in SUBSET S /\ s \ {y} \in SUBSET S /\ (s \ {y}) \ {x} \in SUBSET S
       /\ (s \ {y}) \ {x} = (s \ {x}) \ {y} /\ x \in s \ {y} /\ y \in s \ {x}
  BY <1>8, <1>10
<1>12. ~Wrong(s \ {x}) /\ ~Wrong(s \ {y})
  <2>1. /\ Cardinality(s) \in Nat /\ Cardinality(s \ {x}) = Cardinality(s) - 1
        /\ Cardinality(s \ {y}) = Cardinality(s) - 1
    BY <1>8, SmallerByOne
  <2> HIDE DEF Wrong
  <2> QED BY <2>1, <1>5, <1>6, <1>11
<1>13. /\ p[s \ {y}] = f[x] + p[(s \ {y}) \ {x}]
       /\ p[s \ {x}] = f[y] + p[(s \ {y}) \ {x}]
  BY <1>11, <1>12
<1>14. p[(s \ {y}) \ {x}] \in Int /\ f[x] \in Int /\ f[y] \in Int
  BY <1>1, <1>10, <1>11
<1> QED BY <1>7, <1>9, <1>13, <1>14

\* What follows is all that is used of sums.
LEMMA SumOfNothing == \A f : StackRun!SumFunctionOnSet(f, {}) = 0
<1> TAKE f
<1>1. PartialSums(f, {})[{}] = SumStep(f, PartialSums(f, {}), {})
  BY FS_EmptySet, PartialSumsExist
<1> QED BY <1>1, SumIs DEF SumStep

LEMMA SumIsInt ==
  ASSUME NEW S, IsFiniteSet(S), NEW f, \A x \in S : f[x] \in Int
  PROVE  StackRun!SumFunctionOnSet(f, S) \in Int
<1>1. PartialSums(f, S) \in [SUBSET S -> Int]
  BY PartialSumsExist
<1> QED BY <1>1, SumIs

\* The sum depends on the values on the set only.
LEMMA SumOfSame ==
  ASSUME NEW S, IsFiniteSet(S), NEW f, NEW g, \A x \in S : f[x] \in Int,
         \A x \in S : f[x] = g[x]
  PROVE  StackRun!SumFunctionOnSet(f, S) = StackRun!SumFunctionOnSet(g, S)
<1>1. \A x \in S : g[x] \in Int
  OBVIOUS
<1>2. PartialSums(f, S)[S] = PartialSums(g, S)[S]
  BY <1>1, PartialSumsAgree
<1> QED BY <1>2, SumIs

LEMMA SumWithout ==
  ASSUME NEW S, IsFiniteSet(S), NEW f, \A x \in S : f[x] \in Int, NEW x \in S
  PROVE  StackRun!SumFunctionOnSet(f, S) = f[x] + StackRun!SumFunctionOnSet(f, S \ {x})
<1>1. PartialSums(f, S)[S] = f[x] + PartialSums(f, S)[S \ {x}]
  BY AnyElementFirst
<1>2. PartialSums(f, S \ {x})[S \ {x}] = PartialSums(f, S)[S \ {x}]
  BY PartialSumsAgree
<1> QED BY <1>1, <1>2, SumIs

LEMMA SumWith ==
  ASSUME NEW S, IsFiniteSet(S), NEW x, x \notin S, NEW f, \A y \in S \cup {x} : f[y] \in Int
  PROVE  StackRun!SumFunctionOnSet(f, S \cup {x}) = f[x] + StackRun!SumFunctionOnSet(f, S)
<1>1. IsFiniteSet(S \cup {x}) /\ (S \cup {x}) \ {x} = S
  BY FS_AddElement
<1> QED BY <1>1, SumWithout

\* A set whose values change at one element only.
LEMMA SumChanges ==
  ASSUME NEW S, IsFiniteSet(S), NEW f, NEW g, \A y \in S : f[y] \in Int, NEW x \in S,
         g[x] \in Int, \A y \in S \ {x} : g[y] = f[y]
  PROVE  StackRun!SumFunctionOnSet(g, S) = StackRun!SumFunctionOnSet(f, S) - f[x] + g[x]
<1>1. IsFiniteSet(S \ {x})
  BY FS_Subset
<1>2. StackRun!SumFunctionOnSet(g, S) = g[x] + StackRun!SumFunctionOnSet(g, S \ {x})
  BY SumWithout
<1>3. StackRun!SumFunctionOnSet(f, S) = f[x] + StackRun!SumFunctionOnSet(f, S \ {x})
  BY SumWithout
<1>4. /\ StackRun!SumFunctionOnSet(f, S \ {x}) = StackRun!SumFunctionOnSet(g, S \ {x})
      /\ StackRun!SumFunctionOnSet(f, S \ {x}) \in Int
  BY <1>1, SumOfSame, SumIsInt
<1> QED BY <1>2, <1>3, <1>4

\* A sum of equal values is a product, and a sum of natural numbers is one.
LEMMA SumOfEqual ==
  ASSUME NEW S, IsFiniteSet(S), NEW v \in Nat, NEW f, \A x \in S : f[x] = v
  PROVE  StackRun!SumFunctionOnSet(f, S) = Cardinality(S) * v
<1> DEFINE Sizes == {Cardinality(s) : s \in {s \in SUBSET S :
                       StackRun!SumFunctionOnSet(f, s) # Cardinality(s) * v}}
<1> SUFFICES ASSUME StackRun!SumFunctionOnSet(f, S) # Cardinality(S) * v PROVE FALSE
  OBVIOUS
<1>1. \A s \in SUBSET S : IsFiniteSet(s) /\ Cardinality(s) \in Nat
  BY FS_Subset, FS_CardinalityType
<1>2. Sizes \in SUBSET Nat /\ Sizes # {}
  BY <1>1
<1> HIDE DEF Sizes
<1>3. PICK m \in Sizes : \A k \in Sizes : m <= k
  BY <1>2, Least
<1>4. PICK s \in SUBSET S : StackRun!SumFunctionOnSet(f, s) # Cardinality(s) * v /\ Cardinality(s) = m
  BY <1>3 DEF Sizes
<1>5. \A t \in SUBSET S : StackRun!SumFunctionOnSet(f, t) # Cardinality(t) * v => m <= Cardinality(t)
  BY <1>3 DEF Sizes
<1>6. s # {}
  BY <1>4, SumOfNothing, FS_EmptySet
<1>7. PICK x \in s : TRUE
  BY <1>6
<1> DEFINE t == s \ {x}  c == Cardinality(t)
<1>8. /\ Cardinality(s) \in Nat /\ c \in Nat /\ c = Cardinality(s) - 1
  BY SmallerByOne
<1>9. StackRun!SumFunctionOnSet(f, t) = c * v
  <2>1. t \in SUBSET S
    OBVIOUS
  <2> QED BY <2>1, <1>4, <1>5, <1>8
<1>10. StackRun!SumFunctionOnSet(f, s) = v + StackRun!SumFunctionOnSet(f, t)
  <2>1. f[x] = v /\ \A y \in s : f[y] \in Int
    OBVIOUS
  <2> QED BY <2>1, <1>1, SumWithout
<1> HIDE DEF t, c
<1>11. Cardinality(s) = c + 1 /\ c \in Nat
  BY <1>8
<1>12. v + c * v = (c + 1) * v
  BY <1>11
<1> QED BY <1>4, <1>9, <1>10, <1>11, <1>12

LEMMA SumIsNat ==
  ASSUME NEW S, IsFiniteSet(S), NEW f, \A x \in S : f[x] \in Nat
  PROVE  StackRun!SumFunctionOnSet(f, S) \in Nat
<1> DEFINE Sizes == {Cardinality(s) : s \in {s \in SUBSET S :
                       StackRun!SumFunctionOnSet(f, s) \notin Nat}}
<1> SUFFICES ASSUME StackRun!SumFunctionOnSet(f, S) \notin Nat PROVE FALSE
  OBVIOUS
<1>1. \A s \in SUBSET S : IsFiniteSet(s) /\ Cardinality(s) \in Nat
  BY FS_Subset, FS_CardinalityType
<1>2. Sizes \in SUBSET Nat /\ Sizes # {}
  BY <1>1
<1> HIDE DEF Sizes
<1>3. PICK m \in Sizes : \A k \in Sizes : m <= k
  BY <1>2, Least
<1>4. PICK s \in SUBSET S : StackRun!SumFunctionOnSet(f, s) \notin Nat /\ Cardinality(s) = m
  BY <1>3 DEF Sizes
<1>5. \A t \in SUBSET S : StackRun!SumFunctionOnSet(f, t) \notin Nat => m <= Cardinality(t)
  BY <1>3 DEF Sizes
<1>6. s # {}
  BY <1>4, SumOfNothing
<1>7. PICK x \in s : TRUE
  BY <1>6
<1> DEFINE t == s \ {x}  c == Cardinality(t)
<1>8. Cardinality(s) \in Nat /\ c \in Nat /\ c = Cardinality(s) - 1
  BY SmallerByOne
<1>9. StackRun!SumFunctionOnSet(f, t) \in Nat
  <2>1. t \in SUBSET S
    OBVIOUS
  <2> QED BY <2>1, <1>4, <1>5, <1>8
<1>10. StackRun!SumFunctionOnSet(f, s) = f[x] + StackRun!SumFunctionOnSet(f, t)
  <2>1. \A y \in s : f[y] \in Int
    OBVIOUS
  <2> QED BY <2>1, <1>1, SumWithout
<1>11. f[x] \in Nat
  OBVIOUS
<1> HIDE DEF t, c
<1> QED BY <1>4, <1>9, <1>10, <1>11

-----------------------------------------------------------------------------
(* The demo of LockFreeStack.                                                *)

StackFacts == INSTANCE LockFreeStack_proofs
              WITH Threads <- StackRun!Workers, Keys <- 1 .. StackRun!total_items,
                   nullptr <- NullNode, pc <- spc, ret <- sret, stack <- nodes

\* The steps of push, and those of pop.
PushLabels == {"push load", "push link", "push cas"}
PopLabels == {"pop check", "pop tag", "pop cas", "pop take"}

\* Who is inside which call, and how far the loops have come.
PushesInOrder ==
  /\ fpc[Producer] # "calling" => spc[Producer] = "idle"
  /\ spc[Producer] \in {"idle"} \cup PushLabels
  /\ si[Producer] <= StackRun!total_items
  /\ fpc[Producer] = "calling" => si[Producer] > 0
  /\ fpc[Producer] = "exited" => si[Producer] = StackRun!total_items
PopsInOrder(c) ==
  /\ fpc[c] # "calling" => spc[c] = "idle"
  /\ spc[c] \in {"idle"} \cup PopLabels
  /\ si[c] <= ITEMS_PER_CONSUMER
  /\ fpc[c] = "calling" => si[c] < ITEMS_PER_CONSUMER
  /\ fpc[c] = "exited" => si[c] = ITEMS_PER_CONSUMER
WorkersInOrder ==
  /\ fpc \in [StackRun!Workers -> {"loop", "calling", "exited"}]
  /\ si \in [StackRun!Workers -> Nat]
  /\ PushesInOrder /\ \A c \in Consumers : PopsInOrder(c)
  /\ verdict # "none" => \A t \in StackRun!Workers : fpc[t] = "exited"

SumsAreInts ==
  /\ local_sum \in [StackRun!Workers -> Int]
  /\ producer_sum \in Int /\ consumer_sum \in Int

\* Every key handed to push is on a node or was popped.
Popped(c) ==
  si[c] + (IF fpc[c] = "calling" /\ spc[c] = "idle" /\ sret[c] # 0 THEN 1 ELSE 0)
AllPopped == [c \in Consumers |-> Popped(c)]
NodesAreCounted ==
  /\ IsFiniteSet(allocated)
  /\ Cardinality(allocated) + StackRun!SumFunctionOnSet(AllPopped, Consumers) = si[Producer]

\* The producer's subtotal is that of the keys whose push has returned.
ProducerSumsUp ==
  /\ local_sum[Producer] =
       StackRun!SumOfKeys(1 .. IF fpc[Producer] = "calling" THEN si[Producer] - 1 ELSE si[Producer])
  /\ fpc[Producer] = "exited" => producer_sum = StackRun!SumOfKeys(1 .. StackRun!total_items)

LEMMA StackDemoConstants ==
  /\ IsFiniteSet(Consumers) /\ Consumers # {} /\ Producer \notin Consumers
  /\ ITEMS_PER_CONSUMER \in Nat \ {0}
  /\ StackRun!total_items \in Nat
  /\ StackRun!total_items = Cardinality(Consumers) * ITEMS_PER_CONSUMER
  /\ StackRun!total_items > 0
  /\ Consumers \subseteq StackRun!Workers /\ Producer \in StackRun!Workers
  /\ \A t \in StackRun!Workers : t = Producer \/ t \in Consumers
  /\ StackFacts!StackAssumption
<1>1. \A S : StackRun!IsFiniteSet(S) = IsFiniteSet(S)
  BY DEF StackRun!IsFiniteSet, IsFiniteSet
<1>2. \A S : StackRun!Cardinality(S) = Cardinality(S)
  BY DEF StackRun!Cardinality, Cardinality
<1>3. /\ IsFiniteSet(Consumers) /\ Consumers # {} /\ Producer \notin Consumers
      /\ ITEMS_PER_CONSUMER \in Nat \ {0}
      /\ NullNode \notin Nodes /\ MaxTag \in Nat /\ MaxSpurious \in Nat
  BY <1>1, DemoAssumptions DEF StackRun!StackDemoAssumption
<1>4. Cardinality(Consumers) \in Nat /\ Cardinality(Consumers) # 0
  BY <1>3, FS_CardinalityType, FS_EmptySet
<1>5. StackRun!total_items = Cardinality(Consumers) * ITEMS_PER_CONSUMER
  BY <1>2 DEF StackRun!total_items
<1>6. \A m, n \in Nat \ {0} : m * n \in Nat /\ m * n > 0
  OBVIOUS
<1>7. StackRun!total_items \in Nat /\ StackRun!total_items > 0
  BY <1>3, <1>4, <1>5, <1>6
<1>8. StackFacts!StackAssumption
  BY <1>3, <1>7 DEF StackFacts!StackAssumption
<1> QED BY <1>3, <1>5, <1>7, <1>8 DEF StackRun!Workers

\* The steps inside a call are those the stack's own proofs speak of.
LEMMA StackCalls ==
  ASSUME NEW t
  PROVE  /\ \A k : StackRun!Stack!PushAlloc(t, k) => StackFacts!PushAlloc(t, k)
         /\ StackRun!Stack!PopLoad(t) => StackFacts!PopLoad(t)
         /\ StackRun!Stack!Proceed(t) => StackFacts!Proceed(t)
<1>1. \A u, l : StackRun!Stack!Goto(u, l) => StackFacts!Goto(u, l)
  BY DEF StackRun!Stack!Goto, StackFacts!Goto
<1>2. \A u, n : StackRun!Stack!FetchTag(u, n) => StackFacts!FetchTag(u, n)
  BY DEF StackRun!Stack!FetchTag, StackFacts!FetchTag
<1>3. /\ StackRun!Stack!CAS(t) => StackFacts!CAS(t)
      /\ StackRun!Stack!CASFails(t) => StackFacts!CASFails(t)
  BY DEF StackRun!Stack!CAS, StackFacts!CAS, StackRun!Stack!CASFails, StackFacts!CASFails
<1>4. \A n : StackRun!Stack!NextOf(n) = StackFacts!NextOf(n)
  BY DEF StackRun!Stack!NextOf, StackFacts!NextOf, StackRun!Stack!Pointers, StackFacts!Pointers
<1>5. \A k : StackRun!Stack!PushAlloc(t, k) => StackFacts!PushAlloc(t, k)
  BY <1>1 DEF StackRun!Stack!PushAlloc, StackFacts!PushAlloc
<1>6. /\ StackRun!Stack!PushLoad(t) => StackFacts!PushLoad(t)
      /\ StackRun!Stack!PushLink(t) => StackFacts!PushLink(t)
      /\ StackRun!Stack!PushSucceeds(t) => StackFacts!PushSucceeds(t)
      /\ StackRun!Stack!PushRetries(t) => StackFacts!PushRetries(t)
  BY <1>1, <1>2, <1>3
     DEF StackRun!Stack!PushLoad, StackFacts!PushLoad, StackRun!Stack!PushLink, StackFacts!PushLink,
         StackRun!Stack!PushSucceeds, StackFacts!PushSucceeds,
         StackRun!Stack!PushRetries, StackFacts!PushRetries
<1>7. /\ StackRun!Stack!PopLoad(t) => StackFacts!PopLoad(t)
      /\ StackRun!Stack!PopEmpty(t) => StackFacts!PopEmpty(t)
      /\ StackRun!Stack!PopReadNext(t) => StackFacts!PopReadNext(t)
  BY <1>1, <1>4
     DEF StackRun!Stack!PopLoad, StackFacts!PopLoad, StackRun!Stack!PopEmpty, StackFacts!PopEmpty,
         StackRun!Stack!PopReadNext, StackFacts!PopReadNext
<1>8. /\ StackRun!Stack!PopTag(t) => StackFacts!PopTag(t)
      /\ StackRun!Stack!PopSucceeds(t) => StackFacts!PopSucceeds(t)
      /\ StackRun!Stack!PopRetries(t) => StackFacts!PopRetries(t)
      /\ StackRun!Stack!PopTake(t) => StackFacts!PopTake(t)
  BY <1>1, <1>2, <1>3
     DEF StackRun!Stack!PopTag, StackFacts!PopTag, StackRun!Stack!PopSucceeds, StackFacts!PopSucceeds,
         StackRun!Stack!PopRetries, StackFacts!PopRetries, StackRun!Stack!PopTake, StackFacts!PopTake
<1> QED BY <1>5, <1>6, <1>7, <1>8 DEF StackRun!Stack!Proceed, StackFacts!Proceed

\* What is known of the stack's variables.
LEMMA StackTypes ==
  ASSUME StackFacts!Invariant
  PROVE  /\ spc \in [StackRun!Workers -> StackFacts!Labels]
         /\ sret \in [StackRun!Workers -> (1 .. StackRun!total_items) \cup {0}]
         /\ allocated \subseteq Nodes /\ key \in [Nodes -> (1 .. StackRun!total_items) \cup {0}]
         /\ \A e \in allocated : key[e] \in 1 .. StackRun!total_items
BY DEF StackFacts!Invariant, StackFacts!StackInvariant, StackFacts!TypeOK, StackFacts!NodesCarryKeys

\* The steps of a thread inside a call: most change neither nodes nor results,
\* pop may end with 0, and it ends with the key of the node it deletes.
QuietStep(t) ==
  /\ UNCHANGED <<allocated, key, sret>>
  /\ \/ spc[t] \in PushLabels /\ spc'[t] \in PushLabels \cup {"idle"}
     \/ spc[t] \in PopLabels /\ spc'[t] \in PopLabels
EmptyPop(t) ==
  /\ UNCHANGED <<allocated, key>> /\ sret' = [sret EXCEPT ![t] = 0]
  /\ spc[t] \in PopLabels /\ spc'[t] = "idle"
TakingPop(t, e) ==
  /\ e \in allocated /\ allocated' = allocated \ {e} /\ UNCHANGED key
  /\ sret' = [sret EXCEPT ![t] = key[e]]
  /\ spc[t] \in PopLabels /\ spc'[t] = "idle"

LEMMA ProceedEffects ==
  ASSUME StackFacts!Invariant, NEW t \in StackRun!Workers, StackFacts!Proceed(t)
  PROVE  /\ spc' = [spc EXCEPT ![t] = spc'[t]]
         /\ QuietStep(t) \/ EmptyPop(t) \/ \E e \in allocated : TakingPop(t, e)
<1> USE StackTypes DEF StackFacts!Goto, PushLabels, PopLabels
<1>1. CASE StackFacts!PushLoad(t)
  BY <1>1 DEF StackFacts!PushLoad, QuietStep
<1>2. CASE StackFacts!PushLink(t)
  BY <1>2 DEF StackFacts!PushLink, QuietStep
<1>3. CASE StackFacts!PushSucceeds(t)
  BY <1>3 DEF StackFacts!PushSucceeds, QuietStep
<1>4. CASE StackFacts!PushRetries(t)
  BY <1>4 DEF StackFacts!PushRetries, QuietStep
<1>5. CASE StackFacts!PopEmpty(t)
  BY <1>5 DEF StackFacts!PopEmpty, EmptyPop
<1>6. CASE StackFacts!PopReadNext(t)
  BY <1>6 DEF StackFacts!PopReadNext, QuietStep
<1>7. CASE StackFacts!PopTag(t)
  BY <1>7 DEF StackFacts!PopTag, QuietStep
<1>8. CASE StackFacts!PopSucceeds(t)
  BY <1>8 DEF StackFacts!PopSucceeds, QuietStep
<1>9. CASE StackFacts!PopRetries(t)
  BY <1>9 DEF StackFacts!PopRetries, QuietStep
<1>10. CASE StackFacts!PopTake(t)
  <2>1. old_top[t].node \in allocated
    BY <1>10 DEF StackFacts!PopTake, StackFacts!Invariant, StackFacts!StackInvariant,
                 StackFacts!OneOwner, StackFacts!TakenNodes, StackFacts!Taking
  <2>2. TakingPop(t, old_top[t].node) /\ spc' = [spc EXCEPT ![t] = spc'[t]]
    BY <1>10, <2>1 DEF StackFacts!PopTake, TakingPop
  <2> QED BY <2>1, <2>2
<1> QED BY <1>1, <1>2, <1>3, <1>4, <1>5, <1>6, <1>7, <1>8, <1>9, <1>10 DEF StackFacts!Proceed

\* The steps that begin a call.
LEMMA CallEffects ==
  ASSUME StackFacts!Invariant, NEW t \in StackRun!Workers
  PROVE  /\ \A k : StackFacts!PushAlloc(t, k) =>
              /\ spc[t] = "idle" /\ spc' = [spc EXCEPT ![t] = "push load"] /\ UNCHANGED sret
              /\ \E e \in Nodes \ allocated : /\ allocated' = allocated \cup {e}
                                              /\ key' = [key EXCEPT ![e] = k]
         /\ StackFacts!PopLoad(t) =>
              /\ spc[t] = "idle" /\ spc' = [spc EXCEPT ![t] = "pop check"]
              /\ UNCHANGED <<allocated, key, sret>>
BY DEF StackFacts!PushAlloc, StackFacts!PopLoad, StackFacts!Goto

\* A step of one worker leaves the others in order.
LEMMA OneWorkerMoves ==
  ASSUME WorkersInOrder, verdict' = verdict, NEW t \in StackRun!Workers, fpc[t] # "exited",
         fpc' \in [StackRun!Workers -> {"loop", "calling", "exited"}],
         si' \in [StackRun!Workers -> Nat],
         \A u \in StackRun!Workers \ {t} : fpc'[u] = fpc[u] /\ spc'[u] = spc[u] /\ si'[u] = si[u],
         t = Producer => PushesInOrder', t \in Consumers => PopsInOrder(t)'
  PROVE  WorkersInOrder'
<1>1. Consumers \subseteq StackRun!Workers /\ Producer \in StackRun!Workers /\ Producer \notin Consumers
  BY StackDemoConstants
<1>2. PushesInOrder'
  BY <1>1 DEF WorkersInOrder, PushesInOrder
<1>3. ASSUME NEW c \in Consumers PROVE PopsInOrder(c)'
  BY <1>1, <1>3 DEF WorkersInOrder, PopsInOrder
<1>4. verdict' = "none"
  BY DEF WorkersInOrder
<1> QED BY <1>2, <1>3, <1>4 DEF WorkersInOrder

\* The steps of the demo, seen through what they do to the stack.
LEMMA WorkersStayInOrder ==
  ASSUME StackFacts!Invariant, WorkersInOrder, StackRun!Next \/ UNCHANGED stackVars
  PROVE  WorkersInOrder'
<1>a. /\ spc \in [StackRun!Workers -> StackFacts!Labels]
      /\ StackRun!total_items \in Nat /\ ITEMS_PER_CONSUMER \in Nat
      /\ Consumers \subseteq StackRun!Workers /\ Producer \in StackRun!Workers
      /\ Producer \notin Consumers /\ \A t \in StackRun!Workers : t = Producer \/ t \in Consumers
  BY StackDemoConstants, StackTypes
<1>b. /\ fpc \in [StackRun!Workers -> {"loop", "calling", "exited"}]
      /\ si \in [StackRun!Workers -> Nat]
      /\ PushesInOrder /\ \A c \in Consumers : PopsInOrder(c)
  BY DEF WorkersInOrder
<1> USE <1>a, <1>b DEF StackRun!Goto, PushLabels, PopLabels
<1>1. CASE StackRun!ProducerPushes
  <2>1. /\ fpc[Producer] = "loop" /\ si[Producer] < StackRun!total_items
        /\ si' = [si EXCEPT ![Producer] = @ + 1] /\ fpc' = [fpc EXCEPT ![Producer] = "calling"]
        /\ StackFacts!PushAlloc(Producer, si[Producer] + 1) /\ verdict' = verdict
    BY <1>1, StackCalls DEF StackRun!ProducerPushes
  <2>2. spc' = [spc EXCEPT ![Producer] = "push load"]
    BY <2>1, CallEffects
  <2>3. si[Producer] \in Nat /\ si'[Producer] = si[Producer] + 1
    BY <2>1
  <2>4. si' \in [StackRun!Workers -> Nat]
    BY <2>1, <2>3
  <2>5. PushesInOrder'
    <3>1. fpc'[Producer] = "calling" /\ spc'[Producer] = "push load"
      BY <2>1, <2>2
    <3>2. \A m, n \in Nat : m < n => m + 1 <= n /\ m + 1 > 0
      OBVIOUS
    <3>3. si'[Producer] <= StackRun!total_items /\ si'[Producer] > 0
      BY <3>2, <2>1, <2>3
    <3> QED BY <3>1, <3>3 DEF PushesInOrder
  <2> QED BY <2>1, <2>2, <2>4, <2>5, OneWorkerMoves
<1>2. CASE StackRun!ProducerAdds
  <2>1. /\ fpc[Producer] = "calling" /\ fpc' = [fpc EXCEPT ![Producer] = "loop"]
        /\ spc[Producer] = "idle" /\ UNCHANGED <<spc, si, verdict>>
    BY <1>2 DEF StackRun!ProducerAdds, StackRun!stackVars
  <2>2. PushesInOrder'
    BY <2>1 DEF PushesInOrder
  <2> QED BY <2>1, <2>2, OneWorkerMoves
<1>3. CASE StackRun!ProducerStores
  <2>1. /\ fpc[Producer] = "loop" /\ si[Producer] = StackRun!total_items
        /\ fpc' = [fpc EXCEPT ![Producer] = "exited"] /\ UNCHANGED <<spc, si, verdict>>
    BY <1>3 DEF StackRun!ProducerStores, StackRun!stackVars
  <2>2. PushesInOrder'
    BY <2>1 DEF PushesInOrder
  <2> QED BY <2>1, <2>2, OneWorkerMoves
<1>4. ASSUME NEW c \in Consumers, StackRun!ConsumerPops(c) PROVE WorkersInOrder'
  <2>1. /\ fpc[c] = "loop" /\ si[c] < ITEMS_PER_CONSUMER
        /\ fpc' = [fpc EXCEPT ![c] = "calling"] /\ UNCHANGED <<si, verdict>>
        /\ StackFacts!PopLoad(c)
    BY <1>4, StackCalls DEF StackRun!ConsumerPops
  <2>2. spc' = [spc EXCEPT ![c] = "pop check"]
    BY <2>1, CallEffects
  <2>3. PopsInOrder(c)'
    BY <2>1, <2>2 DEF PopsInOrder
  <2> QED BY <2>1, <2>2, <2>3, OneWorkerMoves
<1>5. ASSUME NEW c \in Consumers, StackRun!ConsumerAdds(c) PROVE WorkersInOrder'
  <2>1. /\ fpc[c] = "calling" /\ spc[c] = "idle" /\ fpc' = [fpc EXCEPT ![c] = "loop"]
        /\ UNCHANGED <<spc, verdict>>
        /\ si' = [si EXCEPT ![c] = IF sret[c] = 0 THEN @ ELSE @ + 1]
    BY <1>5 DEF StackRun!ConsumerAdds, StackRun!stackVars
  <2>2. si[c] \in Nat /\ si[c] < ITEMS_PER_CONSUMER /\ si'[c] \in {si[c], si[c] + 1}
    BY <2>1 DEF PopsInOrder
  <2>3. si' \in [StackRun!Workers -> Nat]
    BY <2>1, <2>2
  <2>4. PopsInOrder(c)'
    <3>1. fpc'[c] = "loop" /\ spc'[c] = "idle" /\ si'[c] <= ITEMS_PER_CONSUMER
      BY <2>1, <2>2
    <3> QED BY <3>1 DEF PopsInOrder
  <2> QED BY <2>1, <2>3, <2>4, OneWorkerMoves
<1>6. ASSUME NEW c \in Consumers, StackRun!ConsumerStores(c) PROVE WorkersInOrder'
  <2>1. /\ fpc[c] = "loop" /\ si[c] = ITEMS_PER_CONSUMER
        /\ fpc' = [fpc EXCEPT ![c] = "exited"] /\ UNCHANGED <<spc, si, verdict>>
    BY <1>6 DEF StackRun!ConsumerStores, StackRun!stackVars
  <2>2. PopsInOrder(c)'
    BY <2>1 DEF PopsInOrder
  <2> QED BY <2>1, <2>2, OneWorkerMoves
<1>7. ASSUME NEW t \in StackRun!Workers, StackRun!InStack(t) PROVE WorkersInOrder'
  <2>1. StackFacts!Proceed(t) /\ fpc' = fpc /\ si' = si /\ verdict' = verdict
    BY <1>7, StackCalls DEF StackRun!InStack
  <2>2. /\ spc' = [spc EXCEPT ![t] = spc'[t]]
        /\ QuietStep(t) \/ EmptyPop(t) \/ \E e \in allocated : TakingPop(t, e)
    BY <2>1, ProceedEffects
  <2>3. spc[t] # "idle" /\ (spc[t] \in PushLabels => spc'[t] \in PushLabels \cup {"idle"})
        /\ (spc[t] \in PopLabels => spc'[t] \in PopLabels \cup {"idle"})
    BY <2>2 DEF QuietStep, EmptyPop, TakingPop
  <2>4. t = Producer => PushesInOrder' /\ fpc[t] = "calling"
    BY <2>1, <2>3 DEF PushesInOrder
  <2>5. t \in Consumers => PopsInOrder(t)' /\ fpc[t] = "calling"
    BY <2>1, <2>3 DEF PopsInOrder
  <2>6. \A u \in StackRun!Workers \ {t} : spc'[u] = spc[u]
    BY <2>2
  <2> QED BY <2>1, <2>4, <2>5, <2>6, OneWorkerMoves
<1>8. CASE StackRun!MainChecks
  BY <1>8 DEF StackRun!MainChecks, StackRun!stackVars, WorkersInOrder, PushesInOrder, PopsInOrder
<1>9. CASE UNCHANGED stackVars \/ StackRun!Finished
  BY <1>9 DEF stackVars, StackRun!Finished, StackRun!vars, StackRun!stackVars,
              WorkersInOrder, PushesInOrder, PopsInOrder
<1> QED BY <1>1, <1>2, <1>3, <1>4, <1>5, <1>6, <1>7, <1>8, <1>9
        DEF StackRun!Next, StackRun!ProducerStep, StackRun!ConsumerStep

\* A sum over a set that gains or loses one element.
LEMMA SumGrows ==
  ASSUME NEW S, IsFiniteSet(S), NEW x, x \notin S, NEW f, NEW g, \A y \in S : f[y] \in Int,
         \A y \in S : g[y] = f[y], g[x] \in Int
  PROVE  StackRun!SumFunctionOnSet(g, S \cup {x}) = StackRun!SumFunctionOnSet(f, S) + g[x]
<1>1. StackRun!SumFunctionOnSet(g, S \cup {x}) = g[x] + StackRun!SumFunctionOnSet(g, S)
  <2>1. \A y \in S \cup {x} : g[y] \in Int
    OBVIOUS
  <2> QED BY <2>1, SumWith
<1>2. /\ StackRun!SumFunctionOnSet(f, S) = StackRun!SumFunctionOnSet(g, S)
      /\ StackRun!SumFunctionOnSet(f, S) \in Int
  BY SumOfSame, SumIsInt
<1> QED BY <1>1, <1>2

LEMMA SumShrinks ==
  ASSUME NEW S, IsFiniteSet(S), NEW x \in S, NEW f, NEW g, \A y \in S : f[y] \in Int,
         \A y \in S \ {x} : g[y] = f[y]
  PROVE  StackRun!SumFunctionOnSet(g, S \ {x}) = StackRun!SumFunctionOnSet(f, S) - f[x]
<1>1. StackRun!SumFunctionOnSet(f, S) = f[x] + StackRun!SumFunctionOnSet(f, S \ {x})
  BY SumWithout
<1>2. IsFiniteSet(S \ {x}) /\ \A y \in S \ {x} : f[y] \in Int
  BY FS_Subset
<1>3. StackRun!SumFunctionOnSet(f, S \ {x}) = StackRun!SumFunctionOnSet(g, S \ {x})
  BY <1>2, SumOfSame
<1>4. StackRun!SumFunctionOnSet(f, S \ {x}) \in Int /\ f[x] \in Int
  BY <1>2, SumIsInt
<1> QED BY <1>1, <1>3, <1>4

\* Sums of keys.
LEMMA SumsOfKeys ==
  ASSUME NEW S \in SUBSET (1 .. StackRun!total_items)
  PROVE  /\ StackRun!SumOfKeys(S) \in Nat
         /\ \A x \in (1 .. StackRun!total_items) \ S :
              StackRun!SumOfKeys(S \cup {x}) = StackRun!SumOfKeys(S) + x
<1> DEFINE f == [k \in 1 .. StackRun!total_items |-> k]
<1>1. IsFiniteSet(S)
  <2>1. StackRun!total_items \in Int /\ 1 \in Int
    BY StackDemoConstants
  <2>2. IsFiniteSet(1 .. StackRun!total_items)
    BY <2>1, FS_Interval
  <2> QED BY <2>2, FS_Subset
<1>2. \A x \in 1 .. StackRun!total_items : f[x] = x /\ f[x] \in Nat
  BY StackDemoConstants
<1> HIDE DEF f
<1>3. StackRun!SumFunctionOnSet(f, S) \in Nat
  BY <1>1, <1>2, SumIsNat
<1>4. ASSUME NEW x \in (1 .. StackRun!total_items) \ S
      PROVE  StackRun!SumFunctionOnSet(f, S \cup {x}) = StackRun!SumFunctionOnSet(f, S) + x
  <2>1. (\A y \in S \cup {x} : f[y] \in Int) /\ f[x] = x /\ x \in Int /\ x \notin S
    BY <1>2
  <2>2. StackRun!SumFunctionOnSet(f, S \cup {x}) = f[x] + StackRun!SumFunctionOnSet(f, S)
    BY <1>1, <2>1, SumWith
  <2> QED BY <1>3, <2>1, <2>2
<1> QED BY <1>3, <1>4 DEF f, StackRun!SumOfKeys

\* What the sums of the demo range over.
Counting == {c \in Consumers : fpc[c] # "exited"}

LEMMA SumsAreDefined ==
  ASSUME StackFacts!Invariant, WorkersInOrder, SumsAreInts, NodesAreCounted
  PROVE  /\ IsFiniteSet(StackRun!Returning) /\ IsFiniteSet(Counting)
         /\ \A e \in allocated : key[e] \in Int
         /\ \A t \in StackRun!Workers : sret[t] \in Int /\ local_sum[t] \in Int
         /\ \A c \in Consumers : AllPopped[c] \in Nat /\ AllPopped[c] = Popped(c)
         /\ StackRun!Unpushed \in Int /\ StackRun!InFlight \in Int
         /\ StackRun!SumFunctionOnSet(sret, StackRun!Returning) \in Int
         /\ StackRun!SumFunctionOnSet(local_sum, Counting) \in Int
         /\ StackRun!SumFunctionOnSet(AllPopped, Consumers) \in Nat
         /\ StackRun!Summed = consumer_sum + StackRun!SumFunctionOnSet(local_sum, Counting)
         /\ Consumers \subseteq StackRun!Workers /\ Producer \in StackRun!Workers
         /\ Producer \notin Consumers /\ IsFiniteSet(Consumers)
<1>1. /\ Consumers \subseteq StackRun!Workers /\ Producer \in StackRun!Workers
      /\ Producer \notin Consumers /\ IsFiniteSet(Consumers) /\ StackRun!total_items \in Nat
  BY StackDemoConstants
<1>2. IsFiniteSet(StackRun!Returning) /\ IsFiniteSet(Counting)
      /\ StackRun!Returning \subseteq Consumers /\ Counting \subseteq Consumers
  BY <1>1, FS_Subset DEF StackRun!Returning, Counting
<1>3. \A n \in (1 .. StackRun!total_items) \cup {0} : n \in Int
  BY <1>1
<1>4. /\ sret \in [StackRun!Workers -> (1 .. StackRun!total_items) \cup {0}]
      /\ allocated \subseteq Nodes /\ key \in [Nodes -> (1 .. StackRun!total_items) \cup {0}]
  BY StackTypes
<1>5. (\A e \in allocated : key[e] \in Int) /\ \A t \in StackRun!Workers : sret[t] \in Int
  BY <1>3, <1>4
<1>6. \A t \in StackRun!Workers : local_sum[t] \in Int /\ si[t] \in Nat
  BY DEF SumsAreInts, WorkersInOrder
<1>7. \A c \in Consumers : AllPopped[c] \in Nat /\ AllPopped[c] = Popped(c)
  BY <1>1, <1>6 DEF AllPopped, Popped
<1>8. StackRun!Unpushed \in Int
  <2>1. si[Producer] \in Nat
    BY <1>1, <1>6
  <2>2. si[Producer] + 1 .. StackRun!total_items \in SUBSET (1 .. StackRun!total_items)
    BY <1>1, <2>1
  <2>3. StackRun!SumOfKeys(si[Producer] + 1 .. StackRun!total_items) \in Nat
    BY <2>2, SumsOfKeys
  <2> QED BY <2>3 DEF StackRun!Unpushed
<1>9. StackRun!InFlight \in Int
  BY <1>5, SumIsInt DEF NodesAreCounted, StackRun!InFlight
<1>10. StackRun!SumFunctionOnSet(sret, StackRun!Returning) \in Int
  <2>1. \A c \in StackRun!Returning : sret[c] \in Int
    BY <1>1, <1>2, <1>5
  <2> QED BY <1>2, <2>1, SumIsInt
<1>11. StackRun!SumFunctionOnSet(local_sum, Counting) \in Int
  <2>1. \A c \in Counting : local_sum[c] \in Int
    BY <1>1, <1>2, <1>6
  <2> QED BY <1>2, <2>1, SumIsInt
<1>12. StackRun!SumFunctionOnSet(AllPopped, Consumers) \in Nat
  <2>1. \A c \in Consumers : AllPopped[c] \in Nat
    BY <1>7
  <2> QED BY <1>1, <2>1, SumIsNat
<1> QED BY <1>1, <1>2, <1>5, <1>6, <1>7, <1>8, <1>9, <1>10, <1>11, <1>12 DEF StackRun!Summed, Counting

\* What the steps that touch no sum leave as it is.
LEMMA NodesStayCounted ==
  ASSUME StackFacts!Invariant, WorkersInOrder, SumsAreInts, NodesAreCounted,
         allocated' = allocated, si'[Producer] = si[Producer],
         \A c \in Consumers : Popped(c)' = Popped(c)
  PROVE  NodesAreCounted'
<1>1. AllPopped' = AllPopped
  BY DEF AllPopped
<1> QED BY <1>1 DEF NodesAreCounted

LEMMA ProducerSumStays ==
  ASSUME ProducerSumsUp, fpc'[Producer] = fpc[Producer], si'[Producer] = si[Producer],
         local_sum'[Producer] = local_sum[Producer], producer_sum' = producer_sum
  PROVE  ProducerSumsUp'
BY DEF ProducerSumsUp

LEMMA ReturningStays ==
  ASSUME StackFacts!Invariant, WorkersInOrder, SumsAreInts, NodesAreCounted,
         StackRun!Returning' = StackRun!Returning, \A c \in StackRun!Returning : sret'[c] = sret[c]
  PROVE  StackRun!SumFunctionOnSet(sret', StackRun!Returning')
           = StackRun!SumFunctionOnSet(sret, StackRun!Returning)
<1>1. IsFiniteSet(StackRun!Returning) /\ \A c \in StackRun!Returning : sret[c] \in Int
  BY SumsAreDefined DEF StackRun!Returning
<1> QED BY <1>1, SumOfSame

LEMMA SummedStays ==
  ASSUME Counting' = Counting, local_sum' = local_sum, consumer_sum' = consumer_sum
  PROVE  StackRun!Summed' = StackRun!Summed
BY DEF StackRun!Summed, Counting

\* A step of the producer outside push, or one that only moves it along, is
\* none of the consumers' business.
LEMMA ConsumersUntouched ==
  ASSUME WorkersInOrder, sret' = sret,
         \A c \in Consumers : fpc'[c] = fpc[c] /\ spc'[c] = spc[c] /\ si'[c] = si[c]
  PROVE  /\ StackRun!Returning' = StackRun!Returning /\ Counting' = Counting
         /\ \A c \in Consumers : Popped(c)' = Popped(c)
BY DEF StackRun!Returning, Counting, Popped

StackSums == SumsAreInts /\ NodesAreCounted /\ ProducerSumsUp /\ StackRun!SumIsConserved

\* The key the producer is about to push moves from the numbers still to come
\* to the heap.
LEMMA ProducerPushesSums ==
  ASSUME StackFacts!Invariant, WorkersInOrder, StackSums, StackRun!ProducerPushes
  PROVE  StackSums'
<1> DEFINE n == si[Producer]
<1>1. /\ fpc[Producer] = "loop" /\ n < StackRun!total_items
      /\ si' = [si EXCEPT ![Producer] = n + 1] /\ fpc' = [fpc EXCEPT ![Producer] = "calling"]
      /\ StackFacts!PushAlloc(Producer, n + 1)
      /\ local_sum' = local_sum /\ producer_sum' = producer_sum /\ consumer_sum' = consumer_sum
  BY StackCalls DEF StackRun!ProducerPushes, StackRun!Goto
<1>2. /\ spc' = [spc EXCEPT ![Producer] = "push load"] /\ sret' = sret
      /\ \E e \in Nodes \ allocated : /\ allocated' = allocated \cup {e}
                                      /\ key' = [key EXCEPT ![e] = n + 1]
  BY <1>1, CallEffects, StackDemoConstants
<1>3. PICK e \in Nodes \ allocated :
        allocated' = allocated \cup {e} /\ key' = [key EXCEPT ![e] = n + 1]
  BY <1>2
<1>4. /\ fpc \in [StackRun!Workers -> {"loop", "calling", "exited"}] /\ si \in [StackRun!Workers -> Nat]
      /\ spc \in [StackRun!Workers -> StackFacts!Labels]
      /\ key \in [Nodes -> (1 .. StackRun!total_items) \cup {0}] /\ allocated \subseteq Nodes
      /\ StackRun!total_items \in Nat /\ Producer \in StackRun!Workers /\ Producer \notin Consumers
      /\ Consumers \subseteq StackRun!Workers
  BY StackTypes, StackDemoConstants DEF WorkersInOrder
<1>5. /\ n \in Nat /\ n + 1 \in 1 .. StackRun!total_items
      /\ si'[Producer] = n + 1 /\ fpc'[Producer] = "calling"
  BY <1>1, <1>4
<1>6. \A c \in Consumers : fpc'[c] = fpc[c] /\ spc'[c] = spc[c] /\ si'[c] = si[c]
  BY <1>1, <1>2, <1>4
<1>7. SumsAreInts' /\ IsFiniteSet(allocated)
  BY <1>1 DEF StackSums, SumsAreInts, NodesAreCounted
<1>8. NodesAreCounted'
  <2>1. AllPopped' = AllPopped
    BY <1>2, <1>6, ConsumersUntouched DEF AllPopped
  <2>2. IsFiniteSet(allocated') /\ Cardinality(allocated') = Cardinality(allocated) + 1
    BY <1>3, <1>7, FS_AddElement
  <2>3. Cardinality(allocated) \in Nat /\ StackRun!SumFunctionOnSet(AllPopped, Consumers) \in Nat
    BY <1>7, FS_CardinalityType, SumsAreDefined DEF StackSums
  <2>4. Cardinality(allocated) + StackRun!SumFunctionOnSet(AllPopped, Consumers) = n
    BY DEF StackSums, NodesAreCounted
  <2> HIDE DEF n
  <2> QED BY <2>1, <2>2, <2>3, <2>4, <1>5 DEF NodesAreCounted
<1>9. ProducerSumsUp'
  <2>1. (n + 1) - 1 = n
    BY <1>5
  <2>2. local_sum[Producer] = StackRun!SumOfKeys(1 .. n)
    BY <1>1 DEF StackSums, ProducerSumsUp
  <2> HIDE DEF n
  <2> QED BY <2>1, <2>2, <1>1, <1>5 DEF ProducerSumsUp
<1>10. StackRun!Unpushed = StackRun!Unpushed' + (n + 1) /\ StackRun!Unpushed' \in Int
  <2> DEFINE S == n + 2 .. StackRun!total_items
  <2>1. /\ S \in SUBSET (1 .. StackRun!total_items)
        /\ n + 1 .. StackRun!total_items = S \cup {n + 1}
        /\ n + 1 \in (1 .. StackRun!total_items) \ S
        /\ (n + 1) + 1 = n + 2
    BY <1>4, <1>5
  <2> HIDE DEF S
  <2>2. /\ StackRun!SumOfKeys(S \cup {n + 1}) = StackRun!SumOfKeys(S) + (n + 1)
        /\ StackRun!SumOfKeys(S) \in Nat
    BY <2>1, SumsOfKeys
  <2>3. StackRun!Unpushed = StackRun!SumOfKeys(S \cup {n + 1})
    BY <2>1 DEF StackRun!Unpushed
  <2>4. StackRun!Unpushed' = StackRun!SumOfKeys(S)
    BY <2>1, <1>5 DEF StackRun!Unpushed, S
  <2> QED BY <2>2, <2>3, <2>4
<1>11. StackRun!InFlight' = StackRun!InFlight + (n + 1)
  <2>1. /\ \A y \in allocated : key[y] \in Int /\ key'[y] = key[y]
        /\ key'[e] = n + 1 /\ n + 1 \in Int
    BY <1>3, <1>4, <1>5
  <2> HIDE DEF n
  <2>2. StackRun!SumFunctionOnSet(key', allocated \cup {e})
          = StackRun!SumFunctionOnSet(key, allocated) + key'[e]
    BY <1>7, <2>1, SumGrows
  <2> QED BY <1>3, <2>1, <2>2 DEF StackRun!InFlight
<1>12. /\ StackRun!SumFunctionOnSet(sret', StackRun!Returning')
            = StackRun!SumFunctionOnSet(sret, StackRun!Returning)
       /\ StackRun!Summed' = StackRun!Summed
  BY <1>1, <1>2, <1>6, ConsumersUntouched, SummedStays
<1>13. /\ StackRun!InFlight \in Int /\ StackRun!Summed \in Int
       /\ StackRun!SumFunctionOnSet(sret, StackRun!Returning) \in Int
  BY SumsAreDefined DEF StackSums, SumsAreInts
<1>14. StackRun!SumIsConserved'
  <2> HIDE DEF n
  <2>1. n + 1 \in Int
    BY <1>5
  <2> QED BY <2>1, <1>10, <1>11, <1>12, <1>13 DEF StackSums, StackRun!SumIsConserved
<1> QED BY <1>7, <1>8, <1>9, <1>14 DEF StackSums

\* The types the steps below need.
LEMMA DemoTypes ==
  ASSUME StackFacts!Invariant, WorkersInOrder, SumsAreInts
  PROVE  /\ fpc \in [StackRun!Workers -> {"loop", "calling", "exited"}] /\ si \in [StackRun!Workers -> Nat]
         /\ spc \in [StackRun!Workers -> StackFacts!Labels]
         /\ sret \in [StackRun!Workers -> (1 .. StackRun!total_items) \cup {0}]
         /\ local_sum \in [StackRun!Workers -> Int] /\ producer_sum \in Int /\ consumer_sum \in Int
         /\ StackRun!total_items \in Nat /\ Producer \in StackRun!Workers /\ Producer \notin Consumers
         /\ Consumers \subseteq StackRun!Workers
BY StackTypes, StackDemoConstants DEF WorkersInOrder, SumsAreInts

LEMMA ProducerAddsSums ==
  ASSUME StackFacts!Invariant, WorkersInOrder, StackSums, StackRun!ProducerAdds
  PROVE  StackSums'
<1> DEFINE n == si[Producer]
<1>1. /\ fpc[Producer] = "calling" /\ fpc' = [fpc EXCEPT ![Producer] = "loop"]
      /\ local_sum' = [local_sum EXCEPT ![Producer] = local_sum[Producer] + n]
      /\ UNCHANGED <<spc, si, sret, allocated, key, producer_sum, consumer_sum>>
  BY DEF StackRun!ProducerAdds, StackRun!Goto, StackRun!stackVars
<1>2. SumsAreInts /\ NodesAreCounted /\ ProducerSumsUp
  BY DEF StackSums
<1>3. n \in Nat /\ n > 0 /\ n <= StackRun!total_items /\ local_sum[Producer] \in Int
  BY <1>1, <1>2, DemoTypes DEF WorkersInOrder, PushesInOrder
<1>4. local_sum'[Producer] = local_sum[Producer] + n /\ fpc'[Producer] = "loop"
      /\ \A c \in Consumers : local_sum'[c] = local_sum[c] /\ fpc'[c] = fpc[c]
  BY <1>1, <1>2, DemoTypes
<1>5. SumsAreInts'
  <2>1. local_sum' \in [StackRun!Workers -> Int]
    BY <1>1, <1>2, <1>3, DemoTypes
  <2> QED BY <2>1, <1>1, <1>2 DEF SumsAreInts
<1>6. /\ StackRun!Returning' = StackRun!Returning /\ Counting' = Counting
      /\ \A c \in Consumers : Popped(c)' = Popped(c)
  BY <1>1, <1>4, ConsumersUntouched
<1>7. NodesAreCounted'
  BY <1>1, <1>2, <1>6, NodesStayCounted
<1>8. ProducerSumsUp'
  <2> DEFINE S == 1 .. n - 1
  <2>1. /\ S \in SUBSET (1 .. StackRun!total_items) /\ n \in (1 .. StackRun!total_items) \ S
        /\ S \cup {n} = 1 .. n
    BY <1>3, StackDemoConstants
  <2>2. local_sum[Producer] = StackRun!SumOfKeys(S)
    BY <1>1, <1>2 DEF ProducerSumsUp
  <2> HIDE DEF S, n
  <2>3. StackRun!SumOfKeys(S \cup {n}) = StackRun!SumOfKeys(S) + n
    BY <2>1, SumsOfKeys
  <2>4. local_sum'[Producer] = StackRun!SumOfKeys(1 .. n)
    BY <2>1, <2>2, <2>3, <1>4
  <2> QED BY <2>4, <1>1, <1>4 DEF ProducerSumsUp, n
<1>9. StackRun!SumIsConserved'
  <2>1. StackRun!SumFunctionOnSet(sret', StackRun!Returning')
          = StackRun!SumFunctionOnSet(sret, StackRun!Returning)
    BY <1>1, <1>2, <1>6, ReturningStays
  <2>2. StackRun!SumFunctionOnSet(local_sum', Counting') = StackRun!SumFunctionOnSet(local_sum, Counting)
    <3>1. /\ IsFiniteSet(Counting)
          /\ \A c \in Counting : local_sum[c] \in Int /\ local_sum'[c] = local_sum[c]
      BY <1>2, <1>4, SumsAreDefined DEF Counting
    <3> QED BY <3>1, <1>6, SumOfSame
  <2>3. StackRun!Summed' = StackRun!Summed
    BY <2>2, <1>1 DEF StackRun!Summed, Counting
  <2>4. StackRun!Unpushed' = StackRun!Unpushed /\ StackRun!InFlight' = StackRun!InFlight
    BY <1>1 DEF StackRun!Unpushed, StackRun!InFlight
  <2> QED BY <2>1, <2>3, <2>4 DEF StackSums, StackRun!SumIsConserved
<1> QED BY <1>5, <1>7, <1>8, <1>9 DEF StackSums

\* It stores its sum once every number has been pushed.
LEMMA ProducerStoresSums ==
  ASSUME StackFacts!Invariant, WorkersInOrder, StackSums, StackRun!ProducerStores
  PROVE  StackSums'
<1>1. /\ fpc[Producer] = "loop" /\ si[Producer] = StackRun!total_items
      /\ producer_sum' = local_sum[Producer] /\ fpc' = [fpc EXCEPT ![Producer] = "exited"]
      /\ UNCHANGED <<spc, si, sret, allocated, key, local_sum, consumer_sum>>
  BY DEF StackRun!ProducerStores, StackRun!Goto, StackRun!stackVars
<1>2. SumsAreInts /\ NodesAreCounted /\ ProducerSumsUp
  BY DEF StackSums
<1>3. fpc'[Producer] = "exited" /\ \A c \in Consumers : fpc'[c] = fpc[c]
  BY <1>1, <1>2, DemoTypes
<1>4. /\ StackRun!Returning' = StackRun!Returning /\ Counting' = Counting
      /\ \A c \in Consumers : Popped(c)' = Popped(c)
  BY <1>1, <1>3, ConsumersUntouched
<1>5. SumsAreInts'
  BY <1>1, <1>2, DemoTypes DEF SumsAreInts
<1>6. NodesAreCounted'
  BY <1>1, <1>2, <1>4, NodesStayCounted
<1>7. ProducerSumsUp'
  BY <1>1, <1>2, <1>3 DEF ProducerSumsUp
<1>8. StackRun!SumIsConserved'
  <2>1. StackRun!SumFunctionOnSet(sret', StackRun!Returning')
          = StackRun!SumFunctionOnSet(sret, StackRun!Returning)
    BY <1>1, <1>2, <1>4, ReturningStays
  <2>2. StackRun!Summed' = StackRun!Summed
    BY <1>1, <1>4, SummedStays
  <2>3. StackRun!Unpushed' = StackRun!Unpushed /\ StackRun!InFlight' = StackRun!InFlight
    BY <1>1 DEF StackRun!Unpushed, StackRun!InFlight
  <2> QED BY <2>1, <2>2, <2>3 DEF StackSums, StackRun!SumIsConserved
<1> QED BY <1>5, <1>6, <1>7, <1>8 DEF StackSums

\* A consumer that calls pop has no result yet.
LEMMA ConsumerPopsSums ==
  ASSUME StackFacts!Invariant, WorkersInOrder, StackSums,
         NEW c \in Consumers, StackRun!ConsumerPops(c)
  PROVE  StackSums'
<1>1. /\ fpc[c] = "loop" /\ fpc' = [fpc EXCEPT ![c] = "calling"] /\ StackFacts!PopLoad(c)
      /\ UNCHANGED <<si, local_sum, producer_sum, consumer_sum>>
  BY StackCalls DEF StackRun!ConsumerPops, StackRun!Goto
<1>2. SumsAreInts /\ NodesAreCounted /\ ProducerSumsUp /\ c \in StackRun!Workers /\ c # Producer
  BY StackDemoConstants DEF StackSums
<1>3. spc[c] = "idle" /\ spc' = [spc EXCEPT ![c] = "pop check"] /\ UNCHANGED <<allocated, key, sret>>
  BY <1>1, <1>2, CallEffects
<1>4. /\ fpc'[c] = "calling" /\ spc'[c] = "pop check" /\ fpc'[Producer] = fpc[Producer]
      /\ \A u \in Consumers \ {c} : fpc'[u] = fpc[u] /\ spc'[u] = spc[u]
  BY <1>1, <1>2, <1>3, DemoTypes
<1>5. StackRun!Returning' = StackRun!Returning /\ Counting' = Counting
  BY <1>1, <1>4 DEF StackRun!Returning, Counting
<1>6. \A u \in Consumers : Popped(u)' = Popped(u)
  BY <1>1, <1>3, <1>4 DEF Popped
<1>7. SumsAreInts'
  BY <1>1, <1>2 DEF SumsAreInts
<1>8. NodesAreCounted'
  BY <1>1, <1>2, <1>3, <1>6, NodesStayCounted
<1>9. ProducerSumsUp'
  BY <1>1, <1>2, <1>4, ProducerSumStays
<1>10. StackRun!SumIsConserved'
  <2>1. StackRun!SumFunctionOnSet(sret', StackRun!Returning')
          = StackRun!SumFunctionOnSet(sret, StackRun!Returning)
    BY <1>2, <1>3, <1>5, ReturningStays
  <2>2. StackRun!Summed' = StackRun!Summed
    BY <1>1, <1>5, SummedStays
  <2>3. StackRun!Unpushed' = StackRun!Unpushed /\ StackRun!InFlight' = StackRun!InFlight
    BY <1>1, <1>3 DEF StackRun!Unpushed, StackRun!InFlight
  <2> QED BY <2>1, <2>2, <2>3 DEF StackSums, StackRun!SumIsConserved
<1> QED BY <1>7, <1>8, <1>9, <1>10 DEF StackSums

\* The key a consumer adds to its subtotal is no longer one that was returned;
\* an empty pop adds nothing to any count.
LEMMA ConsumerAddsSums ==
  ASSUME StackFacts!Invariant, WorkersInOrder, StackSums,
         NEW c \in Consumers, StackRun!ConsumerAdds(c)
  PROVE  StackSums'
<1>1. /\ fpc[c] = "calling" /\ spc[c] = "idle" /\ fpc' = [fpc EXCEPT ![c] = "loop"]
      /\ local_sum' = [local_sum EXCEPT ![c] = local_sum[c] + sret[c]]
      /\ si' = [si EXCEPT ![c] = IF sret[c] = 0 THEN si[c] ELSE si[c] + 1]
      /\ UNCHANGED <<spc, sret, allocated, key, producer_sum, consumer_sum>>
  BY DEF StackRun!ConsumerAdds, StackRun!Goto, StackRun!stackVars
<1>2. SumsAreInts /\ NodesAreCounted /\ ProducerSumsUp /\ c \in StackRun!Workers /\ c # Producer
  BY StackDemoConstants DEF StackSums
<1>3. /\ fpc'[c] = "loop" /\ fpc'[Producer] = fpc[Producer]
      /\ local_sum'[c] = local_sum[c] + sret[c] /\ local_sum'[Producer] = local_sum[Producer]
      /\ si'[c] = (IF sret[c] = 0 THEN si[c] ELSE si[c] + 1) /\ si'[Producer] = si[Producer]
      /\ \A u \in Consumers \ {c} :
           fpc'[u] = fpc[u] /\ local_sum'[u] = local_sum[u] /\ si'[u] = si[u]
  BY <1>1, <1>2, DemoTypes
<1>4. sret[c] \in Int /\ local_sum[c] \in Int /\ si[c] \in Nat
  BY <1>2, DemoTypes, SumsAreDefined
<1>5. SumsAreInts'
  <2>1. local_sum' \in [StackRun!Workers -> Int]
    BY <1>1, <1>2, <1>4, DemoTypes
  <2> QED BY <2>1, <1>1, <1>2 DEF SumsAreInts
<1>6. \A u \in Consumers : Popped(u)' = Popped(u)
  BY <1>1, <1>3, <1>4 DEF Popped
<1>7. NodesAreCounted'
  BY <1>1, <1>2, <1>3, <1>6, NodesStayCounted
<1>8. ProducerSumsUp'
  BY <1>1, <1>2, <1>3, ProducerSumStays
<1>9. StackRun!SumIsConserved'
  <2>1. StackRun!Returning' = StackRun!Returning \ {c} /\ c \in StackRun!Returning
    BY <1>1, <1>3 DEF StackRun!Returning
  <2>2. StackRun!SumFunctionOnSet(sret', StackRun!Returning')
          = StackRun!SumFunctionOnSet(sret, StackRun!Returning) - sret[c]
    <3>1. IsFiniteSet(StackRun!Returning) /\ \A u \in StackRun!Returning : sret[u] \in Int
      BY <1>2, SumsAreDefined DEF StackRun!Returning
    <3> QED BY <1>1, <2>1, <3>1, SumShrinks
  <2>3. Counting' = Counting /\ c \in Counting
    BY <1>1, <1>3 DEF Counting
  <2>4. StackRun!SumFunctionOnSet(local_sum', Counting')
          = StackRun!SumFunctionOnSet(local_sum, Counting) + sret[c]
    <3>1. /\ IsFiniteSet(Counting) /\ \A u \in Counting : local_sum[u] \in Int
          /\ \A u \in Counting \ {c} : local_sum'[u] = local_sum[u]
          /\ StackRun!SumFunctionOnSet(local_sum, Counting) \in Int
      BY <1>2, <1>3, SumsAreDefined DEF Counting
    <3>2. local_sum'[c] \in Int
      BY <1>3, <1>4
    <3>3. StackRun!SumFunctionOnSet(local_sum', Counting)
            = StackRun!SumFunctionOnSet(local_sum, Counting) - local_sum[c] + local_sum'[c]
      BY <2>3, <3>1, <3>2, SumChanges
    <3> QED BY <3>1, <3>3, <2>3, <1>3, <1>4
  <2>5. StackRun!Unpushed' = StackRun!Unpushed /\ StackRun!InFlight' = StackRun!InFlight
    BY <1>1, <1>3 DEF StackRun!Unpushed, StackRun!InFlight
  <2>6. /\ StackRun!Unpushed \in Int /\ StackRun!InFlight \in Int /\ consumer_sum \in Int
        /\ StackRun!SumFunctionOnSet(sret, StackRun!Returning) \in Int
        /\ StackRun!SumFunctionOnSet(local_sum, Counting) \in Int
        /\ StackRun!Summed = consumer_sum + StackRun!SumFunctionOnSet(local_sum, Counting)
    BY <1>2, SumsAreDefined DEF SumsAreInts
  <2>7. StackRun!Summed' = consumer_sum + StackRun!SumFunctionOnSet(local_sum', Counting')
    BY <1>1 DEF StackRun!Summed, Counting
  <2> QED BY <2>2, <2>4, <2>5, <2>6, <2>7, <1>4 DEF StackSums, StackRun!SumIsConserved
<1> QED BY <1>5, <1>7, <1>8, <1>9 DEF StackSums

\* The subtotal of a consumer that leaves moves to the sum of all.
LEMMA ConsumerStoresSums ==
  ASSUME StackFacts!Invariant, WorkersInOrder, StackSums,
         NEW c \in Consumers, StackRun!ConsumerStores(c)
  PROVE  StackSums'
<1>1. /\ fpc[c] = "loop" /\ fpc' = [fpc EXCEPT ![c] = "exited"]
      /\ consumer_sum' = consumer_sum + local_sum[c]
      /\ UNCHANGED <<spc, si, sret, allocated, key, local_sum, producer_sum>>
  BY DEF StackRun!ConsumerStores, StackRun!Goto, StackRun!stackVars
<1>2. SumsAreInts /\ NodesAreCounted /\ ProducerSumsUp /\ c \in StackRun!Workers /\ c # Producer
  BY StackDemoConstants DEF StackSums
<1>3. /\ fpc'[c] = "exited" /\ fpc'[Producer] = fpc[Producer]
      /\ \A u \in Consumers \ {c} : fpc'[u] = fpc[u]
  BY <1>1, <1>2, DemoTypes
<1>4. local_sum[c] \in Int /\ consumer_sum \in Int
  BY <1>2, DemoTypes
<1>5. SumsAreInts'
  BY <1>1, <1>2, <1>4 DEF SumsAreInts
<1>6. \A u \in Consumers : Popped(u)' = Popped(u)
  BY <1>1, <1>3 DEF Popped
<1>7. NodesAreCounted'
  BY <1>1, <1>2, <1>6, NodesStayCounted
<1>8. ProducerSumsUp'
  BY <1>1, <1>2, <1>3, ProducerSumStays
<1>9. StackRun!SumIsConserved'
  <2>1. StackRun!Returning' = StackRun!Returning
    BY <1>1, <1>3 DEF StackRun!Returning
  <2>2. StackRun!SumFunctionOnSet(sret', StackRun!Returning')
          = StackRun!SumFunctionOnSet(sret, StackRun!Returning)
    BY <1>1, <1>2, <2>1, ReturningStays
  <2>3. Counting' = Counting \ {c} /\ c \in Counting
    BY <1>1, <1>3 DEF Counting
  <2>4. /\ IsFiniteSet(Counting) /\ \A u \in Counting : local_sum[u] \in Int
        /\ StackRun!SumFunctionOnSet(local_sum, Counting) \in Int
        /\ StackRun!Summed = consumer_sum + StackRun!SumFunctionOnSet(local_sum, Counting)
    BY <1>2, SumsAreDefined DEF Counting
  <2>5. StackRun!SumFunctionOnSet(local_sum', Counting')
          = StackRun!SumFunctionOnSet(local_sum, Counting) - local_sum[c]
    BY <1>1, <2>3, <2>4, SumShrinks
  <2>6. StackRun!Summed' = consumer_sum' + StackRun!SumFunctionOnSet(local_sum', Counting')
    BY DEF StackRun!Summed, Counting
  <2>7. StackRun!Summed' = StackRun!Summed
    BY <2>4, <2>5, <2>6, <1>1, <1>4
  <2>8. StackRun!Unpushed' = StackRun!Unpushed /\ StackRun!InFlight' = StackRun!InFlight
    BY <1>1 DEF StackRun!Unpushed, StackRun!InFlight
  <2> QED BY <2>2, <2>7, <2>8 DEF StackSums, StackRun!SumIsConserved
<1> QED BY <1>5, <1>7, <1>8, <1>9 DEF StackSums

\* Inside push and pop no key moves until a pop returns: with 0, which adds
\* nothing, or with the key of the node it has just deleted.
LEMMA InStackSums ==
  ASSUME StackFacts!Invariant, WorkersInOrder, StackSums,
         NEW t \in StackRun!Workers, StackRun!InStack(t)
  PROVE  StackSums'
<1>1. /\ StackFacts!Proceed(t)
      /\ UNCHANGED <<fpc, si, local_sum, producer_sum, consumer_sum>>
  BY StackCalls DEF StackRun!InStack
<1>2. /\ spc' = [spc EXCEPT ![t] = spc'[t]]
      /\ QuietStep(t) \/ EmptyPop(t) \/ \E e \in allocated : TakingPop(t, e)
  BY <1>1, ProceedEffects
<1>3. SumsAreInts /\ NodesAreCounted /\ ProducerSumsUp
  BY DEF StackSums
<1>4. SumsAreInts' /\ ProducerSumsUp'
  BY <1>1, <1>3, ProducerSumStays DEF SumsAreInts
<1>5. \A u \in StackRun!Workers \ {t} : spc'[u] = spc[u]
  BY <1>2, <1>3, DemoTypes
<1>6. Consumers \subseteq StackRun!Workers /\ Producer \in StackRun!Workers /\ Producer \notin Consumers
      /\ \A u \in StackRun!Workers : u = Producer \/ u \in Consumers
  BY StackDemoConstants
<1>7. (t = Producer => spc[t] \notin PopLabels) /\ (t \in Consumers => spc[t] \notin PushLabels)
  BY <1>6 DEF WorkersInOrder, PushesInOrder, PopsInOrder, PushLabels, PopLabels
<1>8. /\ StackRun!Unpushed' = StackRun!Unpushed /\ Counting' = Counting
      /\ StackRun!Summed' = StackRun!Summed
  BY <1>1 DEF StackRun!Unpushed, Counting, StackRun!Summed
<1>9. CASE QuietStep(t)
  <2>1. \A c \in Consumers : spc'[c] = "idle" <=> spc[c] = "idle"
    BY <1>5, <1>6, <1>7, <1>9 DEF QuietStep, PushLabels, PopLabels
  <2>2. UNCHANGED <<allocated, key, sret>>
    BY <1>9 DEF QuietStep
  <2>3. \A c \in Consumers : Popped(c)' = Popped(c)
    BY <1>1, <2>1, <2>2 DEF Popped
  <2>4. NodesAreCounted'
    BY <1>1, <1>3, <2>2, <2>3, NodesStayCounted
  <2>5. StackRun!Returning' = StackRun!Returning
    BY <1>1, <2>1 DEF StackRun!Returning
  <2>6. StackRun!SumFunctionOnSet(sret', StackRun!Returning')
          = StackRun!SumFunctionOnSet(sret, StackRun!Returning)
    BY <1>3, <2>2, <2>5, ReturningStays
  <2>7. StackRun!SumIsConserved'
    BY <1>8, <2>2, <2>6 DEF StackSums, StackRun!SumIsConserved, StackRun!InFlight
  <2> QED BY <1>4, <2>4, <2>7 DEF StackSums
<1>10. ASSUME NEW v \in Int, t \in Consumers, spc[t] # "idle", spc'[t] = "idle",
              sret' = [sret EXCEPT ![t] = v]
       PROVE  /\ StackRun!SumFunctionOnSet(sret', StackRun!Returning')
                   = StackRun!SumFunctionOnSet(sret, StackRun!Returning) + v
              /\ sret'[t] = v /\ fpc[t] = "calling"
              /\ \A u \in Consumers \ {t} : sret'[u] = sret[u]
  <2>1. fpc[t] = "calling"
    BY <1>10 DEF WorkersInOrder, PopsInOrder
  <2>2. sret'[t] = v /\ \A u \in Consumers \ {t} : sret'[u] = sret[u]
    BY <1>3, <1>6, <1>10, DemoTypes
  <2>3. StackRun!Returning' = StackRun!Returning \cup {t} /\ t \notin StackRun!Returning
    BY <1>1, <1>5, <1>6, <1>10, <2>1 DEF StackRun!Returning
  <2>4. /\ IsFiniteSet(StackRun!Returning)
        /\ \A u \in StackRun!Returning : sret[u] \in Int /\ sret'[u] = sret[u]
    BY <1>3, <1>6, <2>2, <2>3, SumsAreDefined DEF StackRun!Returning
  <2>5. StackRun!SumFunctionOnSet(sret', StackRun!Returning \cup {t})
          = StackRun!SumFunctionOnSet(sret, StackRun!Returning) + sret'[t]
    BY <2>2, <2>3, <2>4, SumGrows
  <2> QED BY <2>1, <2>2, <2>3, <2>5
<1>11. /\ StackRun!InFlight \in Int /\ StackRun!Unpushed \in Int /\ StackRun!Summed \in Int
       /\ StackRun!SumFunctionOnSet(sret, StackRun!Returning) \in Int
  BY <1>3, SumsAreDefined DEF SumsAreInts
<1>12. CASE EmptyPop(t)
  <2>a. PICK v \in Int : v = 0
    OBVIOUS
  <2>1. /\ t \in Consumers /\ spc[t] # "idle" /\ spc'[t] = "idle"
        /\ sret' = [sret EXCEPT ![t] = v] /\ UNCHANGED <<allocated, key>>
    BY <1>6, <1>7, <1>12, <2>a DEF EmptyPop, PopLabels
  <2>b. /\ StackRun!SumFunctionOnSet(sret', StackRun!Returning')
              = StackRun!SumFunctionOnSet(sret, StackRun!Returning) + v
        /\ sret'[t] = v /\ \A u \in Consumers \ {t} : sret'[u] = sret[u]
    BY <1>10, <2>1
  <2>2. /\ StackRun!SumFunctionOnSet(sret', StackRun!Returning')
              = StackRun!SumFunctionOnSet(sret, StackRun!Returning)
        /\ sret'[t] = 0 /\ \A u \in Consumers \ {t} : sret'[u] = sret[u]
    BY <1>11, <2>a, <2>b
  <2>3. \A c \in Consumers : Popped(c)' = Popped(c)
    BY <1>1, <1>5, <1>6, <2>1, <2>2 DEF Popped
  <2>4. NodesAreCounted'
    BY <1>1, <1>3, <2>1, <2>3, NodesStayCounted
  <2>5. StackRun!InFlight' = StackRun!InFlight
    BY <2>1 DEF StackRun!InFlight
  <2>6. StackRun!SumIsConserved'
    BY <1>8, <1>11, <2>2, <2>5 DEF StackSums, StackRun!SumIsConserved
  <2> QED BY <1>4, <2>4, <2>6 DEF StackSums
<1>13. ASSUME NEW e \in allocated, TakingPop(t, e) PROVE StackSums'
  <2>1. /\ t \in Consumers /\ spc[t] # "idle" /\ spc'[t] = "idle"
        /\ sret' = [sret EXCEPT ![t] = key[e]] /\ key' = key /\ allocated' = allocated \ {e}
    BY <1>6, <1>7, <1>13 DEF TakingPop, PopLabels
  <2>2. key[e] \in Int /\ key[e] # 0
    BY StackTypes, StackDemoConstants
  <2>3. /\ StackRun!SumFunctionOnSet(sret', StackRun!Returning')
              = StackRun!SumFunctionOnSet(sret, StackRun!Returning) + key[e]
        /\ sret'[t] = key[e] /\ fpc[t] = "calling"
        /\ \A u \in Consumers \ {t} : sret'[u] = sret[u]
    BY <1>10, <2>1, <2>2
  <2>4. /\ \A c \in Consumers : AllPopped[c] \in Nat /\ AllPopped[c] = Popped(c)
        /\ IsFiniteSet(Consumers) /\ IsFiniteSet(allocated)
        /\ StackRun!SumFunctionOnSet(AllPopped, Consumers) \in Nat
        /\ \A y \in allocated : key[y] \in Int
    BY <1>3, SumsAreDefined DEF NodesAreCounted
  <2>5. NodesAreCounted'
    <3>1. \A c \in Consumers \ {t} : Popped(c)' = Popped(c)
      BY <1>1, <1>5, <1>6, <2>3 DEF Popped
    <3>2. Popped(t)' = Popped(t) + 1
      <4>1. si[t] \in Nat /\ si' = si /\ fpc' = fpc
        BY <1>1, <1>6 DEF WorkersInOrder
      <4>2. Popped(t) = si[t] /\ Popped(t)' = si[t] + 1
        BY <4>1, <2>1, <2>2, <2>3 DEF Popped
      <4> QED BY <4>1, <4>2
    <3>3. /\ AllPopped'[t] = AllPopped[t] + 1
          /\ \A c \in Consumers \ {t} : AllPopped'[c] = AllPopped[c]
      <4>1. \A c \in Consumers : AllPopped'[c] = Popped(c)'
        BY DEF AllPopped
      <4> QED BY <4>1, <3>1, <3>2, <2>1, <2>4
    <3>4. StackRun!SumFunctionOnSet(AllPopped', Consumers)
            = StackRun!SumFunctionOnSet(AllPopped, Consumers) - AllPopped[t] + AllPopped'[t]
      <4>1. AllPopped'[t] \in Int /\ \A c \in Consumers : AllPopped[c] \in Int
        BY <2>1, <2>4, <3>3
      <4> QED BY <2>1, <2>4, <3>3, <4>1, SumChanges
    <3>5. /\ IsFiniteSet(allocated') /\ Cardinality(allocated') = Cardinality(allocated) - 1
          /\ Cardinality(allocated) \in Nat
      BY <2>1, <2>4, FS_RemoveElement, FS_CardinalityType
    <3>6. Cardinality(allocated) + StackRun!SumFunctionOnSet(AllPopped, Consumers) = si[Producer]
      BY <1>3 DEF NodesAreCounted
    <3>7. Cardinality(allocated') + StackRun!SumFunctionOnSet(AllPopped', Consumers) = si'[Producer]
      BY <1>1, <2>1, <2>4, <3>3, <3>4, <3>5, <3>6
    <3> QED BY <3>5, <3>7 DEF NodesAreCounted
  <2>6. StackRun!InFlight' = StackRun!InFlight - key[e]
    <3>1. StackRun!SumFunctionOnSet(key', allocated \ {e})
            = StackRun!SumFunctionOnSet(key, allocated) - key[e]
      BY <2>1, <2>4, SumShrinks
    <3> QED BY <2>1, <3>1 DEF StackRun!InFlight
  <2>7. StackRun!SumIsConserved'
    BY <1>8, <1>11, <2>2, <2>3, <2>6 DEF StackSums, StackRun!SumIsConserved
  <2> QED BY <1>4, <2>5, <2>7 DEF StackSums
<1> QED BY <1>2, <1>9, <1>12, <1>13
-----------------------------------------------------------------------------
StackDemoInvariant == StackFacts!Invariant /\ WorkersInOrder /\ StackSums

\* In the end every number has been pushed and as many keys have been popped:
\* no node is left, and what the consumers have summed is the sum of all.
LEMMA AllIsPopped ==
  ASSUME StackDemoInvariant, \A t \in StackRun!Workers : fpc[t] = "exited"
  PROVE  /\ allocated = {}
         /\ producer_sum = consumer_sum /\ producer_sum # 0
<1>1. StackFacts!Invariant /\ WorkersInOrder /\ SumsAreInts /\ NodesAreCounted /\ ProducerSumsUp
      /\ StackRun!SumIsConserved
  BY DEF StackDemoInvariant, StackSums
<1> DEFINE T == StackRun!total_items
<1>2. /\ Consumers \subseteq StackRun!Workers /\ Producer \in StackRun!Workers
      /\ T \in Nat /\ T > 0 /\ T = Cardinality(Consumers) * ITEMS_PER_CONSUMER
      /\ ITEMS_PER_CONSUMER \in Nat /\ IsFiniteSet(Consumers)
  BY StackDemoConstants
<1>3. si[Producer] = T /\ \A c \in Consumers : AllPopped[c] = ITEMS_PER_CONSUMER
  <2>1. si[Producer] = T /\ \A c \in Consumers : si[c] = ITEMS_PER_CONSUMER
    BY <1>1, <1>2 DEF WorkersInOrder, PushesInOrder, PopsInOrder
  <2>2. \A c \in Consumers : AllPopped[c] = si[c]
    BY <1>1, <1>2 DEF AllPopped, Popped, WorkersInOrder
  <2> QED BY <2>1, <2>2
<1>4. StackRun!SumFunctionOnSet(AllPopped, Consumers) = T
  BY <1>2, <1>3, SumOfEqual
<1> HIDE DEF T
<1>5. allocated = {}
  <2>1. Cardinality(allocated) + T = T /\ IsFiniteSet(allocated)
    BY <1>1, <1>3, <1>4 DEF NodesAreCounted
  <2>2. Cardinality(allocated) \in Nat
    BY <2>1, FS_CardinalityType
  <2>3. Cardinality(allocated) = 0
    BY <2>1, <2>2, <1>2
  <2> QED BY <2>1, <2>3, FS_EmptySet
<1>6. StackRun!Unpushed = 0 /\ StackRun!InFlight = 0
  <2>1. T + 1 .. T = {}
    BY <1>2
  <2>2. StackRun!Unpushed = StackRun!SumOfKeys({})
    BY <2>1, <1>3 DEF StackRun!Unpushed, T
  <2> QED BY <2>2, <1>5, SumOfNothing DEF StackRun!InFlight, StackRun!SumOfKeys
<1>7. /\ StackRun!SumFunctionOnSet(sret, StackRun!Returning) = 0
      /\ StackRun!Summed = consumer_sum + 0
  <2>1. StackRun!Returning = {} /\ Counting = {}
    BY <1>2 DEF StackRun!Returning, Counting
  <2> QED BY <2>1, SumOfNothing DEF StackRun!Summed, Counting
<1>8. producer_sum = StackRun!SumOfKeys(1 .. T)
  BY <1>1, <1>2 DEF ProducerSumsUp, T
<1>9. consumer_sum = StackRun!SumOfKeys(1 .. T)
  <2>1. consumer_sum \in Int
    BY <1>1 DEF SumsAreInts
  <2>2. StackRun!Unpushed + StackRun!InFlight
          + StackRun!SumFunctionOnSet(sret, StackRun!Returning) + StackRun!Summed
        = StackRun!SumOfKeys(1 .. T)
    BY <1>1 DEF StackRun!SumIsConserved, T
  <2> QED BY <2>1, <2>2, <1>6, <1>7
<1>10. StackRun!SumOfKeys(1 .. T) > 0
  <2> DEFINE S == 1 .. T - 1
  <2>1. S \in SUBSET (1 .. T) /\ T \in (1 .. T) \ S /\ S \cup {T} = 1 .. T
    BY <1>2
  <2> HIDE DEF S
  <2>2. StackRun!SumOfKeys(S \cup {T}) = StackRun!SumOfKeys(S) + T /\ StackRun!SumOfKeys(S) \in Nat
    BY <2>1, SumsOfKeys DEF T
  <2>3. \A n \in Nat : n + T > 0
    BY <1>2
  <2> QED BY <2>1, <2>2, <2>3
<1> QED BY <1>5, <1>8, <1>9, <1>10

LEMMA StackDemoInit == StackRun!Init => StackDemoInvariant
<1> SUFFICES ASSUME StackRun!Init PROVE StackDemoInvariant
  OBVIOUS
<1>1. StackFacts!Init
  BY DEF StackRun!Init, StackRun!Stack!Init, StackFacts!Init, StackRun!Stack!InitTop, StackFacts!InitTop
<1>2. StackFacts!Invariant
  BY <1>1, StackDemoConstants, StackFacts!InitInvariant DEF StackFacts!StackAssumption
<1>3. /\ fpc = [t \in StackRun!Workers |-> "loop"] /\ si = [t \in StackRun!Workers |-> 0]
      /\ local_sum = [t \in StackRun!Workers |-> 0] /\ producer_sum = 0 /\ consumer_sum = 0
      /\ verdict = "none" /\ allocated = {} /\ spc = [t \in StackRun!Workers |-> "idle"]
  BY DEF StackRun!Init, StackRun!Stack!Init
<1>4. /\ Consumers \subseteq StackRun!Workers /\ Producer \in StackRun!Workers
      /\ StackRun!total_items \in Nat /\ ITEMS_PER_CONSUMER \in Nat /\ IsFiniteSet(Consumers)
  BY StackDemoConstants
<1>5. WorkersInOrder
  <2>1. \A t \in StackRun!Workers : fpc[t] = "loop" /\ spc[t] = "idle" /\ si[t] = 0
    BY <1>3
  <2>2. PushesInOrder /\ \A c \in Consumers : PopsInOrder(c)
    BY <1>4, <2>1 DEF PushesInOrder, PopsInOrder
  <2>3. /\ fpc \in [StackRun!Workers -> {"loop", "calling", "exited"}]
        /\ si \in [StackRun!Workers -> Nat]
    BY <1>3
  <2> QED BY <1>3, <2>2, <2>3 DEF WorkersInOrder
<1>6. SumsAreInts
  BY <1>3 DEF SumsAreInts
<1>7. NodesAreCounted
  <2>1. \A c \in Consumers : AllPopped[c] = 0
    BY <1>3, <1>4 DEF AllPopped, Popped
  <2>2. StackRun!SumFunctionOnSet(AllPopped, Consumers) = Cardinality(Consumers) * 0
    BY <1>4, <2>1, SumOfEqual
  <2>3. Cardinality(Consumers) \in Nat /\ IsFiniteSet(allocated) /\ Cardinality(allocated) = 0
    BY <1>3, <1>4, FS_CardinalityType, FS_EmptySet
  <2>4. si[Producer] = 0
    BY <1>3, <1>4
  <2> QED BY <2>2, <2>3, <2>4 DEF NodesAreCounted
<1>8. ProducerSumsUp
  <2>1. local_sum[Producer] = 0 /\ si[Producer] = 0 /\ fpc[Producer] = "loop"
    BY <1>3, <1>4
  <2>2. 1 .. 0 = {}
    OBVIOUS
  <2> QED BY <2>1, <2>2, SumOfNothing DEF ProducerSumsUp, StackRun!SumOfKeys
<1>9. StackRun!SumIsConserved
  <2>1. StackRun!Unpushed = StackRun!SumOfKeys(1 .. StackRun!total_items)
    <3>1. si[Producer] + 1 = 1
      BY <1>3, <1>4
    <3> QED BY <3>1 DEF StackRun!Unpushed
  <2>2. StackRun!InFlight = 0
    BY <1>3, SumOfNothing DEF StackRun!InFlight
  <2>3. StackRun!SumFunctionOnSet(sret, StackRun!Returning) = 0
    <3>1. StackRun!Returning = {}
      BY <1>3, <1>4 DEF StackRun!Returning
    <3> QED BY <3>1, SumOfNothing
  <2>4. StackRun!Summed = 0
    <3>1. \A c \in Counting : local_sum[c] = 0
      BY <1>3, <1>4 DEF Counting
    <3>2. IsFiniteSet(Counting) /\ Cardinality(Counting) \in Nat
      BY <1>4, FS_Subset, FS_CardinalityType DEF Counting
    <3>3. StackRun!SumFunctionOnSet(local_sum, Counting) = Cardinality(Counting) * 0
      BY <3>1, <3>2, SumOfEqual
    <3> QED BY <3>2, <3>3, <1>3 DEF StackRun!Summed, Counting
  <2>5. StackRun!SumOfKeys(1 .. StackRun!total_items) \in Nat
    BY SumsOfKeys
  <2> QED BY <2>1, <2>2, <2>3, <2>4, <2>5 DEF StackRun!SumIsConserved
<1> QED BY <1>2, <1>5, <1>6, <1>7, <1>8, <1>9 DEF StackDemoInvariant, StackSums

\* The demo only calls push and pop: a step of it is one of the stack, with a
\* key that the stack's proofs allow, or leaves the stack alone.
LEMMA StackDemoUsesCalls ==
  ASSUME WorkersInOrder, StackRun!Next \/ UNCHANGED stackVars
  PROVE  [StackFacts!Next]_(StackFacts!vars)
<1>1. ASSUME NEW t \in StackRun!Workers, StackRun!Stack!PopLoad(t) \/ StackRun!Stack!Proceed(t)
      PROVE  StackFacts!Next
  BY <1>1, StackCalls DEF StackFacts!Next
<1>2. ASSUME StackRun!ProducerPushes PROVE StackFacts!Next
  <2>1. /\ Producer \in StackRun!Workers /\ si[Producer] + 1 \in 1 .. StackRun!total_items
    BY <1>2, StackDemoConstants DEF WorkersInOrder, StackRun!ProducerPushes
  <2>2. StackFacts!PushAlloc(Producer, si[Producer] + 1)
    BY <1>2, StackCalls DEF StackRun!ProducerPushes
  <2> QED BY <2>1, <2>2 DEF StackFacts!Next
<1>3. ASSUME NEW t \in StackRun!Workers, StackRun!InStack(t) PROVE StackFacts!Next
  BY <1>1, <1>3 DEF StackRun!InStack
<1>4. ASSUME NEW c \in Consumers, StackRun!ConsumerPops(c) PROVE StackFacts!Next
  BY <1>1, <1>4, StackDemoConstants DEF StackRun!ConsumerPops
<1>5. \/ StackRun!ProducerPushes \/ \E t \in StackRun!Workers : StackRun!InStack(t)
      \/ \E c \in Consumers : StackRun!ConsumerPops(c)
      \/ UNCHANGED StackFacts!vars
  BY StackDemoConstants
     DEF StackRun!Next, StackRun!ProducerStep, StackRun!ConsumerStep, StackRun!ProducerAdds,
         StackRun!ProducerStores, StackRun!ConsumerAdds, StackRun!ConsumerStores,
         StackRun!MainChecks, StackRun!Finished, StackRun!vars, StackRun!stackVars,
         stackVars, StackFacts!vars
<1> QED BY <1>2, <1>3, <1>4, <1>5

LEMMA StackDemoNext ==
  ASSUME StackDemoInvariant, StackRun!Next \/ UNCHANGED stackVars
  PROVE  StackDemoInvariant'
<1>1. StackFacts!Invariant /\ WorkersInOrder /\ StackSums
  BY DEF StackDemoInvariant
<1>2. WorkersInOrder'
  BY <1>1, WorkersStayInOrder
<1>3. [StackFacts!Next]_(StackFacts!vars)
  BY <1>1, StackDemoUsesCalls
<1>4. StackFacts!Invariant'
  BY <1>1, <1>3, StackDemoConstants, StackFacts!NextInvariant DEF StackFacts!StackAssumption
<1>5. StackSums'
  <2>1. ASSUME UNCHANGED <<stackVars>> PROVE StackSums'
    BY <1>1, <2>1
       DEF stackVars, StackSums, SumsAreInts, NodesAreCounted, ProducerSumsUp, AllPopped, Popped,
           StackRun!SumIsConserved, StackRun!Unpushed, StackRun!InFlight, StackRun!Returning,
           StackRun!Summed
  <2>2. ASSUME StackRun!MainChecks \/ StackRun!Finished PROVE StackSums'
    <3>1. UNCHANGED <<si, local_sum, producer_sum, consumer_sum, fpc, spc, sret, allocated, key>>
      BY <2>2 DEF StackRun!MainChecks, StackRun!Finished, StackRun!vars, StackRun!stackVars
    <3> QED BY <1>1, <3>1
            DEF StackSums, SumsAreInts, NodesAreCounted, ProducerSumsUp, AllPopped, Popped,
                StackRun!SumIsConserved, StackRun!Unpushed, StackRun!InFlight,
                StackRun!Returning, StackRun!Summed
  <2>3. Producer \in StackRun!Workers /\ Consumers \subseteq StackRun!Workers
    BY StackDemoConstants
  <2> QED BY <1>1, <2>1, <2>2, <2>3, ProducerPushesSums, ProducerAddsSums, ProducerStoresSums,
             ConsumerPopsSums, ConsumerAddsSums, ConsumerStoresSums, InStackSums
          DEF StackRun!Next, StackRun!ProducerStep, StackRun!ConsumerStep
<1> QED BY <1>2, <1>4, <1>5 DEF StackDemoInvariant

LEMMA StackDemoSteps == [Next]_vars => StackRun!Next \/ UNCHANGED stackVars
BY DEF Next, By, ByQueue, ByDemo, ByStack, ByRocker, ByScreen, ByBench, NoQueueStep, NoOtherStep,
       vars

LEMMA StackDemoInvariantHolds == FairSpec => []StackDemoInvariant
<1>1. Init => StackDemoInvariant
  BY StackDemoInit DEF Init
<1>2. StackDemoInvariant /\ [Next]_vars => StackDemoInvariant'
  BY StackDemoNext, StackDemoSteps
<1> QED BY <1>1, <1>2, PTL DEF FairSpec

\* Lock-free-stack/main.cpp:115: whatever the interleaving, no key is lost or
\* counted twice on its way from the producer to the consumers' sums.
THEOREM KeysAreConserved == FairSpec => []SumIsConserved
<1>1. StackDemoInvariant => SumIsConserved
  BY DEF StackDemoInvariant, StackSums, SumIsConserved
<1> QED BY <1>1, StackDemoInvariantHolds, PTL

\* When main has joined the demo's threads, every node of the stack has been
\* deleted: the class that has no destructor leaks nothing in this program.
THEOREM StackDemoLeaksNoNode == FairSpec => []StackRun!NothingLeaks
<1>1. StackDemoInvariant => StackRun!NothingLeaks
  BY AllIsPopped DEF StackRun!NothingLeaks, StackDemoInvariant, WorkersInOrder
<1> QED BY <1>1, StackDemoInvariantHolds, PTL

\* What the programs acquire they have released, on every path of theirs.
THEOREM ProgramsReleaseAll == FairSpec => []NothingLeaks
BY StackDemoLeaksNoNode, RockerFreesItsStack, FramebufferReleasesInOrder, PTL DEF NothingLeaks

\* Lock-free-stack/main.cpp:115: the demo of the stack never prints that its
\* check has failed.
THEOREM StackDemoNeverFails == FairSpec => [](verdict # "FAIL")
<1> DEFINE Good == verdict # "FAIL"
<1>1. Init => Good
  BY DEF Init, StackRun!Init
<1>2. Good /\ StackDemoInvariant /\ [Next]_vars => Good'
  <2> SUFFICES ASSUME Good, StackDemoInvariant, StackRun!Next \/ UNCHANGED stackVars PROVE Good'
    BY StackDemoSteps
  <2>1. CASE StackRun!MainChecks
    BY <2>1, AllIsPopped DEF StackRun!MainChecks
  <2>2. CASE ~StackRun!MainChecks
    BY <2>2
       DEF StackRun!Next, StackRun!ProducerStep, StackRun!ConsumerStep, StackRun!ProducerPushes,
           StackRun!ProducerAdds, StackRun!ProducerStores, StackRun!ConsumerPops,
           StackRun!ConsumerAdds, StackRun!ConsumerStores, StackRun!InStack, StackRun!Finished,
           StackRun!vars, stackVars
  <2> QED BY <2>1, <2>2
<1> QED BY <1>1, <1>2, StackDemoInvariantHolds, PTL DEF FairSpec

\* What is proved of the stack holds in its demo, for any number of consumers
\* and items: every push and pop takes effect at one moment, no pop takes an
\* address that came back for the node it has read, and no node is lost.
THEOREM StackDemoIsAtomic ==
  FairSpec => StackFacts!ImplementsAtomicStack /\ []StackFacts!NoABA /\ []StackFacts!StackInvariant
<1>1. Init => StackFacts!Init
  BY DEF Init, StackRun!Init, StackRun!Stack!Init, StackFacts!Init,
         StackRun!Stack!InitTop, StackFacts!InitTop
<1>2. StackDemoInvariant /\ [Next]_vars => [StackFacts!Next]_(StackFacts!vars)
  BY StackDemoSteps, StackDemoUsesCalls DEF StackDemoInvariant
<1>3. FairSpec => StackFacts!Spec
  BY <1>1, <1>2, StackDemoInvariantHolds, PTL DEF FairSpec, StackFacts!Spec
<1>4. StackFacts!Spec => StackFacts!ImplementsAtomicStack
  BY StackFacts!StackIsAtomic, StackDemoConstants DEF StackFacts!StackAssumption
<1>5. StackFacts!Spec => []StackFacts!NoABA
  BY StackFacts!TagsPreventABA, StackDemoConstants DEF StackFacts!StackAssumption
<1>6. StackFacts!Spec => []StackFacts!StackInvariant
  BY StackFacts!MemoryIsInOrder, StackDemoConstants DEF StackFacts!StackAssumption
<1> QED BY <1>3, <1>4, <1>5, <1>6, PTL
=============================================================================
