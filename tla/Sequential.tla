----------------------------- MODULE Sequential -----------------------------
(* The single-threaded components side by side: every behaviour uses one of *)
(* them, and the variables of the others keep their initial values.         *)
EXTENDS MemPool

CONSTANTS n, Nodes, Keys, KeyOf(_), HashOf(_), None,         \* of HashMap
          Objects, MaxRefs, MaxRoots,                        \* of GarbageCollector
          Values, Garbage, OutOfRange, MaxCapacity,          \* of MyVector
          Functions, Small, Large, Blocks, Nothing, MaxNesting, \* of MyFunction
          U64_MAX, PTRDIFF_MAX, ARENA_ALIGN, Capacities, Sizes, \* of Arena
          sizeof_Var, sizeof_matrix, Shapes, MaxVars,        \* of Autograd
          UINTPTR_MAX, heap, HeapSize, Requests              \* of BumpAllocator

NULL == -1

VARIABLES component,
          ptr, size, call, key, from, answer, inserted,
          allocated, objects, roots, references, marked, phase, rootIndex, stack, todo,
          data, _size, _capacity, access,
          exists, callable_, holds, invoked, nesting, terminated,
          capacity, pos, out, stage, var, graph,
          heap_ptr, block, wrapped

mapVars == <<ptr, size, call, key, from, answer, inserted>>
heapVars == <<allocated, objects, roots, references, marked, phase, rootIndex, stack, todo>>
vectorVars == <<data, _size, _capacity, access>>
functionVars == <<exists, callable_, holds, invoked, nesting, terminated>>
arenaVars == <<capacity, pos, out>>
graphVars == <<stage, var, graph>>
bumpVars == <<heap_ptr, block, wrapped>>
allVars == <<component, vars, mapVars, heapVars, vectorVars, functionVars, arenaVars, graphVars, bumpVars>>

Map == INSTANCE HashMap
Heap == INSTANCE GarbageCollector
Vector == INSTANCE MyVector WITH answer <- access
Function == INSTANCE MyFunction WITH answer <- invoked
MemArena == INSTANCE Arena
Network == INSTANCE Autograd
Bump == INSTANCE BumpAllocator

ASSUME MapAssumptions == Map!SizeAssumption /\ Map!HashAssumption /\ Map!NodesAssumption
ASSUME ContainerAssumptions == Vector!VectorAssumption /\ Function!FunctionAssumption
ASSUME RegionAssumptions ==
  MemArena!ArenaAssumption /\ Bump!RequestAssumption /\ Network!GraphAssumption

AnyInit ==
  /\ component \in {"MemoryManager", "HashMap", "GarbageCollector", "my::vector",
                    "my::function", "arena", "autograd", "my_alloc"}
  /\ Init
  /\ component # "MemoryManager" => word = [c \in Chunks |-> nullptr]
  /\ Map!Init /\ Heap!Init /\ Vector!Init /\ Function!Init
  /\ MemArena!Init /\ Network!Init /\ Bump!Init

\* A step of one component.
By(name, A) == component = name /\ A /\ UNCHANGED component
NoMapStep == UNCHANGED <<mapVars, heapVars>>
NoContainerStep == UNCHANGED <<vectorVars, functionVars>>
NoRegionStep == UNCHANGED <<arenaVars, graphVars, bumpVars>>

ByMap(A) == By("HashMap", A) /\ UNCHANGED <<vars, heapVars>> /\ NoContainerStep /\ NoRegionStep
ByHeap(A) == By("GarbageCollector", A) /\ UNCHANGED <<vars, mapVars>> /\ NoContainerStep /\ NoRegionStep

AnyNext ==
  \/ By("MemoryManager", Next) /\ NoMapStep /\ NoContainerStep /\ NoRegionStep
  \/ ByMap(Map!Next) \/ ByHeap(Heap!Next)
  \/ By("my::vector", Vector!Next) /\ UNCHANGED <<vars, functionVars>> /\ NoMapStep /\ NoRegionStep
  \/ By("my::function", Function!Next) /\ UNCHANGED <<vars, vectorVars>> /\ NoMapStep /\ NoRegionStep
  \/ By("arena", MemArena!Next) /\ UNCHANGED <<vars, graphVars, bumpVars>> /\ NoMapStep /\ NoContainerStep
  \/ By("autograd", Network!Next) /\ UNCHANGED <<vars, bumpVars>> /\ NoMapStep /\ NoContainerStep
  \/ By("my_alloc", Bump!Next) /\ UNCHANGED <<vars, arenaVars, graphVars>> /\ NoMapStep /\ NoContainerStep

\* The fairness of HashMap and of GarbageCollector.
FairSpec ==
  /\ AnyInit /\ [][AnyNext]_allVars
  /\ WF_allVars(ByMap(Map!Steps))
  /\ WF_allVars(ByHeap(Heap!Collection))
-----------------------------------------------------------------------------
\* hashmap.cc:15, 39: a chain holds the nodes of its slot, latest first.
MapInvariant == Map!MapInvariant

\* hashmap.cc:29: lookups and removals see the latest entry with the key.
ImplementsShadowMap == Map!ImplementsShadowMap

\* garbage_collector.h:55, 78: the search passes over no reference, and no
\* mark outlives its cycle.
HeapInvariant == Heap!HeapInvariant

\* garbage_collector.h:86: a collection frees exactly what is unreachable.
ImplementsCollector == Heap!ImplementsCollector

\* hashmap.cc:28, garbage_collector.h:47: the walk along a chain ends, and so
\* does a collection, in a cyclic graph too.
CallsReturn == Map!CallsReturn /\ Heap!CollectionEnds

\* my_vector/main.cpp:79, 35: neither insertions nor reallocations lose,
\* duplicate or overtake an element.
ImplementsSequence == Vector!ImplementsSequence

\* my_function.hpp:109, 121: every callable has one owner, whichever of buffer
\* and heap it lives in, through copies, moves and assignments that throw.
ImplementsCallables == Function!ImplementsCallables

\* arena.c:31, bump_allocator/main.cpp:10: blocks do not overlap, none leaves
\* its region, and a request is refused only for want of room: in the arena
\* always, in the static array until a request wraps its pointer.
ImplementsRegion == MemArena!ImplementsRegion /\ Bump!ImplementsRegion

\* autograd.c:63: what the graph consists of never overlaps in the arena, even
\* if the arena runs out between two parts of one variable.
GraphInvariant == Network!GraphInvariant
=============================================================================
