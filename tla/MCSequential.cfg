\* Three chunks, and data that looks like an address or like the null pointer;
\* four nodes in two slots; three objects with three references between them
\* and two registered roots; a vector that doubles twice; three function
\* objects with room for a fourth block; an arena of 7-bit integers, whose
\* positions get within one alignment of the largest size malloc grants.
\* The map may be destroyed, after which nothing happens, and memory may be
\* exhausted.
CONSTANTS
  Amount = 3
  Data = {0, 2, 9}
  n = 2
  e1 = e1
  e2 = e2
  e3 = e3
  e4 = e4
  Nodes <- FourNodes
  Keys <- ThreeKeys
  KeyOf <- FourKeyOf
  HashOf <- ThreeHashOf
  None = None
  Objects = {o1, o2, o3}
  MaxRefs = 3
  MaxRoots = 2
  Values = {0, 1}
  Garbage = 7
  OutOfRange = 9
  MaxCapacity = 4
  Functions = {f1, f2, f3}
  Small = {s}
  Large = {l1, l2}
  Blocks = {b1, b2, b3, b4}
  Nothing = Nothing
  MaxNesting = 3
  U64_MAX = 127
  PTRDIFF_MAX = 63
  ARENA_ALIGN = 4
  Capacities = {0, 7, 40, 63, 64, 127}
  Sizes = {0, 1, 3, 4, 9, 60, 63, 64, 124, 125, 126, 127}
  sizeof_Var = 12
  sizeof_matrix = 4
  Shapes <- ThreeShapes
  MaxVars = 3
  UINTPTR_MAX = 31
  heap = 3
  HeapSize = 9
  Requests = {0, 1, 2, 5, 9, 10, 19, 22, 28, 29, 31}
SPECIFICATION FairSpec
INVARIANTS FreeListIsFree MapInvariant HeapInvariant GraphInvariant
PROPERTIES ImplementsAllocator ImplementsShadowMap CallsReturn ImplementsCollector ImplementsSequence ImplementsCallables ImplementsRegion
CHECK_DEADLOCK FALSE
