---------------------------- MODULE BumpAllocator ----------------------------
(* my_alloc/bump_allocator/main.cpp: a pointer into a static array.  The    *)
(* pointer is a machine word; beyond the array, where C++ leaves the sum    *)
(* undefined, it wraps around as the build's addition does.                 *)
EXTENDS Integers
CONSTANTS
  UINTPTR_MAX,      \* the largest pointer and size_t
  heap, HeapSize,   \* the array's address and size
  Requests,         \* arguments of my_alloc
  NULL
VARIABLES
  heap_ptr,
  block,   \* the latest request: its size, and the offset of the block or NULL
  wrapped  \* history: did a request carry the pointer past the largest address?

vars == <<heap_ptr, block, wrapped>>

Pointer(x) == x % (UINTPTR_MAX + 1)

\* The array and its end have addresses; a size is any size_t.
RequestAssumption ==
  /\ UINTPTR_MAX \in Nat /\ heap \in Nat /\ HeapSize \in Nat
  /\ heap + HeapSize <= UINTPTR_MAX
  /\ Requests \subseteq 0 .. UINTPTR_MAX
  /\ NULL \notin Nat

Init == heap_ptr = heap /\ block = [size |-> 0, at |-> NULL] /\ wrapped = FALSE

\* Whether it wraps, given the size.
Wraps(size) == wrapped \/ size + heap_ptr > UINTPTR_MAX

my_alloc_Unchecked(size) ==
  /\ block' = [size |-> size, at |-> heap_ptr - heap]
  /\ heap_ptr' = Pointer(heap_ptr + size)
  /\ wrapped' = Wraps(size)

my_alloc(size) ==
  /\ IF Pointer(size + heap_ptr) > heap + HeapSize
     THEN UNCHANGED heap_ptr /\ block' = [size |-> size, at |-> NULL]
     ELSE /\ block' = [size |-> size, at |-> heap_ptr - heap]
          /\ heap_ptr' = Pointer(heap_ptr + size)
  /\ wrapped' = Wraps(size)

Next == \E size \in Requests : my_alloc(size)

Spec == Init /\ [][Next]_vars
-----------------------------------------------------------------------------
\* Until a request wraps the pointer, blocks do not overlap and lie in the
\* array, and a request that fits succeeds.  Nothing is promised afterwards: the
\* test of my_alloc passes a size that wraps, and the pointer moves backwards.
Promised == INSTANCE Region WITH
              capacity <- HeapSize, used <- heap_ptr - heap, answer <- block, Slack <- 0
ImplementsRegion ==
  Promised!Init /\ [][Promised!Request \/ wrapped']_(Promised!vars)
=============================================================================
