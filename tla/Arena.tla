-------------------------------- MODULE Arena --------------------------------
(* ReinC/arena.c: blocks are pushed behind each other, aligned, in unsigned *)
(* arithmetic.  What the blocks contain is left out.                        *)
EXTENDS Integers
CONSTANTS
  U64_MAX,              \* the largest u64
  PTRDIFF_MAX,          \* the largest size malloc grants
  ARENA_ALIGN,          \* a power of two
  Capacities, Sizes,    \* arguments of arena_create and arena_push
  NULL
VARIABLES
  capacity, pos,    \* capacity is NULL while there is no arena
  out       \* the latest request: its size, and the offset of the block or NULL

vars == <<capacity, pos, out>>

u64(x) == x % (U64_MAX + 1)

ArenaAssumption ==
  /\ PTRDIFF_MAX \in Nat /\ U64_MAX = 2 * PTRDIFF_MAX + 1
  /\ ARENA_ALIGN \in 1 .. PTRDIFF_MAX + 1 /\ \E k \in 0 .. ARENA_ALIGN : ARENA_ALIGN = 2^k
  /\ Capacities \cup Sizes \subseteq 0 .. U64_MAX
  /\ NULL \notin Nat

NoRequest == [size |-> 0, at |-> NULL]
Init == capacity = NULL /\ pos = 0 /\ out = NoRequest

ALIGN_UP_POW2(x) == LET y == u64(x + ARENA_ALIGN - 1) IN y - (y % ARENA_ALIGN)

\* malloc refuses more than PTRDIFF_MAX bytes, and may refuse less.
arena_create(c) == capacity' \in {NULL} \cup ({c} \cap 0 .. PTRDIFF_MAX) /\ pos' = 0 /\ out' = NoRequest
arena_destroy   == capacity' = NULL /\ pos' = 0 /\ out' = NoRequest

\* The sum is compared instead of the difference.
arena_push_SumWraps(size) ==
  LET aligned == ALIGN_UP_POW2(pos)
  IN  /\ IF capacity = NULL \/ aligned > capacity \/ u64(aligned + size) > capacity
         THEN UNCHANGED pos /\ out' = [size |-> size, at |-> NULL]
         ELSE pos' = u64(aligned + size) /\ out' = [size |-> size, at |-> aligned]
      /\ UNCHANGED capacity

arena_push(size) ==
  LET aligned == ALIGN_UP_POW2(pos)
  IN  /\ IF capacity = NULL \/ aligned > capacity \/ size > capacity - aligned
         THEN UNCHANGED pos /\ out' = [size |-> size, at |-> NULL]
         ELSE pos' = u64(aligned + size) /\ out' = [size |-> size, at |-> aligned]
      /\ UNCHANGED capacity

Next ==
  \/ \E c \in Capacities : arena_create(c)
  \/ \E size \in Sizes : arena_push(size)
  \/ arena_destroy

Spec == Init /\ [][Next]_vars
-----------------------------------------------------------------------------
\* No two blocks overlap and none leaves the arena, although the position is
\* aligned and the sum computed modulo 2^64.
Promised == INSTANCE Region WITH used <- pos, answer <- out, Slack <- ARENA_ALIGN - 1
ImplementsRegion == Promised!Spec
=============================================================================
