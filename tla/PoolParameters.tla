--------------------------- MODULE PoolParameters ---------------------------
(* The arguments of MemoryManager's constructor, and what clients store.    *)
EXTENDS Naturals
CONSTANTS
  Amount,   \* number of chunks asked for
  Data      \* bit patterns a client writes and new char[] may contain

(* An Amount of 0 makes the unsigned bound Amount - 1 wrap around. *)
ASSUME AmountAssumption == Amount \in Nat \ {0}
=============================================================================
