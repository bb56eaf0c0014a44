------------------------------ MODULE MemPool ------------------------------
(* MemoryManager: a pool of Amount chunks whose free ones are linked        *)
(* through their own first word.  A chunk is named by its index, so that    *)
(* memory_ is chunk 1 and current + chunkSize_ is the next index.  A word   *)
(* holds any bit pattern: an address, the null pointer or client data.      *)
EXTENDS PoolParameters, Integers, Sequences, FiniteSets, Functions

nullptr == 0
memory_ == 1
Chunks == 1 .. Amount
Words == Chunks \union {nullptr} \union Data

VARIABLES
  pc,              \* "linking" in the constructor, then "ready"
  current,         \* the constructor's cursor; Amount - 1 - i steps are left
  freeListHead_,
  word,            \* word[c]: the first word of chunk c
  held,            \* chunks the client owns
  granted,         \* chunks the client was given and has not returned
  result,          \* what the latest Allocate returned
  free             \* history: the free chunks, in the order they will be given out

vars == <<pc, current, freeListHead_, word, held, granted, result, free>>

(* new char[] leaves the memory uninitialised. *)
Init ==
  /\ pc = "linking"
  /\ current = memory_
  /\ freeListHead_ = memory_
  /\ word \in [Chunks -> Data]
  /\ held = {}
  /\ granted = 0
  /\ result = nullptr
  /\ free = <<>>

(* The loop runs Amount times. *)
LinkNext_OneTooMany ==
  /\ pc = "linking"
  /\ current - 1 <= Amount - 1
  /\ word' = [word EXCEPT ![current] = current + 1]
  /\ current' = current + 1
  /\ UNCHANGED <<pc, freeListHead_, held, granted, result, free>>

(* One iteration of the loop; i = current - 1, since both advance together. *)
LinkNext ==
  /\ pc = "linking"
  /\ current - 1 < Amount - 1
  /\ word' = [word EXCEPT ![current] = current + 1]
  /\ current' = current + 1
  /\ UNCHANGED <<pc, freeListHead_, held, granted, result, free>>

(* The last chunk is left as new char[] made it. *)
TerminateList_Forgotten ==
  /\ pc = "linking"
  /\ current - 1 >= Amount - 1
  /\ free' = [k \in Chunks |-> k]
  /\ pc' = "ready"
  /\ UNCHANGED <<word, current, freeListHead_, held, granted, result>>

TerminateList ==
  /\ pc = "linking"
  /\ current - 1 >= Amount - 1
  /\ word' = [word EXCEPT ![current] = nullptr]
  /\ free' = [k \in Chunks |-> k]
  /\ pc' = "ready"
  /\ UNCHANGED <<current, freeListHead_, held, granted, result>>

AllocateFails ==
  /\ pc = "ready"
  /\ freeListHead_ = nullptr
  /\ result' = nullptr
  /\ UNCHANGED <<pc, current, freeListHead_, word, held, granted, free>>

(* The head is not advanced: the next Allocate returns the same chunk. *)
Allocate_KeepsHead ==
  /\ pc = "ready"
  /\ freeListHead_ # nullptr
  /\ result' = freeListHead_
  /\ held' = held \union {freeListHead_}
  /\ granted' = granted + 1
  /\ free' = Tail(free)
  /\ UNCHANGED <<pc, current, freeListHead_, word>>

Allocate ==
  /\ pc = "ready"
  /\ freeListHead_ # nullptr
  /\ result' = freeListHead_
  /\ freeListHead_' = word[freeListHead_]
  /\ held' = held \union {freeListHead_}
  /\ granted' = granted + 1
  /\ free' = Tail(free)
  /\ UNCHANGED <<pc, current, word>>

(* The chunk becomes the head without being linked to the rest. *)
Deallocate_Unlinked(c) ==
  /\ pc = "ready"
  /\ c \in held
  /\ freeListHead_' = c
  /\ held' = held \ {c}
  /\ granted' = granted - 1
  /\ free' = <<c>> \o free
  /\ UNCHANGED <<pc, current, word, result>>

(* The client returns a chunk it owns; Deallocate(nullptr) does nothing. *)
Deallocate(c) ==
  /\ pc = "ready"
  /\ c \in held
  /\ word' = [word EXCEPT ![c] = freeListHead_]
  /\ freeListHead_' = c
  /\ held' = held \ {c}
  /\ granted' = granted - 1
  /\ free' = <<c>> \o free
  /\ UNCHANGED <<pc, current, result>>

(* The client stores into a chunk it owns. *)
ClientWrites(c) ==
  /\ pc = "ready"
  /\ c \in held
  /\ \E d \in Data : word' = [word EXCEPT ![c] = d]
  /\ UNCHANGED <<pc, current, freeListHead_, held, granted, result, free>>

Next ==
  \/ LinkNext
  \/ TerminateList
  \/ AllocateFails
  \/ Allocate
  \/ \E c \in Chunks : Deallocate(c) \/ ClientWrites(c)

Spec == Init /\ [][Next]_vars
-----------------------------------------------------------------------------
(* Every pointer stays inside the pool, and the constructor never writes    *)
(* past the last chunk.                                                     *)
TypeOK ==
  /\ pc \in {"linking", "ready"}
  /\ current \in Chunks
  /\ freeListHead_ \in Chunks \union {nullptr}
  /\ word \in [Chunks -> Words]
  /\ held \subseteq Chunks
  /\ granted \in Nat
  /\ result \in Chunks \union {nullptr}
  /\ free \in Seq(Chunks)

(* Following the first words from freeListHead_ visits exactly the chunks   *)
(* no client owns, each of them once, and ends in the null pointer, whatever *)
(* the clients write into their own chunks.                                  *)
FreeListIsFree ==
  pc = "ready" =>
    /\ freeListHead_ = IF free = <<>> THEN nullptr ELSE free[1]
    /\ \A k \in 1 .. Len(free) :
         word[free[k]] = IF k = Len(free) THEN nullptr ELSE free[k + 1]
    /\ \A j, k \in 1 .. Len(free) : free[j] = free[k] => j = k
    /\ Range(free) = Chunks \ held
    /\ granted = Cardinality(held)

(* The pool is an allocator: no chunk has two owners, a client finds in its *)
(* chunk what it wrote there, and Allocate returns the null pointer only    *)
(* when every chunk is owned.                                               *)
Promised == INSTANCE Allocator WITH
              contents <- [c \in held |-> word[c]], None <- nullptr
ImplementsAllocator == Promised!Spec
=============================================================================
