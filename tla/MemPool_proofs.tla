--------------------------- MODULE MemPool_proofs ---------------------------
(***************************************************************************)
(* Proofs about MemPool, for a pool of any positive size and clients that  *)
(* write any data into their chunks.                                       *)
(***************************************************************************)
EXTENDS MemPool, SequenceTheorems, FiniteSetTheorems, TLAPS

(* While the constructor runs nobody owns a chunk, and every chunk behind   *)
(* the cursor is linked to its neighbour.                                   *)
LinkedSoFar ==
  pc = "linking" =>
    /\ freeListHead_ = memory_
    /\ held = {} /\ granted = 0
    /\ \A c \in 1 .. current - 1 : word[c] = c + 1

(* FreeListIsFree says nothing of the constructor and LinkedSoFar nothing   *)
(* of what follows: each needs the other, and both the types, to be kept.   *)
IInv == TypeOK /\ LinkedSoFar /\ FreeListIsFree

-----------------------------------------------------------------------------
(* The links of a list and its entries, as facts about sequences.           *)

\* Dropping the head of a list without repetition drops one member.
LEMMA TailOfDistinct ==
  ASSUME NEW S, NEW s \in Seq(S), s # <<>>,
         \A j, k \in 1 .. Len(s) : s[j] = s[k] => j = k
  PROVE  /\ Tail(s) \in Seq(S)
         /\ Len(Tail(s)) = Len(s) - 1
         /\ \A k \in 1 .. Len(s) - 1 : Tail(s)[k] = s[k + 1]
         /\ \A j, k \in 1 .. Len(s) - 1 : Tail(s)[j] = Tail(s)[k] => j = k
         /\ Range(Tail(s)) = Range(s) \ {s[1]}
<1>1. /\ Tail(s) \in Seq(S)
      /\ Len(s) \in Nat /\ Len(s) >= 1
      /\ Len(Tail(s)) = Len(s) - 1
      /\ \A k \in 1 .. Len(s) - 1 : Tail(s)[k] = s[k + 1]
  BY HeadTailProperties, EmptySeq, LenProperties
<1>2. \A j, k \in 1 .. Len(s) - 1 : Tail(s)[j] = Tail(s)[k] => j = k
  BY <1>1
<1>3. DOMAIN s = 1 .. Len(s) /\ DOMAIN Tail(s) = 1 .. Len(s) - 1
  BY <1>1, LenProperties
<1>4. ASSUME NEW x \in Range(Tail(s))
      PROVE  x \in Range(s) \ {s[1]}
  <2>1. PICK k \in 1 .. Len(s) - 1 : x = s[k + 1]
    BY <1>1, <1>3, <1>4 DEF Range
  <2>2. k + 1 \in 1 .. Len(s) /\ k + 1 # 1 /\ 1 \in 1 .. Len(s)
    BY <1>1
  <2> QED BY <2>1, <2>2, <1>3 DEF Range
<1>5. ASSUME NEW x \in Range(s) \ {s[1]}
      PROVE  x \in Range(Tail(s))
  <2>1. PICK k \in 1 .. Len(s) : x = s[k] /\ k # 1
    BY <1>3, <1>5 DEF Range
  <2>2. k - 1 \in 1 .. Len(s) - 1 /\ Tail(s)[k - 1] = s[(k - 1) + 1] /\ (k - 1) + 1 = k
    BY <1>1, <2>1
  <2> QED BY <2>1, <2>2, <1>3 DEF Range
<1> QED BY <1>1, <1>2, <1>4, <1>5

\* Putting a new element in front of such a list keeps it so.
LEMMA ConsOfDistinct ==
  ASSUME NEW S, NEW s \in Seq(S), NEW c \in S, c \notin Range(s),
         \A j, k \in 1 .. Len(s) : s[j] = s[k] => j = k
  PROVE  /\ Len(<<c>> \o s) = Len(s) + 1
         /\ (<<c>> \o s)[1] = c
         /\ \A k \in 2 .. Len(s) + 1 : (<<c>> \o s)[k] = s[k - 1]
         /\ \A j, k \in 1 .. Len(<<c>> \o s) : (<<c>> \o s)[j] = (<<c>> \o s)[k] => j = k
         /\ Range(<<c>> \o s) = Range(s) \union {c}
<1> DEFINE t == <<c>> \o s
<1>1. <<c>> \in Seq(S) /\ Len(<<c>>) = 1 /\ <<c>>[1] = c /\ Len(s) \in Nat
  BY LenProperties
<1>2. /\ Len(t) = Len(s) + 1
      /\ t[1] = c
      /\ \A k \in 2 .. Len(s) + 1 : t[k] = s[k - 1]
  BY <1>1, ConcatProperties
<1> HIDE DEF t
<1>3. DOMAIN s = 1 .. Len(s) /\ DOMAIN t = 1 .. Len(s) + 1
  BY <1>2, LenProperties
<1>4. ASSUME NEW k \in 2 .. Len(s) + 1
      PROVE  t[k] # c
  <2>1. k - 1 \in DOMAIN s /\ t[k] = s[k - 1]
    BY <1>1, <1>2, <1>3
  <2> QED BY <2>1 DEF Range
<1>5. \A j, k \in 1 .. Len(t) : t[j] = t[k] => j = k
  <2> SUFFICES ASSUME NEW j \in 1 .. Len(t), NEW k \in 1 .. Len(t), t[j] = t[k]
               PROVE  j = k
    OBVIOUS
  <2>1. CASE j = 1 \/ k = 1
    BY <2>1, <1>1, <1>2, <1>4
  <2>2. CASE j # 1 /\ k # 1
    <3>1. j - 1 \in 1 .. Len(s) /\ k - 1 \in 1 .. Len(s)
      BY <2>2, <1>1, <1>2
    <3>2. s[j - 1] = s[k - 1]
      BY <2>2, <1>1, <1>2
    <3>3. j - 1 = k - 1
      BY <3>1, <3>2
    <3> QED BY <3>3, <1>1, <1>2
  <2> QED BY <2>1, <2>2
<1>6. Range(t) = Range(s) \union {c}
  <2>1. ASSUME NEW x \in Range(t)
        PROVE  x \in Range(s) \union {c}
    <3>1. PICK k \in 1 .. Len(s) + 1 : x = t[k]
      BY <1>3, <2>1 DEF Range
    <3>2. CASE k = 1
      BY <3>1, <3>2, <1>2
    <3>3. CASE k # 1
      <4>1. k - 1 \in 1 .. Len(s) /\ x = s[k - 1]
        BY <3>1, <3>3, <1>1, <1>2
      <4> QED BY <4>1, <1>3 DEF Range
    <3> QED BY <3>2, <3>3
  <2>2. ASSUME NEW x \in Range(s)
        PROVE  x \in Range(t)
    <3>1. PICK k \in 1 .. Len(s) : x = s[k]
      BY <1>3, <2>2 DEF Range
    <3>2. k + 1 \in 2 .. Len(s) + 1 /\ (k + 1) - 1 = k /\ k + 1 \in DOMAIN t
      BY <1>1, <1>3
    <3>3. t[k + 1] = x
      BY <3>1, <3>2, <1>2
    <3> QED BY <3>2, <3>3 DEF Range
  <2>3. c \in Range(t)
    BY <1>1, <1>2, <1>3 DEF Range
  <2> QED BY <2>1, <2>2, <2>3
<1> QED BY <1>2, <1>5, <1>6 DEF t

\* What the clients own is finite, so owning a chunk more or less counts.
LEMMA CountHeld ==
  ASSUME NEW S \in SUBSET Chunks, NEW c \in Chunks
  PROVE  /\ Cardinality(S) \in Nat
         /\ c \notin S => Cardinality(S \union {c}) = Cardinality(S) + 1
         /\ c \in S => Cardinality(S \ {c}) = Cardinality(S) - 1 /\ Cardinality(S \ {c}) \in Nat
<1>1. IsFiniteSet(Chunks)
  BY AmountAssumption, FS_Interval DEF AmountAssumption, Chunks
<1>2. IsFiniteSet(S) /\ IsFiniteSet(S \ {c})
  BY <1>1, FS_Subset
<1> QED BY <1>2, FS_AddElement, FS_RemoveElement, FS_CardinalityType
-----------------------------------------------------------------------------
LEMMA InitHolds == Init => IInv
<1> SUFFICES ASSUME Init PROVE IInv
  OBVIOUS
<1>1. memory_ \in Chunks /\ nullptr \notin Chunks
  BY AmountAssumption DEF Chunks, memory_, nullptr
<1>2. TypeOK
  BY <1>1 DEF Init, TypeOK, Words
<1>3. LinkedSoFar
  BY DEF Init, LinkedSoFar, memory_
<1>4. FreeListIsFree
  BY DEF Init, FreeListIsFree
<1> QED BY <1>2, <1>3, <1>4 DEF IInv

LEMMA LinkNextKeeps == IInv /\ LinkNext => IInv'
<1> SUFFICES ASSUME IInv, LinkNext PROVE IInv'
  OBVIOUS
<1> USE DEF IInv
<1>1. current \in Chunks /\ current + 1 \in Chunks
  BY AmountAssumption DEF LinkNext, TypeOK, Chunks
<1>2. TypeOK'
  BY <1>1 DEF LinkNext, TypeOK, Words
<1>3. LinkedSoFar'
  BY <1>1, AmountAssumption DEF LinkNext, TypeOK, LinkedSoFar, Chunks
<1>4. FreeListIsFree'
  BY DEF LinkNext, FreeListIsFree
<1> QED BY <1>2, <1>3, <1>4

LEMMA TerminateListKeeps == IInv /\ TerminateList => IInv'
<1> SUFFICES ASSUME IInv, TerminateList PROVE IInv'
  OBVIOUS
<1> USE DEF IInv
<1>1. Amount \in Nat /\ Amount >= 1 /\ Chunks = 1 .. Amount /\ current = Amount
  BY AmountAssumption DEF TerminateList, TypeOK, Chunks
<1>2. free' \in Seq(Chunks) /\ Len(free') = Amount /\ \A k \in 1 .. Amount : free'[k] = k
  BY <1>1 DEF TerminateList
<1>3. TypeOK'
  BY <1>1, <1>2 DEF TerminateList, TypeOK, Words
<1>4. LinkedSoFar'
  BY DEF TerminateList, LinkedSoFar
<1>5. /\ freeListHead_' = 1 /\ held' = {} /\ granted' = 0
      /\ word'[Amount] = nullptr
      /\ \A c \in 1 .. Amount - 1 : word'[c] = c + 1
  BY <1>1 DEF TerminateList, LinkedSoFar, TypeOK, memory_
<1>6. DOMAIN free' = 1 .. Amount
  BY <1>2, LenProperties
<1>7. Range(free') = Chunks
  BY <1>1, <1>2, <1>6 DEF Range
<1>8. free' # <<>>
  BY <1>1, <1>2
<1>9. \A k \in 1 .. Len(free') :
        word'[free'[k]] = IF k = Len(free') THEN nullptr ELSE free'[k + 1]
  BY <1>1, <1>2, <1>5
<1>10. FreeListIsFree'
  BY <1>1, <1>2, <1>5, <1>7, <1>8, <1>9, FS_EmptySet DEF FreeListIsFree
<1> QED BY <1>3, <1>4, <1>10

LEMMA AllocateKeeps == IInv /\ Allocate => IInv'
<1> SUFFICES ASSUME IInv, Allocate PROVE IInv'
  OBVIOUS
<1> USE DEF IInv
<1>1. free \in Seq(Chunks) /\ free # <<>> /\ freeListHead_ = free[1]
  BY DEF Allocate, FreeListIsFree, TypeOK
<1>2. Len(free) \in Nat /\ Len(free) >= 1
  BY <1>1, EmptySeq, LenProperties
<1>3. \A j, k \in 1 .. Len(free) : free[j] = free[k] => j = k
  BY DEF Allocate, FreeListIsFree
<1>4. /\ free' \in Seq(Chunks)
      /\ Len(free') = Len(free) - 1
      /\ \A k \in 1 .. Len(free) - 1 : free'[k] = free[k + 1]
      /\ \A j, k \in 1 .. Len(free) - 1 : free'[j] = free'[k] => j = k
      /\ Range(free') = Range(free) \ {free[1]}
  BY <1>1, <1>3, TailOfDistinct DEF Allocate
<1>5. /\ freeListHead_ \in Chunks \ held
      /\ Range(free') = Chunks \ held'
  <2>1. 1 \in DOMAIN free /\ free[1] \in Range(free)
    BY <1>1, <1>2, LenProperties DEF Range
  <2>2. Range(free) = Chunks \ held
    BY DEF Allocate, FreeListIsFree
  <2> QED BY <2>1, <2>2, <1>1, <1>4 DEF Allocate
<1>6. word[free[1]] = IF 1 = Len(free) THEN nullptr ELSE free[1 + 1]
  <2>1. 1 \in 1 .. Len(free)
    BY <1>2
  <2> QED BY <2>1 DEF Allocate, FreeListIsFree
<1>7. freeListHead_' = IF free' = <<>> THEN nullptr ELSE free'[1]
  <2>1. CASE Len(free) = 1
    BY <2>1, <1>1, <1>4, <1>6, EmptySeq DEF Allocate
  <2>2. CASE Len(free) # 1
    <3>1. free' # <<>> /\ free'[1] = free[1 + 1]
      BY <2>2, <1>2, <1>4, EmptySeq
    <3> QED BY <3>1, <2>2, <1>1, <1>6 DEF Allocate
  <2> QED BY <2>1, <2>2
<1>8. \A k \in 1 .. Len(free') :
        word'[free'[k]] = IF k = Len(free') THEN nullptr ELSE free'[k + 1]
  <2> SUFFICES ASSUME NEW k \in 1 .. Len(free')
               PROVE  word[free'[k]] = IF k = Len(free') THEN nullptr ELSE free'[k + 1]
    BY DEF Allocate
  <2>1. k \in 1 .. Len(free) - 1 /\ k + 1 \in 1 .. Len(free) /\ free'[k] = free[k + 1]
    BY <1>2, <1>4
  <2>2. word[free[k + 1]] = IF k + 1 = Len(free) THEN nullptr ELSE free[(k + 1) + 1]
    BY <2>1 DEF Allocate, FreeListIsFree
  <2>3. k # Len(free') => free'[k + 1] = free[(k + 1) + 1]
    BY <2>1, <1>2, <1>4
  <2> QED BY <2>1, <2>2, <2>3, <1>2, <1>4
<1>9. granted' = Cardinality(held')
  BY <1>5, CountHeld DEF Allocate, FreeListIsFree, TypeOK
<1>10. FreeListIsFree'
  BY <1>4, <1>5, <1>7, <1>8, <1>9, <1>2 DEF FreeListIsFree
<1>11. freeListHead_' \in Chunks \union {nullptr}
  <2>1. CASE free' = <<>>
    BY <2>1, <1>7
  <2>2. CASE free' # <<>>
    <3>1. 1 \in 1 .. Len(free')
      BY <2>2, <1>4, EmptySeq, LenProperties
    <3> QED BY <3>1, <2>2, <1>4, <1>7, ElementOfSeq
  <2> QED BY <2>1, <2>2
<1>12. TypeOK'
  BY <1>4, <1>5, <1>11 DEF Allocate, TypeOK
<1>13. LinkedSoFar'
  BY DEF Allocate, LinkedSoFar
<1> QED BY <1>10, <1>12, <1>13

LEMMA DeallocateKeeps ==
  ASSUME IInv, NEW c \in Chunks, Deallocate(c)
  PROVE  IInv'
<1> USE DEF IInv
<1>1. /\ c \in held /\ held \subseteq Chunks
      /\ free \in Seq(Chunks)
      /\ Range(free) = Chunks \ held
      /\ \A j, k \in 1 .. Len(free) : free[j] = free[k] => j = k
  BY DEF Deallocate, FreeListIsFree, TypeOK
<1>2. /\ free' \in Seq(Chunks)
      /\ Len(free') = Len(free) + 1
      /\ free'[1] = c
      /\ \A k \in 2 .. Len(free) + 1 : free'[k] = free[k - 1]
      /\ \A j, k \in 1 .. Len(free') : free'[j] = free'[k] => j = k
      /\ Range(free') = Range(free) \union {c}
  <2>1. c \notin Range(free) /\ free' = <<c>> \o free /\ free' \in Seq(Chunks)
    BY <1>1 DEF Deallocate
  <2>2. /\ Len(<<c>> \o free) = Len(free) + 1
        /\ (<<c>> \o free)[1] = c
        /\ \A k \in 2 .. Len(free) + 1 : (<<c>> \o free)[k] = free[k - 1]
        /\ \A j, k \in 1 .. Len(<<c>> \o free) :
             (<<c>> \o free)[j] = (<<c>> \o free)[k] => j = k
        /\ Range(<<c>> \o free) = Range(free) \union {c}
    <3>1. free \in Seq(Chunks) /\ c \in Chunks /\ c \notin Range(free)
      BY <2>1, <1>1
    <3>2. \A j, k \in 1 .. Len(free) : free[j] = free[k] => j = k
      BY <1>1
    <3> QED BY ONLY <3>1, <3>2, ConsOfDistinct
  <2> QED BY <2>1, <2>2
<1>3. Len(free) \in Nat
  BY <1>1, LenProperties
<1>4. Range(free') = Chunks \ held'
  BY <1>1, <1>2 DEF Deallocate
<1>5. freeListHead_' = IF free' = <<>> THEN nullptr ELSE free'[1]
  BY <1>2, <1>3, EmptySeq DEF Deallocate
<1>6. \A k \in 1 .. Len(free') :
        word'[free'[k]] = IF k = Len(free') THEN nullptr ELSE free'[k + 1]
  <2> SUFFICES ASSUME NEW k \in 1 .. Len(free')
               PROVE  word'[free'[k]] = IF k = Len(free') THEN nullptr ELSE free'[k + 1]
    OBVIOUS
  <2>1. CASE k = 1
    <3>1. word'[c] = freeListHead_
      BY DEF Deallocate, TypeOK
    <3>2. CASE free = <<>>
      BY <3>1, <3>2, <2>1, <1>2, EmptySeq DEF Deallocate, FreeListIsFree
    <3>3. CASE free # <<>>
      <4>1. Len(free) >= 1 /\ free'[2] = free[1]
        BY <3>3, <1>1, <1>2, <1>3, EmptySeq
      <4> QED BY <4>1, <3>1, <3>3, <2>1, <1>2, <1>3 DEF Deallocate, FreeListIsFree
    <3> QED BY <3>2, <3>3
  <2>2. CASE k # 1
    <3>1. k - 1 \in 1 .. Len(free) /\ free'[k] = free[k - 1]
      BY <2>2, <1>2, <1>3
    <3>2. word[free[k - 1]] = IF k - 1 = Len(free) THEN nullptr ELSE free[(k - 1) + 1]
      BY <3>1 DEF Deallocate, FreeListIsFree
    <3>3. word'[free[k - 1]] = word[free[k - 1]]
      <4>1. free[k - 1] # c
        BY <3>1, <2>2, <1>2, <1>3
      <4>2. free[k - 1] \in Chunks
        BY <3>1, <1>1, ElementOfSeq
      <4> QED BY <4>1, <4>2 DEF Deallocate, TypeOK
    <3>4. k # Len(free') => free'[k + 1] = free[(k - 1) + 1]
      <4>1. k # Len(free') => k + 1 \in 2 .. Len(free) + 1
        BY <1>2, <1>3
      <4>2. (k + 1) - 1 = (k - 1) + 1
        BY <1>3
      <4> QED BY <4>1, <4>2, <1>2
    <3> QED BY <3>1, <3>2, <3>3, <3>4, <1>2, <1>3
  <2> QED BY <2>1, <2>2
<1>7. granted' = Cardinality(held') /\ granted' \in Nat
  BY <1>1, CountHeld DEF Deallocate, FreeListIsFree, TypeOK
<1>8. FreeListIsFree'
  BY <1>2, <1>4, <1>5, <1>6, <1>7 DEF FreeListIsFree
<1>9. TypeOK'
  BY <1>2, <1>7 DEF Deallocate, TypeOK, Words
<1>10. LinkedSoFar'
  BY DEF Deallocate, LinkedSoFar
<1> QED BY <1>8, <1>9, <1>10

LEMMA ClientWritesKeeps ==
  ASSUME IInv, NEW c \in Chunks, ClientWrites(c)
  PROVE  IInv'
<1> USE DEF IInv
<1>1. PICK d \in Data : word' = [word EXCEPT ![c] = d]
  BY DEF ClientWrites
<1>2. \A k \in 1 .. Len(free) : free[k] \in Chunks /\ free[k] # c
  <2> SUFFICES ASSUME NEW k \in 1 .. Len(free)
               PROVE  free[k] \in Chunks /\ free[k] # c
    OBVIOUS
  <2>1. free \in Seq(Chunks) /\ Range(free) = Chunks \ held /\ c \in held
    BY DEF ClientWrites, FreeListIsFree, TypeOK
  <2>2. free[k] \in Range(free)
    BY <2>1, LenProperties DEF Range
  <2> QED BY <2>1, <2>2
<1>3. \A k \in 1 .. Len(free) : word'[free[k]] = word[free[k]]
  BY <1>1, <1>2 DEF TypeOK
<1>4. TypeOK'
  BY <1>1 DEF ClientWrites, TypeOK, Words
<1>5. LinkedSoFar'
  BY DEF ClientWrites, LinkedSoFar
<1>6. FreeListIsFree'
  BY <1>3 DEF ClientWrites, FreeListIsFree
<1> QED BY <1>4, <1>5, <1>6

LEMMA NextKeeps == IInv /\ [Next]_vars => IInv'
<1> SUFFICES ASSUME IInv, [Next]_vars PROVE IInv'
  OBVIOUS
<1>1. CASE LinkNext
  BY <1>1, LinkNextKeeps
<1>2. CASE TerminateList
  BY <1>2, TerminateListKeeps
<1>3. CASE AllocateFails
  BY <1>3 DEF AllocateFails, IInv, TypeOK, LinkedSoFar, FreeListIsFree
<1>4. CASE Allocate
  BY <1>4, AllocateKeeps
<1>5. ASSUME NEW c \in Chunks, Deallocate(c)
      PROVE  IInv'
  BY <1>5, DeallocateKeeps
<1>6. ASSUME NEW c \in Chunks, ClientWrites(c)
      PROVE  IInv'
  BY <1>6, ClientWritesKeeps
<1>7. CASE UNCHANGED vars
  BY <1>7 DEF vars, IInv, TypeOK, LinkedSoFar, FreeListIsFree
<1> QED BY <1>1, <1>2, <1>3, <1>4, <1>5, <1>6, <1>7 DEF Next

\* The constructor and every sequence of calls keep the pool in order.
LEMMA InvariantHolds == Spec => []IInv
BY InitHolds, NextKeeps, PTL DEF Spec
-----------------------------------------------------------------------------
(* Every pointer of the pool stays inside it; the constructor writes to no  *)
(* address behind the last chunk.                                           *)
THEOREM TypesHold == Spec => []TypeOK
<1>1. IInv => TypeOK
  BY DEF IInv
<1> QED BY <1>1, InvariantHolds, PTL

(* Allocate and Deallocate keep the free list: exactly the chunks nobody    *)
(* owns, each once, ended by the null pointer, whatever the clients write.  *)
THEOREM FreeListHolds == Spec => []FreeListIsFree
<1>1. IInv => FreeListIsFree
  BY DEF IInv
<1> QED BY <1>1, InvariantHolds, PTL
-----------------------------------------------------------------------------
(* Refinement: each call maps to the step of the allocator with its name,   *)
(* and the constructor, during which nobody owns a chunk, to stuttering.    *)

LEMMA ConstructorStutters ==
  ASSUME IInv, LinkNext \/ TerminateList
  PROVE  UNCHANGED Promised!vars
<1>1. held = {} /\ held' = {}
  BY DEF IInv, LinkedSoFar, LinkNext, TerminateList
<1>2. [c \in held |-> word[c]]' = [c \in held |-> word[c]]
  BY <1>1
<1> QED BY <1>2 DEF Promised!vars, LinkNext, TerminateList

\* A null head means an empty list: there is no chunk left to give.
LEMMA FailsWhenExhausted == IInv /\ AllocateFails => Promised!Exhausted
<1> SUFFICES ASSUME IInv, AllocateFails PROVE Promised!Exhausted
  OBVIOUS
<1>1. free \in Seq(Chunks) /\ Range(free) = Chunks \ held /\ held \subseteq Chunks
  BY DEF IInv, TypeOK, FreeListIsFree, AllocateFails
<1>2. free = <<>>
  <2> SUFFICES ASSUME free # <<>> PROVE FALSE
    OBVIOUS
  <2>1. free[1] \in Chunks
    BY <1>1, EmptySeq, LenProperties, ElementOfSeq
  <2>2. free[1] = nullptr
    BY DEF IInv, FreeListIsFree, AllocateFails
  <2> QED BY <2>1, <2>2, AmountAssumption DEF Chunks, nullptr
<1>3. Range(free) = {}
  BY <1>2 DEF Range
<1>4. held = Chunks
  BY <1>1, <1>3
<1>5. [c \in held |-> word[c]]' = [c \in held |-> word[c]]
  BY DEF AllocateFails
<1> QED BY <1>4, <1>5 DEF Promised!Exhausted, AllocateFails

LEMMA AllocateGrants == IInv /\ Allocate => Promised!Allocate
<1> SUFFICES ASSUME IInv, Allocate PROVE Promised!Allocate
  OBVIOUS
<1> DEFINE h == freeListHead_
<1>1. h \in Chunks \ held
  <2>1. free \in Seq(Chunks) /\ free # <<>> /\ h = free[1] /\ Range(free) = Chunks \ held
    BY DEF IInv, TypeOK, FreeListIsFree, Allocate
  <2>2. 1 \in DOMAIN free
    BY <2>1, EmptySeq, LenProperties
  <2> QED BY <2>1, <2>2 DEF Range
<1>2. word[h] \in Words /\ word' = word /\ held' = held \union {h}
  BY <1>1 DEF IInv, TypeOK, Allocate
<1>3. [c \in held |-> word[c]]' =
        [d \in DOMAIN [c \in held |-> word[c]] \union {h} |->
           IF d = h THEN word[h] ELSE [c \in held |-> word[c]][d]]
  BY <1>1, <1>2
<1>4. granted' = granted + 1 /\ result' = h
  BY DEF Allocate
<1> QED BY <1>1, <1>2, <1>3, <1>4 DEF Promised!Allocate

LEMMA DeallocateTakesBack ==
  ASSUME IInv, NEW c \in Chunks, Deallocate(c)
  PROVE  Promised!Deallocate
<1>1. c \in held /\ held \subseteq Chunks /\ held' = held \ {c}
  BY DEF IInv, TypeOK, Deallocate
<1>2. \A d \in held' : word'[d] = word[d]
  BY <1>1 DEF IInv, TypeOK, Deallocate
<1>3. [d \in held |-> word[d]]' =
        Restrict([d \in held |-> word[d]], DOMAIN [d \in held |-> word[d]] \ {c})
  BY <1>1, <1>2 DEF Restrict
<1>4. granted' = granted - 1 /\ result' = result
  BY DEF Deallocate
<1> QED BY <1>1, <1>3, <1>4 DEF Promised!Deallocate, Promised!Restrict, Restrict

LEMMA ClientWritesItsOwn ==
  ASSUME IInv, NEW c \in Chunks, ClientWrites(c)
  PROVE  Promised!Write
<1>1. PICK d \in Data : word' = [word EXCEPT ![c] = d]
  BY DEF ClientWrites
<1>2. c \in held /\ held \subseteq Chunks /\ held' = held /\ d \in Words
  BY DEF IInv, TypeOK, ClientWrites, Words
<1>3. [e \in held |-> word[e]]' = [[e \in held |-> word[e]] EXCEPT ![c] = d]
  BY <1>1, <1>2 DEF IInv, TypeOK
<1>4. granted' = granted /\ result' = result
  BY DEF ClientWrites
<1> QED BY <1>2, <1>3, <1>4 DEF Promised!Write

LEMMA StepRefines == IInv /\ [Next]_vars => [Promised!Next]_(Promised!vars)
<1> SUFFICES ASSUME IInv, [Next]_vars PROVE [Promised!Next]_(Promised!vars)
  OBVIOUS
<1>1. CASE LinkNext \/ TerminateList
  BY <1>1, ConstructorStutters
<1>2. CASE AllocateFails
  BY <1>2, FailsWhenExhausted DEF Promised!Next
<1>3. CASE Allocate
  BY <1>3, AllocateGrants DEF Promised!Next
<1>4. ASSUME NEW c \in Chunks, Deallocate(c)
      PROVE  Promised!Next
  BY <1>4, DeallocateTakesBack DEF Promised!Next
<1>5. ASSUME NEW c \in Chunks, ClientWrites(c)
      PROVE  Promised!Next
  BY <1>5, ClientWritesItsOwn DEF Promised!Next
<1>6. CASE UNCHANGED vars
  BY <1>6 DEF vars, Promised!vars
<1> QED BY <1>1, <1>2, <1>3, <1>4, <1>5, <1>6 DEF Next

(* MemoryManager is an allocator: no chunk has two owners, a client's data  *)
(* stay as it wrote them, and Allocate answers null only when every chunk   *)
(* is owned.                                                                *)
THEOREM PoolIsAllocator == Spec => ImplementsAllocator
<1>1. Init => Promised!Init
  BY DEF Init, Promised!Init
<1>2. IInv /\ [Next]_vars => [Promised!Next]_(Promised!vars)
  BY StepRefines
<1> QED BY <1>1, <1>2, InvariantHolds, PTL DEF Spec, ImplementsAllocator, Promised!Spec
=============================================================================
