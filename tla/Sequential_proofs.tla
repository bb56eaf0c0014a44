-------------------------- MODULE Sequential_proofs --------------------------
(***************************************************************************)
(* Proofs about the single-threaded components, as Sequential puts them    *)
(* side by side, for every value of their constants.  A section per        *)
(* component: its inductive invariant, the steps, the theorems.            *)
(***************************************************************************)
EXTENDS Sequential, SequenceTheorems, FunctionTheorems, FiniteSetTheorems,
        WellFoundedInduction, TLAPS

\* A step of the program is one of a component, or leaves its variables alone.
LEMMA MapSteps == [AnyNext]_allVars => Map!Next \/ UNCHANGED mapVars
BY DEF AnyNext, allVars, By, ByMap, ByHeap, NoMapStep, NoContainerStep, NoRegionStep

LEMMA HeapSteps == [AnyNext]_allVars => Heap!Next \/ UNCHANGED heapVars
BY DEF AnyNext, allVars, By, ByMap, ByHeap, NoMapStep, NoContainerStep, NoRegionStep

LEMMA VectorSteps == [AnyNext]_allVars => Vector!Next \/ UNCHANGED vectorVars
BY DEF AnyNext, allVars, By, ByMap, ByHeap, NoMapStep, NoContainerStep, NoRegionStep

LEMMA FunctionSteps == [AnyNext]_allVars => Function!Next \/ UNCHANGED functionVars
BY DEF AnyNext, allVars, By, ByMap, ByHeap, NoMapStep, NoContainerStep, NoRegionStep

LEMMA BumpSteps == [AnyNext]_allVars => Bump!Next \/ UNCHANGED bumpVars
BY DEF AnyNext, allVars, By, ByMap, ByHeap, NoMapStep, NoContainerStep, NoRegionStep

LEMMA ArenaSteps ==
  [AnyNext]_allVars =>
    \/ component = "arena" /\ MemArena!Next /\ UNCHANGED graphVars
    \/ component = "autograd" /\ Network!Next
    \/ UNCHANGED <<arenaVars, graphVars>>
BY DEF AnyNext, allVars, By, ByMap, ByHeap, NoMapStep, NoContainerStep, NoRegionStep

LEMMA ComponentStays == [AnyNext]_allVars => UNCHANGED component
BY DEF AnyNext, allVars, By, ByMap, ByHeap, NoMapStep, NoContainerStep, NoRegionStep

\* A set of numbers has a least element: from the order on Nat.
LEMMA Least ==
  ASSUME NEW T \in SUBSET Nat, T # {}
  PROVE  \E x \in T : \A y \in T : x <= y
<1> DEFINE R == OpToRel(<, Nat)
<1>1. IsWellFoundedOn(R, Nat)
  BY NatLessThanWellFounded
<1>2. PICK x \in T : \A y \in T : <<y, x>> \notin R
  <2> HIDE DEF R
  <2> QED BY <1>1, WFMin
<1>3. \A y \in T : ~(y < x)
  BY <1>2 DEF OpToRel
<1> QED BY <1>3

-----------------------------------------------------------------------------
(* HashMap *)

\* The walk of lookup_ is on the chain of the key's slot, and it has not passed
\* an entry with the key.
WalkIsOnChain ==
  Map!Walking =>
    /\ key \in Keys
    /\ \E i \in 0 .. Len(inserted) :
         /\ IF i = 0 THEN from = Map!SlotOf(HashOf(key))
            ELSE /\ from = inserted[i]
                 /\ Map!SlotOf(Map!hcode(inserted[i])) = Map!SlotOf(HashOf(key))
         /\ \A j \in 1 .. i : KeyOf(inserted[j]) # key

EachNodeOnce ==
  \A i, j \in 1 .. Len(inserted) : inserted[i] = inserted[j] => i = j

MapInductive == MapInvariant /\ EachNodeOnce /\ WalkIsOnChain

SlotAt(s, i) == Map!SlotOf(Map!hcode(s[i]))

LEMMA MapConstants ==
  /\ n \in Nat /\ n > 0
  /\ \A e \in Nodes : KeyOf(e) \in Keys /\ Map!SlotOf(Map!hcode(e)) \in Map!Slots
  /\ \A k \in Keys : Map!SlotOf(HashOf(k)) \in Map!Slots
  /\ Nodes \cap Map!Slots = {} /\ None \notin Nodes /\ None \notin Map!Slots
<1> USE MapAssumptions DEF Map!SizeAssumption, Map!HashAssumption, Map!NodesAssumption
<1>1. n \in Nat /\ n > 0
  OBVIOUS
<1>2. ASSUME NEW h \in Nat PROVE h % n \in 0 .. n - 1
  BY <1>1
<1>3. \A k \in Keys : HashOf(k) \in Nat
  OBVIOUS
<1>4. \A e \in Nodes : KeyOf(e) \in Keys
  OBVIOUS
<1>5. Nodes \cap Map!Slots = {} /\ None \notin Nodes /\ None \notin Map!Slots
  OBVIOUS
<1> HIDE MapAssumptions DEF Map!SizeAssumption, Map!HashAssumption, Map!NodesAssumption
<1> QED BY <1>1, <1>2, <1>3, <1>4, <1>5 DEF Map!SlotOf, Map!hcode, Map!Slots

LEMMA NextInIs ==
  ASSUME NEW s \in Seq(Nodes), NEW p, NEW i \in Nat
  PROVE  \/ /\ Map!NextIn(s, p, i) = None
            /\ \A j \in i + 1 .. Len(s) : SlotAt(s, j) # p
         \/ \E m \in i + 1 .. Len(s) :
              /\ SlotAt(s, m) = p /\ Map!NextIn(s, p, i) = s[m]
              /\ \A j \in i + 1 .. m - 1 : SlotAt(s, j) # p
<1> DEFINE later == {j \in i + 1 .. Len(s) : SlotAt(s, j) = p}
<1>1. Map!NextIn(s, p, i) = IF later = {} THEN None ELSE s[Map!Min(later)]
  BY DEF Map!NextIn, SlotAt
<1>2. Len(s) \in Nat
  OBVIOUS
<1>3. CASE later = {}
  BY <1>1, <1>3
<1>4. CASE later # {}
  <2>1. later \in SUBSET Nat
    BY <1>2
  <2>2. \E x \in later : \A y \in later : x <= y
    <3> HIDE DEF later
    <3> QED BY <1>4, <2>1, Least
  <2>3. Map!Min(later) \in later /\ \A y \in later : Map!Min(later) <= y
    BY <2>2 DEF Map!Min
  <2> DEFINE m == Map!Min(later)
  <2>4. m \in i + 1 .. Len(s) /\ SlotAt(s, m) = p
    BY <2>3
  <2> HIDE DEF m
  <2>5. ASSUME NEW j \in i + 1 .. m - 1 PROVE SlotAt(s, j) # p
    BY <1>2, <2>3, <2>4 DEF m
  <2>6. Map!NextIn(s, p, i) = s[m]
    BY <1>1, <1>4 DEF m
  <2> QED BY <2>4, <2>5, <2>6
<1> QED BY <1>3, <1>4

LEMMA NextInUnique ==
  ASSUME NEW s \in Seq(Nodes), NEW p, NEW i \in Nat
  PROVE  /\ (\A j \in i + 1 .. Len(s) : SlotAt(s, j) # p) => Map!NextIn(s, p, i) = None
         /\ \A m \in i + 1 .. Len(s) :
              /\ SlotAt(s, m) = p
              /\ \A j \in i + 1 .. m - 1 : SlotAt(s, j) # p
              => Map!NextIn(s, p, i) = s[m]
<1>1. Len(s) \in Nat
  OBVIOUS
<1>2. ASSUME \A j \in i + 1 .. Len(s) : SlotAt(s, j) # p PROVE Map!NextIn(s, p, i) = None
  BY <1>2, NextInIs
<1>3. ASSUME NEW m \in i + 1 .. Len(s), SlotAt(s, m) = p,
             \A j \in i + 1 .. m - 1 : SlotAt(s, j) # p
      PROVE  Map!NextIn(s, p, i) = s[m]
  <2>1. PICK k \in i + 1 .. Len(s) :
          /\ SlotAt(s, k) = p /\ Map!NextIn(s, p, i) = s[k]
          /\ \A j \in i + 1 .. k - 1 : SlotAt(s, j) # p
    BY <1>3, NextInIs
  <2>2. k = m
    BY <1>1, <1>3, <2>1
  <2> QED BY <2>1, <2>2
<1> QED BY <1>2, <1>3

\* A node put in front of s moves every place up by one.
LEMMA NextInBehind ==
  ASSUME NEW s \in Seq(Nodes), NEW t \in Seq(Nodes), Len(t) = Len(s) + 1,
         \A j \in 1 .. Len(s) : t[j + 1] = s[j],
         NEW p, NEW i \in 0 .. Len(s)
  PROVE  /\ Map!NextIn(t, p, i + 1) = Map!NextIn(s, p, i)
         /\ SlotAt(t, 1) # p => Map!NextIn(t, p, 0) = Map!NextIn(s, p, 0)
<1>1. Len(s) \in Nat /\ Len(t) \in Nat
  OBVIOUS
<1>2. \A j \in 1 .. Len(s) : SlotAt(t, j + 1) = SlotAt(s, j)
  BY DEF SlotAt
<1>3. ASSUME NEW a \in 0 .. Len(s) + 1, NEW b \in 0 .. Len(s),
             \A j \in a + 1 .. b + 1 : SlotAt(t, j) # p,
             a <= b + 1
      PROVE  Map!NextIn(t, p, a) = Map!NextIn(s, p, b)
  <2>1. CASE /\ Map!NextIn(s, p, b) = None
             /\ \A j \in b + 1 .. Len(s) : SlotAt(s, j) # p
    <3>1. ASSUME NEW j \in a + 1 .. Len(t) PROVE SlotAt(t, j) # p
      <4>1. CASE j <= b + 1
        BY <1>1, <1>3, <4>1
      <4>2. CASE j > b + 1
        <5>1. j - 1 \in b + 1 .. Len(s) /\ (j - 1) + 1 = j
          BY <1>1, <4>2
        <5>2. j - 1 \in 1 .. Len(s)
          BY <1>1, <5>1
        <5> QED BY <1>2, <2>1, <5>1, <5>2
      <4> QED BY <1>1, <4>1, <4>2
    <3> QED BY <2>1, <3>1, NextInUnique
  <2>2. ASSUME NEW m \in b + 1 .. Len(s), SlotAt(s, m) = p, Map!NextIn(s, p, b) = s[m],
               \A j \in b + 1 .. m - 1 : SlotAt(s, j) # p
        PROVE  Map!NextIn(t, p, a) = Map!NextIn(s, p, b)
    <3>1. m \in 1 .. Len(s) /\ m + 1 \in a + 1 .. Len(t)
      BY <1>1, <1>3
    <3>2. t[m + 1] = s[m] /\ SlotAt(t, m + 1) = p
      BY <1>2, <2>2, <3>1
    <3>3. ASSUME NEW j \in a + 1 .. (m + 1) - 1 PROVE SlotAt(t, j) # p
      <4>1. CASE j <= b + 1
        BY <1>1, <1>3, <4>1
      <4>2. CASE j > b + 1
        <5>1. j - 1 \in b + 1 .. m - 1 /\ (j - 1) + 1 = j
          BY <1>1, <4>2
        <5>2. j - 1 \in 1 .. Len(s)
          BY <1>1, <5>1
        <5> QED BY <1>2, <2>2, <5>1, <5>2
      <4> QED BY <1>1, <4>1, <4>2
    <3>4. a \in Nat
      BY <1>1
    <3>5. Map!NextIn(t, p, a) = t[m + 1]
      BY <3>1, <3>2, <3>3, <3>4, NextInUnique
    <3> QED BY <2>2, <3>2, <3>5
  <2>3. b \in Nat
    BY <1>1
  <2> QED BY <2>1, <2>2, <2>3, NextInIs
<1>4. Map!NextIn(t, p, i + 1) = Map!NextIn(s, p, i)
  <2>1. i + 1 \in 0 .. Len(s) + 1 /\ \A j \in (i + 1) + 1 .. i + 1 : FALSE
    BY <1>1
  <2> QED BY <1>3, <2>1
<1>5. ASSUME SlotAt(t, 1) # p PROVE Map!NextIn(t, p, 0) = Map!NextIn(s, p, 0)
  <2>1. \A j \in 0 + 1 .. 0 + 1 : SlotAt(t, j) # p
    BY <1>5
  <2> QED BY <1>1, <1>3, <2>1
<1> QED BY <1>4, <1>5

\* The history without its place m.
LEMMA RemovedAt ==
  ASSUME NEW s \in Seq(Nodes), NEW m \in 1 .. Len(s)
  PROVE  /\ Map!RemoveAt(s, m) \in Seq(Nodes) /\ Len(Map!RemoveAt(s, m)) = Len(s) - 1
         /\ \A j \in 1 .. m - 1 : Map!RemoveAt(s, m)[j] = s[j]
         /\ \A j \in m .. Len(s) - 1 : Map!RemoveAt(s, m)[j] = s[j + 1]
<1> DEFINE a == SubSeq(s, 1, m - 1)  b == SubSeq(s, m + 1, Len(s))
<1>1. Len(s) \in Nat /\ m \in Nat
  OBVIOUS
<1>2. a \in Seq(Nodes) /\ Len(a) = m - 1 /\ \A j \in 1 .. m - 1 : a[j] = s[j]
  <2>1. \A j \in 1 .. m - 1 : s[j] \in Nodes
    BY <1>1, ElementOfSeq
  <2>2. /\ a \in Seq(Nodes)
        /\ Len(a) = IF 1 <= m - 1 THEN (m - 1) - 1 + 1 ELSE 0
        /\ \A j \in 1 .. (m - 1) - 1 + 1 : a[j] = s[1 + j - 1]
    BY <1>1, <2>1, SubSeqProperties
  <2> QED BY <1>1, <2>2
<1>3. b \in Seq(Nodes) /\ Len(b) = Len(s) - m /\ \A j \in 1 .. Len(s) - m : b[j] = s[m + j]
  <2>1. \A j \in m + 1 .. Len(s) : s[j] \in Nodes
    BY <1>1, ElementOfSeq
  <2>2. /\ b \in Seq(Nodes)
        /\ Len(b) = IF m + 1 <= Len(s) THEN Len(s) - (m + 1) + 1 ELSE 0
        /\ \A j \in 1 .. Len(s) - (m + 1) + 1 : b[j] = s[(m + 1) + j - 1]
    BY <1>1, <2>1, SubSeqProperties
  <2> QED BY <1>1, <2>2
<1>4. Map!RemoveAt(s, m) = a \o b
  BY DEF Map!RemoveAt
<1> HIDE DEF a, b
<1>5. /\ a \o b \in Seq(Nodes) /\ Len(a \o b) = Len(a) + Len(b)
      /\ \A j \in 1 .. Len(a) + Len(b) :
           (a \o b)[j] = IF j <= Len(a) THEN a[j] ELSE b[j - Len(a)]
  BY <1>2, <1>3, ConcatProperties
<1>6. ASSUME NEW j \in 1 .. m - 1 PROVE (a \o b)[j] = s[j]
  BY <1>1, <1>2, <1>3, <1>5
<1>7. ASSUME NEW j \in m .. Len(s) - 1 PROVE (a \o b)[j] = s[j + 1]
  <2>1. j \in 1 .. Len(a) + Len(b) /\ ~(j <= Len(a))
        /\ j - Len(a) \in 1 .. Len(s) - m /\ m + (j - Len(a)) = j + 1
    BY <1>1, <1>2, <1>3
  <2> QED BY <1>3, <1>5, <2>1
<1>8. Len(a) + Len(b) = Len(s) - 1
  BY <1>1, <1>2, <1>3
<1> QED BY <1>4, <1>5, <1>6, <1>7, <1>8

\* Removing place m changes the successor of those places only that led to m.
LEMMA NextInRemoved ==
  ASSUME NEW s \in Seq(Nodes), NEW m \in 1 .. Len(s), NEW t \in Seq(Nodes),
         Len(t) = Len(s) - 1,
         \A j \in 1 .. m - 1 : t[j] = s[j],
         \A j \in m .. Len(s) - 1 : t[j] = s[j + 1],
         NEW p
  PROVE  /\ \A i \in m .. Len(s) - 1 : Map!NextIn(t, p, i) = Map!NextIn(s, p, i + 1)
         /\ \A i \in 0 .. m - 1 :
              Map!NextIn(t, p, i) = IF SlotAt(s, m) = p /\ \A j \in i + 1 .. m - 1 : SlotAt(s, j) # p
                                    THEN Map!NextIn(s, p, m) ELSE Map!NextIn(s, p, i)
<1>1. Len(s) \in Nat /\ Len(t) \in Nat /\ m \in Nat
  OBVIOUS
<1>2. \A j \in 1 .. m - 1 : SlotAt(t, j) = SlotAt(s, j)
  BY DEF SlotAt
<1>3. \A j \in m .. Len(s) - 1 : SlotAt(t, j) = SlotAt(s, j + 1)
  BY DEF SlotAt
\* a is a place of t, b + 1 one of s, and nothing of slot p is between.
<1>4. ASSUME NEW a \in 0 .. Len(t), NEW b \in m - 1 .. Len(s) - 1, a <= b,
             \A j \in a + 1 .. b : SlotAt(t, j) # p
      PROVE  Map!NextIn(t, p, a) = Map!NextIn(s, p, b + 1)
  <2>0. a \in Nat /\ b \in Nat /\ b + 1 \in Nat
    BY <1>1
  <2>1. CASE /\ Map!NextIn(s, p, b + 1) = None
             /\ \A j \in (b + 1) + 1 .. Len(s) : SlotAt(s, j) # p
    <3>1. ASSUME NEW j \in a + 1 .. Len(t) PROVE SlotAt(t, j) # p
      <4>1. CASE j <= b
        BY <1>4, <2>0, <4>1
      <4>2. CASE j > b
        <5>1. j + 1 \in (b + 1) + 1 .. Len(s) /\ j \in m .. Len(s) - 1
          BY <1>1, <2>0, <4>2
        <5> QED BY <1>3, <2>1, <5>1
      <4> QED BY <2>0, <4>1, <4>2
    <3> QED BY <2>0, <2>1, <3>1, NextInUnique
  <2>2. ASSUME NEW k \in (b + 1) + 1 .. Len(s), SlotAt(s, k) = p, Map!NextIn(s, p, b + 1) = s[k],
               \A j \in (b + 1) + 1 .. k - 1 : SlotAt(s, j) # p
        PROVE  Map!NextIn(t, p, a) = Map!NextIn(s, p, b + 1)
    <3>1. k - 1 \in a + 1 .. Len(t) /\ k - 1 \in m .. Len(s) - 1 /\ (k - 1) + 1 = k
      BY <1>1, <1>4, <2>0
    <3>2. t[k - 1] = s[k] /\ SlotAt(t, k - 1) = p
      BY <1>3, <2>2, <3>1
    <3>3. ASSUME NEW j \in a + 1 .. (k - 1) - 1 PROVE SlotAt(t, j) # p
      <4>1. CASE j <= b
        BY <1>4, <2>0, <4>1
      <4>2. CASE j > b
        <5>1. j + 1 \in (b + 1) + 1 .. k - 1 /\ j \in m .. Len(s) - 1
          BY <1>1, <2>0, <4>2
        <5> QED BY <1>3, <2>2, <5>1
      <4> QED BY <2>0, <4>1, <4>2
    <3> QED BY <2>0, <2>2, <3>1, <3>2, <3>3, NextInUnique
  <2> QED BY <2>0, <2>1, <2>2, NextInIs
<1>5. ASSUME NEW i \in m .. Len(s) - 1
      PROVE  Map!NextIn(t, p, i) = Map!NextIn(s, p, i + 1)
  <2>1. i \in 0 .. Len(t) /\ i \in m - 1 .. Len(s) - 1 /\ \A j \in i + 1 .. i : FALSE
    BY <1>1
  <2> QED BY <1>4, <2>1
<1>6. ASSUME NEW i \in 0 .. m - 1, SlotAt(s, m) = p, \A j \in i + 1 .. m - 1 : SlotAt(s, j) # p
      PROVE  Map!NextIn(t, p, i) = Map!NextIn(s, p, m)
  <2>1. i \in 0 .. Len(t) /\ m - 1 \in m - 1 .. Len(s) - 1 /\ i <= m - 1 /\ (m - 1) + 1 = m
    BY <1>1
  <2>2. \A j \in i + 1 .. m - 1 : SlotAt(t, j) # p
    BY <1>1, <1>2, <1>6
  <2> QED BY <1>4, <2>1, <2>2
<1>7. ASSUME NEW i \in 0 .. m - 1,
             ~(SlotAt(s, m) = p /\ \A j \in i + 1 .. m - 1 : SlotAt(s, j) # p)
      PROVE  Map!NextIn(t, p, i) = Map!NextIn(s, p, i)
  <2>0. i \in Nat
    BY <1>1
  <2>1. CASE \A j \in i + 1 .. m - 1 : SlotAt(s, j) # p
    <3>1. SlotAt(s, m) # p
      BY <1>7, <2>1
    <3>2. \A j \in i + 1 .. m - 1 : SlotAt(t, j) # p
      BY <1>1, <1>2, <2>1
    <3>3. Map!NextIn(t, p, i) = Map!NextIn(s, p, (m - 1) + 1)
      <4>1. i \in 0 .. Len(t) /\ m - 1 \in m - 1 .. Len(s) - 1 /\ i <= m - 1
        BY <1>1
      <4> QED BY <1>4, <3>2, <4>1
    <3>4. Map!NextIn(s, p, i) = Map!NextIn(s, p, m)
      <4>1. \A j \in i + 1 .. m : SlotAt(s, j) # p
        BY <1>1, <2>0, <2>1, <3>1
      <4>2. CASE Map!NextIn(s, p, m) = None /\ \A j \in m + 1 .. Len(s) : SlotAt(s, j) # p
        <5>1. \A j \in i + 1 .. Len(s) : SlotAt(s, j) # p
          BY <1>1, <2>0, <4>1, <4>2
        <5> QED BY <2>0, <4>2, <5>1, NextInUnique
      <4>3. ASSUME NEW k \in m + 1 .. Len(s), SlotAt(s, k) = p, Map!NextIn(s, p, m) = s[k],
                   \A j \in m + 1 .. k - 1 : SlotAt(s, j) # p
            PROVE  Map!NextIn(s, p, i) = Map!NextIn(s, p, m)
        <5>1. k \in i + 1 .. Len(s) /\ \A j \in i + 1 .. k - 1 : SlotAt(s, j) # p
          BY <1>1, <2>0, <4>1, <4>3
        <5> QED BY <2>0, <4>3, <5>1, NextInUnique
      <4> QED BY <1>1, <4>2, <4>3, NextInIs
    <3>5. (m - 1) + 1 = m
      BY <1>1
    <3> QED BY <3>3, <3>4, <3>5
  <2>2. CASE ~ \A j \in i + 1 .. m - 1 : SlotAt(s, j) # p
    <3>1. PICK k \in i + 1 .. Len(s) :
            /\ SlotAt(s, k) = p /\ Map!NextIn(s, p, i) = s[k]
            /\ \A j \in i + 1 .. k - 1 : SlotAt(s, j) # p
      <4>1. PICK j \in i + 1 .. m - 1 : SlotAt(s, j) = p
        BY <2>2
      <4>2. j \in i + 1 .. Len(s)
        BY <1>1, <2>0
      <4>3. ~ \A l \in i + 1 .. Len(s) : SlotAt(s, l) # p
        BY <4>1, <4>2
      <4> QED BY <2>0, <4>3, NextInIs
    <3>2. k <= m - 1
      BY <1>1, <2>0, <2>2, <3>1
    <3>3. k \in i + 1 .. Len(t) /\ k \in 1 .. m - 1 /\ \A j \in i + 1 .. k - 1 : j \in 1 .. m - 1
      BY <1>1, <2>0, <3>2
    <3>4. SlotAt(t, k) = p /\ \A j \in i + 1 .. k - 1 : SlotAt(t, j) # p
      BY <1>2, <3>1, <3>3
    <3>5. t[k] = s[k]
      BY <3>3
    <3> QED BY <2>0, <3>1, <3>3, <3>4, <3>5, NextInUnique
  <2> QED BY <2>1, <2>2
<1> QED BY <1>5, <1>6, <1>7

\* Where the walk has come to: it has found no node, or the next one.
LEMMA WalkSees ==
  ASSUME MapInductive, Map!Walking
  PROVE  \E i \in 0 .. Len(inserted) :
           /\ IF i = 0 THEN from = Map!SlotOf(HashOf(key))
              ELSE from = inserted[i] /\ SlotAt(inserted, i) = Map!SlotOf(HashOf(key))
           /\ \A j \in 1 .. i : KeyOf(inserted[j]) # key
           /\ ptr[from] = Map!NextIn(inserted, Map!SlotOf(HashOf(key)), i)
           /\ \/ /\ ptr[from] = None
                 /\ \A j \in 1 .. Len(inserted) : KeyOf(inserted[j]) # key
              \/ \E m \in i + 1 .. Len(inserted) :
                   /\ ptr[from] = inserted[m] /\ inserted[m] \in Nodes
                   /\ SlotAt(inserted, m) = Map!SlotOf(HashOf(key))
                   /\ \A j \in i + 1 .. m - 1 : SlotAt(inserted, j) # Map!SlotOf(HashOf(key))
                   /\ \A j \in 1 .. m - 1 : KeyOf(inserted[j]) # key
<1> DEFINE h == Map!SlotOf(HashOf(key))
<1>1. inserted \in Seq(Nodes) /\ Len(inserted) \in Nat
  BY DEF MapInductive, MapInvariant, Map!MapInvariant, Map!TypeOK
<1>2. key \in Keys /\ h \in Map!Slots
  BY MapConstants DEF MapInductive, WalkIsOnChain
<1>3. PICK i \in 0 .. Len(inserted) :
        /\ IF i = 0 THEN from = h ELSE from = inserted[i] /\ SlotAt(inserted, i) = h
        /\ \A j \in 1 .. i : KeyOf(inserted[j]) # key
  BY DEF MapInductive, WalkIsOnChain, SlotAt
<1>4. \A j \in 1 .. Len(inserted) : KeyOf(inserted[j]) = key => SlotAt(inserted, j) = h
  BY DEF SlotAt, Map!hcode
<1>5. ptr[from] = Map!NextIn(inserted, h, i)
  <2>1. \A p \in Map!Slots : ptr[p] = Map!NextIn(inserted, p, 0)
    BY DEF MapInductive, MapInvariant, Map!MapInvariant, Map!ChainsAreBuckets
  <2>2. \A j \in 1 .. Len(inserted) :
          ptr[inserted[j]] = Map!NextIn(inserted, SlotAt(inserted, j), j)
    BY DEF MapInductive, MapInvariant, Map!MapInvariant, Map!ChainsAreBuckets, SlotAt
  <2>3. CASE i = 0
    BY <1>2, <1>3, <2>1, <2>3
  <2>4. CASE i # 0
    <3>1. i \in 1 .. Len(inserted)
      BY <1>1, <2>4
    <3>2. from = inserted[i] /\ SlotAt(inserted, i) = h
      BY <1>3, <2>4
    <3> QED BY <2>2, <3>1, <3>2
  <2> QED BY <2>3, <2>4
<1> HIDE DEF h
<1>6. i \in Nat
  BY <1>1
<1>7. CASE /\ Map!NextIn(inserted, h, i) = None
           /\ \A j \in i + 1 .. Len(inserted) : SlotAt(inserted, j) # h
  <2>1. ASSUME NEW j \in 1 .. Len(inserted) PROVE KeyOf(inserted[j]) # key
    <3>1. CASE j <= i
      BY <1>3, <1>6, <3>1
    <3>2. CASE j > i
      <4>1. j \in i + 1 .. Len(inserted)
        BY <1>6, <3>2
      <4> QED BY <1>4, <1>7, <4>1
    <3> QED BY <1>6, <3>1, <3>2
  <2> QED BY <1>3, <1>5, <1>7, <2>1 DEF h
<1>8. ASSUME NEW m \in i + 1 .. Len(inserted), SlotAt(inserted, m) = h,
             Map!NextIn(inserted, h, i) = inserted[m],
             \A j \in i + 1 .. m - 1 : SlotAt(inserted, j) # h
      PROVE  /\ inserted[m] \in Nodes
             /\ \A j \in 1 .. m - 1 : KeyOf(inserted[j]) # key
  <2>1. m \in 1 .. Len(inserted)
    BY <1>1, <1>6
  <2>2. ASSUME NEW j \in 1 .. m - 1 PROVE KeyOf(inserted[j]) # key
    <3>0. j \in 1 .. Len(inserted)
      BY <1>1, <2>1
    <3>1. CASE j <= i
      BY <1>3, <1>6, <3>1
    <3>2. CASE j > i
      <4>1. j \in i + 1 .. m - 1
        BY <1>6, <2>1, <3>2
      <4> QED BY <1>4, <1>8, <3>0, <4>1
    <3> QED BY <1>6, <3>1, <3>2
  <2> QED BY <1>1, <2>1, <2>2, ElementOfSeq
<1>9. \/ /\ Map!NextIn(inserted, h, i) = None
         /\ \A j \in i + 1 .. Len(inserted) : SlotAt(inserted, j) # h
      \/ \E m \in i + 1 .. Len(inserted) :
           /\ SlotAt(inserted, m) = h /\ Map!NextIn(inserted, h, i) = inserted[m]
           /\ \A j \in i + 1 .. m - 1 : SlotAt(inserted, j) # h
  BY <1>1, <1>6, NextInIs
<1>10. CASE \E m \in i + 1 .. Len(inserted) :
           /\ SlotAt(inserted, m) = h /\ Map!NextIn(inserted, h, i) = inserted[m]
           /\ \A j \in i + 1 .. m - 1 : SlotAt(inserted, j) # h
  BY <1>3, <1>5, <1>8, <1>10 DEF h
<1> QED BY <1>7, <1>9, <1>10

LEMMA NodesAreOnce ==
  ASSUME MapInductive, NEW m \in 1 .. Len(inserted)
  PROVE  Map!Without(inserted[m]) = Map!RemoveAt(inserted, m)
<1>1. {i \in 1 .. Len(inserted) : inserted[i] = inserted[m]} = {m}
  BY DEF MapInductive, EachNodeOnce
<1>2. Map!Min({m}) = m
  BY DEF Map!Min
<1> QED BY <1>1, <1>2 DEF Map!Without

LEMMA InsertKeepsMap ==
  ASSUME MapInductive, NEW e \in Nodes, Map!Insert(e)
  PROVE  MapInductive'
<1> DEFINE p0 == Map!SlotOf(Map!hcode(e))  s == inserted  t == inserted'
<1>1. /\ s \in Seq(Nodes) /\ Len(s) \in Nat /\ size = Len(s) /\ size \in Nat
      /\ ptr \in [Map!Slots \union Nodes -> Nodes \union {None}]
      /\ \A p \in Map!Slots : ptr[p] = Map!NextIn(s, p, 0)
      /\ \A i \in 1 .. Len(s) : ptr[s[i]] = Map!NextIn(s, SlotAt(s, i), i)
      /\ \A i, j \in 1 .. Len(s) : s[i] = s[j] => i = j
  BY DEF MapInductive, MapInvariant, Map!MapInvariant, Map!TypeOK, Map!ChainsAreBuckets,
         EachNodeOnce, SlotAt
<1>2. t \in Seq(Nodes) /\ Len(t) = Len(s) + 1 /\ t[1] = e
      /\ \A j \in 1 .. Len(s) : t[j + 1] = s[j]
  <2>1. t = <<e>> \o s
    BY DEF Map!Insert
  <2>2. <<e>> \in Seq(Nodes) /\ Len(<<e>>) = 1 /\ <<e>>[1] = e
    OBVIOUS
  <2>3. /\ t \in Seq(Nodes) /\ Len(t) = 1 + Len(s)
        /\ \A j \in 1 .. 1 + Len(s) : t[j] = IF j <= 1 THEN <<e>>[j] ELSE s[j - 1]
    <3> HIDE DEF t, s
    <3> QED BY <1>1, <2>1, <2>2, ConcatProperties
  <2>4. ASSUME NEW j \in 1 .. Len(s) PROVE t[j + 1] = s[j]
    <3>1. j + 1 \in 1 .. 1 + Len(s) /\ ~(j + 1 <= 1) /\ (j + 1) - 1 = j
      BY <1>1
    <3> QED BY <2>3, <3>1
  <2> QED BY <1>1, <2>2, <2>3, <2>4
<1>3. p0 \in Map!Slots /\ e # p0 /\ Nodes \cap Map!Slots = {}
  BY MapConstants
<1>4. \A i \in 1 .. Len(s) : s[i] \in Nodes /\ s[i] # e
  BY <1>1, ElementOfSeq DEF Map!Insert, Map!Contains
<1>5. ptr' = [ptr EXCEPT ![e] = ptr[p0], ![p0] = e]
  BY DEF Map!Insert
<1>6. /\ ptr' \in [Map!Slots \union Nodes -> Nodes \union {None}]
      /\ ptr'[p0] = e /\ ptr'[e] = ptr[p0]
      /\ \A x \in Map!Slots \union Nodes : x # e /\ x # p0 => ptr'[x] = ptr[x]
  BY <1>1, <1>3, <1>5
<1>7. size' = size + 1 /\ UNCHANGED <<call, key, from, answer>> /\ call = "idle"
  BY DEF Map!Insert
<1> HIDE DEF s, t
<1>8. Map!TypeOK'
  BY <1>1, <1>2, <1>6, <1>7 DEF MapInductive, MapInvariant, Map!MapInvariant, Map!TypeOK, t
<1>9. SlotAt(t, 1) = p0 /\ \A i \in 1 .. Len(s) : SlotAt(t, i + 1) = SlotAt(s, i)
  BY <1>2 DEF SlotAt
<1> HIDE DEF p0
<1>10. ASSUME NEW p \in Map!Slots PROVE ptr'[p] = Map!NextIn(t, p, 0)
  <2>1. CASE p = p0
    <3>1. 1 \in 0 + 1 .. Len(t) /\ \A j \in 0 + 1 .. 1 - 1 : FALSE
      BY <1>1, <1>2
    <3>2. Map!NextIn(t, p, 0) = t[1]
      BY <1>2, <1>9, <2>1, <3>1, NextInUnique
    <3> QED BY <1>2, <1>6, <2>1, <3>2
  <2>2. CASE p # p0
    <3>1. 0 \in 0 .. Len(s)
      BY <1>1
    <3>2. Map!NextIn(t, p, 0) = Map!NextIn(s, p, 0)
      BY <1>1, <1>2, <1>9, <2>2, <3>1, NextInBehind
    <3>3. ptr'[p] = ptr[p]
      BY <1>3, <1>6, <2>2
    <3> QED BY <1>1, <3>2, <3>3
  <2> QED BY <2>1, <2>2
<1>11. ASSUME NEW i \in 1 .. Len(t) PROVE ptr'[t[i]] = Map!NextIn(t, SlotAt(t, i), i)
  <2>1. CASE i = 1
    <3>1. 0 \in 0 .. Len(s) /\ 0 + 1 = 1
      BY <1>1
    <3>2. Map!NextIn(t, p0, 0 + 1) = Map!NextIn(s, p0, 0)
      BY <1>1, <1>2, <3>1, NextInBehind
    <3>3. ptr[p0] = Map!NextIn(s, p0, 0)
      BY <1>1, <1>3
    <3> QED BY <1>2, <1>6, <1>9, <2>1, <3>1, <3>2, <3>3
  <2>2. CASE i # 1
    <3>1. i - 1 \in 1 .. Len(s) /\ (i - 1) + 1 = i /\ i - 1 \in 0 .. Len(s)
      BY <1>1, <1>2, <2>2
    <3>2. t[i] = s[i - 1] /\ SlotAt(t, i) = SlotAt(s, i - 1)
      BY <1>2, <1>9, <3>1
    <3>3. \A p : Map!NextIn(t, p, (i - 1) + 1) = Map!NextIn(s, p, i - 1)
      BY <1>1, <1>2, <3>1, NextInBehind
    <3>4. ptr'[s[i - 1]] = ptr[s[i - 1]]
      BY <1>3, <1>4, <1>6, <3>1
    <3> QED BY <1>1, <3>1, <3>2, <3>3, <3>4
  <2> QED BY <2>1, <2>2
<1>12. Map!ChainsAreBuckets'
  BY <1>1, <1>2, <1>7, <1>10, <1>11 DEF Map!ChainsAreBuckets, SlotAt, t
<1>13. EachNodeOnce'
  <2> SUFFICES ASSUME NEW i \in 1 .. Len(t), NEW j \in 1 .. Len(t), t[i] = t[j] PROVE i = j
    BY DEF EachNodeOnce, t
  <2>1. \A k \in 1 .. Len(t) : k # 1 => k - 1 \in 1 .. Len(s) /\ t[k] = s[k - 1]
    <3> SUFFICES ASSUME NEW k \in 1 .. Len(t), k # 1
                 PROVE  k - 1 \in 1 .. Len(s) /\ t[k] = s[k - 1]
      OBVIOUS
    <3>1. k - 1 \in 1 .. Len(s) /\ (k - 1) + 1 = k
      BY <1>1, <1>2
    <3> QED BY <1>2, <3>1
  <2>2. i = 1 <=> j = 1
    BY <1>2, <1>4, <2>1
  <2>3. CASE i # 1
    <3>1. i - 1 = j - 1
      BY <1>1, <2>1, <2>2, <2>3
    <3> QED BY <1>1, <1>2, <3>1
  <2> QED BY <2>2, <2>3
<1>14. WalkIsOnChain'
  BY <1>7 DEF WalkIsOnChain, Map!Walking
<1> QED BY <1>8, <1>12, <1>13, <1>14 DEF MapInductive, MapInvariant, Map!MapInvariant

LEMMA RemoveKeepsMap ==
  ASSUME MapInductive, Map!RemoveReturns
  PROVE  MapInductive'
<1> DEFINE h == Map!SlotOf(HashOf(key))  s == inserted  t == inserted'
<1>1. /\ s \in Seq(Nodes) /\ Len(s) \in Nat /\ size = Len(s) /\ size \in Nat
      /\ ptr \in [Map!Slots \union Nodes -> Nodes \union {None}]
      /\ \A p \in Map!Slots : ptr[p] = Map!NextIn(s, p, 0)
      /\ \A i \in 1 .. Len(s) : ptr[s[i]] = Map!NextIn(s, SlotAt(s, i), i)
      /\ \A i, j \in 1 .. Len(s) : s[i] = s[j] => i = j
  BY DEF MapInductive, MapInvariant, Map!MapInvariant, Map!TypeOK, Map!ChainsAreBuckets,
         EachNodeOnce, SlotAt
<1>2. Map!Walking /\ ptr[from] # None
  BY DEF Map!RemoveReturns, Map!Walking
<1>3. PICK i \in 0 .. Len(s) :
        /\ IF i = 0 THEN from = h ELSE from = s[i] /\ SlotAt(s, i) = h
        /\ ptr[from] = Map!NextIn(s, h, i)
        /\ \E m \in i + 1 .. Len(s) :
             /\ ptr[from] = s[m] /\ s[m] \in Nodes /\ SlotAt(s, m) = h
             /\ \A j \in i + 1 .. m - 1 : SlotAt(s, j) # h
  BY <1>2, WalkSees
<1>4. PICK m \in i + 1 .. Len(s) :
        /\ ptr[from] = s[m] /\ s[m] \in Nodes /\ SlotAt(s, m) = h
        /\ \A j \in i + 1 .. m - 1 : SlotAt(s, j) # h
  BY <1>3
<1>5. i \in Nat /\ m \in 1 .. Len(s) /\ m \in Nat /\ i < m
  BY <1>1
<1>6. key \in Keys /\ h \in Map!Slots /\ Nodes \cap Map!Slots = {}
  BY <1>2, MapConstants DEF MapInductive, WalkIsOnChain
<1>7. t = Map!RemoveAt(s, m)
  BY <1>4, <1>5, NodesAreOnce DEF Map!RemoveReturns
<1>8. /\ t \in Seq(Nodes) /\ Len(t) = Len(s) - 1
      /\ \A j \in 1 .. m - 1 : t[j] = s[j]
      /\ \A j \in m .. Len(s) - 1 : t[j] = s[j + 1]
  <2> HIDE DEF s, t
  <2> QED BY <1>1, <1>5, <1>7, RemovedAt
<1>9. /\ ptr' = [ptr EXCEPT ![from] = ptr[s[m]]] /\ size' = size - 1 /\ call' = "idle"
      /\ answer' = s[m] /\ UNCHANGED <<key, from>>
  BY <1>4 DEF Map!RemoveReturns
<1>10. ptr[s[m]] = Map!NextIn(s, h, m)
  BY <1>1, <1>4, <1>5
<1> HIDE DEF s, t, h
<1>11. from \in Map!Slots \union Nodes
  <2>1. i # 0 => s[i] \in Nodes
    BY <1>1, <1>5, ElementOfSeq
  <2> QED BY <1>3, <1>6, <2>1
<1>12. /\ ptr'[from] = Map!NextIn(s, h, m)
       /\ \A x \in Map!Slots \union Nodes : x # from => ptr'[x] = ptr[x]
       /\ ptr' \in [Map!Slots \union Nodes -> Nodes \union {None}]
  BY <1>1, <1>4, <1>9, <1>10, <1>11
<1>13. Map!TypeOK'
  <2>1. size' \in Nat
    BY <1>1, <1>5, <1>9
  <2> QED BY <1>8, <1>9, <1>4, <1>12, <2>1
          DEF MapInductive, MapInvariant, Map!MapInvariant, Map!TypeOK, t
<1>21. ASSUME NEW p
       PROVE  /\ \A k \in m .. Len(s) - 1 : Map!NextIn(t, p, k) = Map!NextIn(s, p, k + 1)
              /\ \A k \in 0 .. m - 1 :
                   Map!NextIn(t, p, k) =
                     IF SlotAt(s, m) = p /\ \A j \in k + 1 .. m - 1 : SlotAt(s, j) # p
                     THEN Map!NextIn(s, p, m) ELSE Map!NextIn(s, p, k)
  <2>1. s \in Seq(Nodes) /\ m \in 1 .. Len(s)
    BY <1>1, <1>5
  <2> QED BY <1>8, <2>1, NextInRemoved
\* The pointer that is followed from place k of s is not the detached one,
\* unless k is the place where the walk has stopped.
<1>14. ASSUME NEW k \in 0 .. m - 1, NEW p \in Map!Slots, k # 0 => SlotAt(s, k) = p,
              NEW x \in Map!Slots \union Nodes, x = (IF k = 0 THEN p ELSE s[k])
       PROVE  ptr'[x] = Map!NextIn(t, p, k)
  <2>0. k \in Nat /\ Map!NextIn(s, p, k) = ptr[x]
    BY <1>1, <1>5, <1>14
  <2>1. Map!NextIn(t, p, k) = IF SlotAt(s, m) = p /\ \A j \in k + 1 .. m - 1 : SlotAt(s, j) # p
                              THEN Map!NextIn(s, p, m) ELSE Map!NextIn(s, p, k)
    BY <1>21
  <2>2. CASE SlotAt(s, m) = p /\ \A j \in k + 1 .. m - 1 : SlotAt(s, j) # p
    <3>1. p = h
      BY <1>4, <2>2
    <3>2. ~(i < k)
      <4>1. i < k => k \in i + 1 .. m - 1 /\ SlotAt(s, k) = h
        BY <1>5, <1>14, <2>0, <3>1
      <4> QED BY <1>4, <4>1
    <3>3. ~(k < i)
      <4>1. k < i => i \in k + 1 .. m - 1 /\ SlotAt(s, i) = p
        BY <1>3, <1>5, <2>0, <3>1
      <4> QED BY <2>2, <4>1
    <3>4. k = i
      BY <1>5, <2>0, <3>2, <3>3
    <3>5. x = from
      BY <1>3, <1>14, <3>1, <3>4
    <3> QED BY <1>12, <2>1, <2>2, <3>1, <3>5
  <2>3. CASE ~(SlotAt(s, m) = p /\ \A j \in k + 1 .. m - 1 : SlotAt(s, j) # p)
    <3>1. x # from
      <4>1. SUFFICES ASSUME x = from PROVE FALSE
        OBVIOUS
      <4>2. k = i /\ p = h
        <5>1. CASE k = 0
          <6>1. i = 0
            <7>1. i # 0 => i \in 1 .. Len(s) /\ s[i] \in Nodes
              BY <1>1, <1>5, ElementOfSeq
            <7> QED BY <1>3, <1>6, <1>14, <4>1, <5>1, <7>1
          <6> QED BY <1>3, <1>14, <4>1, <5>1, <6>1
        <5>2. CASE k # 0
          <6>1. k \in 1 .. Len(s) /\ s[k] \in Nodes
            BY <1>1, <1>5, <5>2, ElementOfSeq
          <6>2. i # 0
            BY <1>3, <1>6, <1>14, <4>1, <5>2, <6>1
          <6>3. i \in 1 .. Len(s)
            BY <1>5, <6>2
          <6>4. s[i] = s[k]
            BY <1>3, <1>14, <4>1, <5>2, <6>2
          <6>5. i = k
            BY <1>1, <6>1, <6>3, <6>4
          <6> QED BY <1>3, <1>14, <5>2, <6>5
        <5> QED BY <5>1, <5>2
      <4> QED BY <1>4, <2>3, <4>2
    <3> QED BY <1>12, <2>0, <2>1, <2>3, <3>1
  <2> QED BY <2>2, <2>3
<1>15. ASSUME NEW p \in Map!Slots PROVE ptr'[p] = Map!NextIn(t, p, 0)
  <2>1. 0 \in 0 .. m - 1
    BY <1>5
  <2> QED BY <1>14, <2>1
<1>16. ASSUME NEW k \in 1 .. Len(t) PROVE ptr'[t[k]] = Map!NextIn(t, SlotAt(t, k), k)
  <2>1. CASE k < m
    <3>1. k \in 0 .. m - 1 /\ k # 0 /\ k \in 1 .. m - 1 /\ k \in 1 .. Len(s)
      BY <1>5, <1>1, <2>1
    <3>2. t[k] = s[k] /\ SlotAt(t, k) = SlotAt(s, k) /\ s[k] \in Nodes
      BY <1>1, <1>8, <3>1, ElementOfSeq DEF SlotAt
    <3>3. SlotAt(s, k) \in Map!Slots
      BY <3>2, MapConstants DEF SlotAt
    <3> QED BY <1>14, <3>1, <3>2, <3>3
  <2>2. CASE ~(k < m)
    <3>1. k \in m .. Len(s) - 1 /\ k + 1 \in 1 .. Len(s) /\ k + 1 > m
      BY <1>1, <1>5, <1>8, <2>2
    <3>2. t[k] = s[k + 1] /\ SlotAt(t, k) = SlotAt(s, k + 1) /\ s[k + 1] \in Nodes
      BY <1>1, <1>8, <3>1, ElementOfSeq DEF SlotAt
    <3>3. Map!NextIn(t, SlotAt(t, k), k) = Map!NextIn(s, SlotAt(t, k), k + 1)
      BY <1>21, <3>1
    <3>4. s[k + 1] # from
      <4>1. i = 0 => from \in Map!Slots
        BY <1>3, <1>6
      <4>2. i # 0 => i \in 1 .. Len(s) /\ from = s[i] /\ i # k + 1
        BY <1>3, <1>5, <3>1
      <4> QED BY <1>1, <1>6, <3>1, <3>2, <4>1, <4>2
    <3>5. ptr'[s[k + 1]] = ptr[s[k + 1]]
      BY <1>12, <3>2, <3>4
    <3> QED BY <1>1, <3>1, <3>2, <3>3, <3>5
  <2> QED BY <2>1, <2>2
<1>17. Map!ChainsAreBuckets'
  <2>1. size' = Len(t)
    BY <1>1, <1>8, <1>9
  <2> QED BY <1>15, <1>16, <2>1 DEF Map!ChainsAreBuckets, SlotAt, t
<1>18. EachNodeOnce'
  <2> SUFFICES ASSUME NEW j \in 1 .. Len(t), NEW k \in 1 .. Len(t), t[j] = t[k] PROVE j = k
    BY DEF EachNodeOnce, t
  <2> DEFINE old(x) == IF x < m THEN x ELSE x + 1
  <2>1. ASSUME NEW x \in 1 .. Len(t) PROVE old(x) \in 1 .. Len(s) /\ t[x] = s[old(x)]
    <3>1. CASE x < m
      <4>1. x \in 1 .. m - 1
        BY <1>5, <3>1
      <4> QED BY <1>1, <1>5, <1>8, <3>1, <4>1
    <3>2. CASE ~(x < m)
      <4>1. x \in m .. Len(s) - 1
        BY <1>1, <1>5, <1>8, <3>2
      <4> QED BY <1>1, <1>5, <1>8, <3>2, <4>1
    <3> QED BY <3>1, <3>2
  <2>2. old(j) = old(k)
    BY <1>1, <2>1
  <2> QED BY <1>5, <2>2
<1>19. WalkIsOnChain'
  BY <1>9 DEF WalkIsOnChain, Map!Walking
<1> QED BY <1>13, <1>17, <1>18, <1>19 DEF MapInductive, MapInvariant, Map!MapInvariant

\* A step that does not change the chains.
LEMMA ChainsStay ==
  ASSUME MapInductive, UNCHANGED <<ptr, size, inserted>>,
         call' \in {"idle", "lookup", "remove", "destroyed"}, key' \in Keys \union {None},
         from' \in Map!Slots \union Nodes \union {None}, answer' \in Nodes \union {None}
  PROVE  Map!MapInvariant' /\ EachNodeOnce'
BY DEF MapInductive, MapInvariant, Map!MapInvariant, Map!TypeOK, Map!ChainsAreBuckets, EachNodeOnce

LEMMA WalkKeepsMap ==
  ASSUME MapInductive, Map!WalkOn
  PROVE  MapInductive'
<1> DEFINE h == Map!SlotOf(HashOf(key))
<1>1. /\ Map!Walking /\ ptr[from] # None /\ from' = ptr[from]
      /\ UNCHANGED <<ptr, size, call, key, answer, inserted>>
  BY DEF Map!WalkOn
<1>2. inserted \in Seq(Nodes) /\ Len(inserted) \in Nat
  BY DEF MapInductive, MapInvariant, Map!MapInvariant, Map!TypeOK
<1>3. PICK m \in 1 .. Len(inserted) :
        /\ ptr[from] = inserted[m] /\ inserted[m] \in Nodes /\ SlotAt(inserted, m) = h
        /\ \A j \in 1 .. m - 1 : KeyOf(inserted[j]) # key
  <2>1. PICK i \in 0 .. Len(inserted) : \E m \in i + 1 .. Len(inserted) :
          /\ ptr[from] = inserted[m] /\ inserted[m] \in Nodes /\ SlotAt(inserted, m) = h
          /\ \A j \in 1 .. m - 1 : KeyOf(inserted[j]) # key
    BY <1>1, WalkSees
  <2>2. \A m \in i + 1 .. Len(inserted) : m \in 1 .. Len(inserted)
    BY <1>2
  <2> QED BY <2>1, <2>2
<1>4. KeyOf(inserted[m]) # key
  BY <1>3 DEF Map!WalkOn, Map!Matches, Map!hcode
<1>5. m \in 0 .. Len(inserted) /\ m # 0
  BY <1>2
<1>6. \A j \in 1 .. m : KeyOf(inserted[j]) # key
  BY <1>3, <1>4, <1>5
<1>7. key \in Keys
  BY <1>1 DEF MapInductive, WalkIsOnChain
<1>8. WalkIsOnChain'
  BY <1>1, <1>3, <1>5, <1>6, <1>7 DEF WalkIsOnChain, SlotAt
<1>9. Map!MapInvariant' /\ EachNodeOnce'
  BY <1>1, <1>3, ChainsStay DEF MapInductive, MapInvariant, Map!MapInvariant, Map!TypeOK
<1> QED BY <1>8, <1>9 DEF MapInductive, MapInvariant

LEMMA EnterKeepsMap ==
  ASSUME MapInductive, NEW k \in Keys, NEW op \in {"lookup", "remove"}, Map!Enter(op, k)
  PROVE  MapInductive'
<1>1. /\ call' = op /\ key' = k /\ from' = Map!SlotOf(HashOf(k))
      /\ UNCHANGED <<ptr, size, answer, inserted>>
  BY DEF Map!Enter
<1>2. Map!SlotOf(HashOf(k)) \in Map!Slots
  BY MapConstants
<1>3. Map!MapInvariant' /\ EachNodeOnce'
  BY <1>1, <1>2, ChainsStay DEF MapInductive, MapInvariant, Map!MapInvariant, Map!TypeOK
<1>4. Len(inserted) \in Nat
  BY DEF MapInductive, MapInvariant, Map!MapInvariant, Map!TypeOK
<1>5. 0 \in 0 .. Len(inserted') /\ \A j \in 1 .. 0 : FALSE
  BY <1>1, <1>4
<1>6. WalkIsOnChain'
  BY <1>1, <1>5 DEF WalkIsOnChain
<1> QED BY <1>3, <1>6 DEF MapInductive, MapInvariant

LEMMA NextMapInductive == MapInductive /\ [AnyNext]_allVars => MapInductive'
<1> SUFFICES ASSUME MapInductive, Map!Next \/ UNCHANGED mapVars PROVE MapInductive'
  BY MapSteps
<1>1. ASSUME UNCHANGED mapVars PROVE MapInductive'
  <2>1. UNCHANGED <<ptr, size, call, key, from, answer, inserted>>
    BY <1>1 DEF mapVars
  <2>2. Map!MapInvariant' /\ EachNodeOnce'
    BY <2>1, ChainsStay DEF MapInductive, MapInvariant, Map!MapInvariant, Map!TypeOK
  <2>3. WalkIsOnChain'
    BY <2>1 DEF MapInductive, WalkIsOnChain, Map!Walking
  <2> QED BY <2>2, <2>3 DEF MapInductive, MapInvariant
<1>2. ASSUME Map!NotFound \/ Map!LookupReturns \/ Map!Destroy PROVE MapInductive'
  <2>1. /\ UNCHANGED <<ptr, size, key, from, inserted>>
        /\ call' \in {"idle", "destroyed"}
        /\ answer' \in {None, answer} \/ (Map!Walking /\ answer' = ptr[from])
    BY <1>2 DEF Map!NotFound, Map!LookupReturns, Map!Destroy, Map!Walking
  <2>2. answer' \in Nodes \union {None}
    <3>1. Map!Walking => ptr[from] \in Nodes \union {None}
      BY WalkSees
    <3>2. answer \in Nodes \union {None}
      BY DEF MapInductive, MapInvariant, Map!MapInvariant, Map!TypeOK
    <3> QED BY <2>1, <3>1, <3>2
  <2>3. Map!MapInvariant' /\ EachNodeOnce'
    BY <2>1, <2>2, ChainsStay DEF MapInductive, MapInvariant, Map!MapInvariant, Map!TypeOK
  <2>4. WalkIsOnChain'
    BY <2>1 DEF WalkIsOnChain, Map!Walking
  <2> QED BY <2>3, <2>4 DEF MapInductive, MapInvariant
<1> QED BY <1>1, <1>2, InsertKeepsMap, RemoveKeepsMap, WalkKeepsMap, EnterKeepsMap DEF Map!Next

LEMMA InitMapInductive == AnyInit => MapInductive
<1> SUFFICES ASSUME Map!Init PROVE MapInductive
  BY DEF AnyInit
<1>1. inserted = <<>> /\ inserted \in Seq(Nodes) /\ Len(inserted) = 0 /\ 1 .. 0 = {}
  BY EmptySeq DEF Map!Init
<1>2. /\ ptr \in [Map!Slots \union Nodes -> Nodes \union {None}]
      /\ \A p \in Map!Slots : ptr[p] = None
  BY DEF Map!Init
<1>3. ASSUME NEW p PROVE Map!NextIn(inserted, p, 0) = None
  <2>1. \A j \in 0 + 1 .. Len(inserted) : FALSE
    BY <1>1
  <2> QED BY <1>1, <2>1, NextInUnique
<1>4. Map!TypeOK
  BY <1>1, <1>2 DEF Map!Init, Map!TypeOK
<1>5. Map!ChainsAreBuckets
  BY <1>1, <1>2, <1>3 DEF Map!Init, Map!ChainsAreBuckets
<1>6. WalkIsOnChain /\ EachNodeOnce
  BY <1>1 DEF Map!Init, WalkIsOnChain, Map!Walking, EachNodeOnce
<1> QED BY <1>4, <1>5, <1>6 DEF MapInductive, MapInvariant, Map!MapInvariant

LEMMA MapInductiveHolds == FairSpec => []MapInductive
BY InitMapInductive, NextMapInductive, PTL DEF FairSpec

\* Each chain holds exactly the nodes of the map whose code falls into its
\* slot, latest first, and size counts them all (hashmap.cc:15, 39).
THEOREM ChainsAreTheBuckets == FairSpec => []MapInvariant
<1>1. MapInductive => MapInvariant
  BY DEF MapInductive
<1> QED BY <1>1, MapInductiveHolds, PTL
-----------------------------------------------------------------------------
\* The walk ends where a map with shadowing finds the key.
LEMMA FoundIs ==
  ASSUME inserted \in Seq(Nodes)
  PROVE  /\ (\A j \in 1 .. Len(inserted) : KeyOf(inserted[j]) # key)
              => Map!Promised!Found(key) = None /\ Map!Promised!Places(key) = {}
         /\ \A m \in 1 .. Len(inserted) :
              /\ KeyOf(inserted[m]) = key
              /\ \A j \in 1 .. m - 1 : KeyOf(inserted[j]) # key
              => /\ Map!Promised!Places(key) # {}
                 /\ Map!Promised!Min(Map!Promised!Places(key)) = m
                 /\ Map!Promised!Found(key) = inserted[m]
<1>0. Len(inserted) \in Nat
  OBVIOUS
<1>1. Map!Promised!Places(key) = {j \in 1 .. Len(inserted) : KeyOf(inserted[j]) = key}
  BY DEF Map!Promised!Places
<1>2. ASSUME NEW m \in 1 .. Len(inserted), KeyOf(inserted[m]) = key,
             \A j \in 1 .. m - 1 : KeyOf(inserted[j]) # key
      PROVE  Map!Promised!Places(key) # {} /\ Map!Promised!Min(Map!Promised!Places(key)) = m
  <2>1. m \in Map!Promised!Places(key)
    BY <1>1, <1>2
  <2>2. \A j \in Map!Promised!Places(key) : j \in Int /\ m <= j
    BY <1>0, <1>1, <1>2
  <2> DEFINE least == Map!Promised!Min(Map!Promised!Places(key))
  <2>3. least \in Map!Promised!Places(key) /\ \A y \in Map!Promised!Places(key) : least <= y
    BY <2>1, <2>2 DEF Map!Promised!Min
  <2> HIDE DEF least
  <2>4. least = m
    BY <1>0, <2>1, <2>2, <2>3
  <2> QED BY <2>1, <2>4 DEF least
<1>3. (\A j \in 1 .. Len(inserted) : KeyOf(inserted[j]) # key) => Map!Promised!Places(key) = {}
  BY <1>1
<1> QED BY <1>2, <1>3 DEF Map!Promised!Found

LEMMA WalkAnswers ==
  ASSUME MapInductive, Map!Walking
  PROVE  /\ ptr[from] = None => Map!Promised!Found(key) = None /\ Map!Promised!Places(key) = {}
         /\ ptr[from] # None /\ Map!Matches(ptr[from]) =>
              /\ Map!Promised!Found(key) = ptr[from] /\ Map!Promised!Places(key) # {}
              /\ Map!Without(ptr[from]) =
                   Map!RemoveAt(inserted, Map!Promised!Min(Map!Promised!Places(key)))
<1>1. inserted \in Seq(Nodes) /\ Len(inserted) \in Nat
  BY DEF MapInductive, MapInvariant, Map!MapInvariant, Map!TypeOK
<1>2. \A m \in 1 .. Len(inserted) : inserted[m] # None
  BY <1>1, ElementOfSeq, MapConstants
<1>3. CASE ptr[from] = None
  <2>1. \A j \in 1 .. Len(inserted) : KeyOf(inserted[j]) # key
    <3>1. PICK i \in 0 .. Len(inserted) :
            \/ \A j \in 1 .. Len(inserted) : KeyOf(inserted[j]) # key
            \/ \E m \in i + 1 .. Len(inserted) : ptr[from] = inserted[m]
      BY WalkSees
    <3>2. \A m \in i + 1 .. Len(inserted) : m \in 1 .. Len(inserted)
      BY <1>1
    <3> QED BY <1>2, <1>3, <3>1, <3>2
  <2> QED BY <1>1, <1>3, <2>1, FoundIs
<1>4. CASE ptr[from] # None
  <2>1. PICK i \in 0 .. Len(inserted) : \E m \in i + 1 .. Len(inserted) :
          ptr[from] = inserted[m] /\ \A j \in 1 .. m - 1 : KeyOf(inserted[j]) # key
    BY <1>4, WalkSees
  <2>2. PICK m \in 1 .. Len(inserted) :
          ptr[from] = inserted[m] /\ \A j \in 1 .. m - 1 : KeyOf(inserted[j]) # key
    <3>1. \A m \in i + 1 .. Len(inserted) : m \in 1 .. Len(inserted)
      BY <1>1
    <3> QED BY <2>1, <3>1
  <2>3. Map!Matches(ptr[from]) => KeyOf(inserted[m]) = key
    BY <2>2 DEF Map!Matches
  <2> QED BY <1>1, <1>4, <2>2, <2>3, FoundIs, NodesAreOnce
<1> QED BY <1>3, <1>4

LEMMA MapStepShadows ==
  MapInductive /\ [AnyNext]_allVars => [Map!Promised!Next]_(Map!Promised!vars)
<1> USE DEF Map!Promised!vars
<1> SUFFICES ASSUME MapInductive, Map!Next \/ UNCHANGED mapVars
             PROVE  Map!Promised!Next \/ UNCHANGED <<inserted, call, key, answer>>
  BY MapSteps
<1>1. CASE UNCHANGED mapVars
  BY <1>1 DEF mapVars
<1>2. ASSUME NEW e \in Nodes, Map!Insert(e) PROVE Map!Promised!Insert(e)
  BY <1>2 DEF Map!Insert, Map!Promised!Insert, Map!Contains, Map!Promised!Contains
<1>3. ASSUME NEW k \in Keys, NEW op, Map!Enter(op, k) PROVE Map!Promised!Ask(op, k)
  BY <1>3 DEF Map!Enter, Map!Promised!Ask
<1>4. CASE Map!WalkOn
  BY <1>4 DEF Map!WalkOn
<1>5. ASSUME Map!NotFound PROVE Map!Promised!Lookup \/ Map!Promised!Erase
  <2>1. Map!Promised!Return /\ UNCHANGED inserted
    BY <1>5, WalkAnswers DEF Map!NotFound, Map!Promised!Return
  <2>2. Map!Promised!Places(key) = {}
    BY <1>5, WalkAnswers DEF Map!NotFound
  <2> QED BY <1>5, <2>1, <2>2 DEF Map!NotFound, Map!Walking, Map!Promised!Lookup, Map!Promised!Erase
<1>6. ASSUME Map!LookupReturns PROVE Map!Promised!Lookup
  BY <1>6, WalkAnswers
     DEF Map!LookupReturns, Map!Promised!Lookup, Map!Promised!Return, Map!Walking
<1>7. ASSUME Map!RemoveReturns PROVE Map!Promised!Erase
  BY <1>7, WalkAnswers
     DEF Map!RemoveReturns, Map!Promised!Erase, Map!Promised!Return, Map!Walking,
         Map!RemoveAt, Map!Promised!RemoveAt
<1>8. ASSUME Map!Destroy PROVE Map!Promised!Destroy
  BY <1>8 DEF Map!Destroy, Map!Promised!Destroy
<1> QED BY <1>1, <1>2, <1>3, <1>4, <1>5, <1>6, <1>7, <1>8 DEF Map!Next, Map!Promised!Next

\* lookup and remove answer with the entry inserted last under the key, hash
\* collisions notwithstanding: the chains implement a map with shadowing
\* (hashmap.cc:29).
THEOREM MapShadows == FairSpec => ImplementsShadowMap
<1>1. AnyInit => Map!Promised!Init
  BY DEF AnyInit, Map!Init, Map!Promised!Init
<1> QED BY <1>1, MapStepShadows, MapInductiveHolds, PTL
        DEF FairSpec, ImplementsShadowMap, Map!ImplementsShadowMap, Map!Promised!Spec

-----------------------------------------------------------------------------
(* GarbageCollector *)

\* What the program can still use: roots and references never leave it.
Survivors == allocated \ Heap!Doomed
NothingDangles ==
  /\ \A i \in 1 .. Len(roots) : roots[i] \in Survivors
  /\ \A o \in Survivors : \A i \in 1 .. Len(references[o]) : references[o][i] \in Survivors

\* A set that holds the roots and is closed under references.
Closed(S) ==
  /\ \A i \in 1 .. Len(roots) : roots[i] \in S
  /\ \A o \in S \cap allocated : \A i \in 1 .. Len(references[o]) : references[o][i] \in S

OnlyReachableIsMarked ==
  phase = "mark" =>
    \A S \in SUBSET Objects : Closed(S) => \A o \in Objects : marked[o] => o \in S

\* Where the marks and the loops of each phase are.
PhasesAreApart ==
  /\ phase = "mark" => objects = allocated /\ \A o \in Objects : marked[o] => o \in allocated
  /\ phase = "sweep" => \A o \in Objects : marked[o] => o \in todo
  /\ phase # "sweep" => todo = {}
  /\ phase # "mark" => rootIndex = 0 /\ stack = <<>>
  /\ \A i \in 1 .. Len(stack) :
       marked[stack[i].obj] /\ stack[i].next <= Len(references[stack[i].obj])

HeapInductive == HeapInvariant /\ NothingDangles /\ OnlyReachableIsMarked /\ PhasesAreApart

\* What the actions of the collector do to each object.
LEMMA HeapFacts ==
  ASSUME HeapInductive
  PROVE  /\ objects \subseteq allocated /\ allocated \subseteq Objects
         /\ roots \in Seq(Objects) /\ Len(roots) \in Nat
         /\ \A i \in 1 .. Len(roots) : roots[i] \in Objects
         /\ references \in [Objects -> Seq(Objects)]
         /\ \A o \in Objects : Len(references[o]) \in Nat
         /\ \A o \in Objects : \A i \in 1 .. Len(references[o]) : references[o][i] \in Objects
         /\ marked \in [Objects -> BOOLEAN]
         /\ stack \in Seq([obj : Objects, next : Nat]) /\ Len(stack) \in Nat
         /\ \A i \in 1 .. Len(stack) : stack[i].obj \in Objects /\ stack[i].next \in Nat
<1>1. Heap!TypeOK
  BY DEF HeapInductive, HeapInvariant, Heap!HeapInvariant
<1>2. \A i \in 1 .. Len(roots) : roots[i] \in Objects
  BY <1>1, ElementOfSeq DEF Heap!TypeOK
<1>3. \A o \in Objects : \A i \in 1 .. Len(references[o]) : references[o][i] \in Objects
  BY <1>1, ElementOfSeq DEF Heap!TypeOK
<1>4. \A i \in 1 .. Len(stack) : stack[i] \in [obj : Objects, next : Nat]
  BY <1>1, ElementOfSeq DEF Heap!TypeOK
<1>5. Len(roots) \in Nat /\ Len(stack) \in Nat /\ \A o \in Objects : Len(references[o]) \in Nat
  BY <1>1 DEF Heap!TypeOK
<1> QED BY <1>1, <1>2, <1>3, <1>4, <1>5 DEF Heap!TypeOK

\* Between collections nothing is marked and no loop is under way.
LEMMA MutatorKeepsHeap ==
  ASSUME HeapInductive, phase = "idle",
         UNCHANGED <<phase, rootIndex, stack, todo>>,
         objects' \subseteq allocated', allocated' \subseteq Objects,
         roots' \in Seq(allocated'),
         references' \in [Objects -> Seq(Objects)],
         \A o \in allocated' : \A i \in 1 .. Len(references'[o]) : references'[o][i] \in allocated',
         marked' \in [Objects -> BOOLEAN], \A o \in Objects : ~marked'[o]
  PROVE  HeapInductive'
<1>1. rootIndex = 0 /\ stack = <<>> /\ todo = {} /\ Len(stack) = 0 /\ 1 .. Len(stack) = {}
      /\ stack \in Seq([obj : Objects, next : Nat])
  <2>1. rootIndex = 0 /\ stack = <<>> /\ todo = {}
    BY DEF HeapInductive, PhasesAreApart
  <2> QED BY <2>1, EmptySeq
<1>2. roots' \in Seq(Objects) /\ Len(roots') \in Nat
      /\ \A i \in 1 .. Len(roots') : roots'[i] \in allocated'
  BY SeqMonotonic, ElementOfSeq
<1>3. Heap!TypeOK'
  BY <1>1, <1>2 DEF HeapInductive, HeapInvariant, Heap!HeapInvariant, Heap!TypeOK
<1>4. Heap!NothingIsMissed' /\ Heap!NoMarkSurvives'
  BY DEF Heap!NothingIsMissed, Heap!NoMarkSurvives
<1>5. NothingDangles'
  <2>1. Survivors' = allocated'
    BY DEF Survivors, Heap!Doomed
  <2> QED BY <1>2, <2>1 DEF NothingDangles
<1>6. OnlyReachableIsMarked' /\ PhasesAreApart'
  BY <1>1 DEF OnlyReachableIsMarked, PhasesAreApart
<1> QED BY <1>3, <1>4, <1>5, <1>6 DEF HeapInductive, HeapInvariant, Heap!HeapInvariant

LEMMA IdleFacts ==
  ASSUME HeapInductive, phase = "idle"
  PROVE  /\ \A o \in Objects : ~marked[o]
         /\ roots \in Seq(allocated)
         /\ \A o \in allocated : \A i \in 1 .. Len(references[o]) : references[o][i] \in allocated
<1>1. Survivors = allocated
  BY DEF Survivors, Heap!Doomed
<1>2. \A i \in 1 .. Len(roots) : roots[i] \in allocated
  BY <1>1 DEF HeapInductive, NothingDangles
<1>3. roots \in Seq(allocated)
  <2>1. roots \in [1 .. Len(roots) -> allocated] /\ Len(roots) \in Nat
    BY <1>2, HeapFacts, LenProperties
  <2> QED BY <2>1, SeqDef
<1>4. \A o \in Objects : ~marked[o]
  BY DEF HeapInductive, HeapInvariant, Heap!HeapInvariant, Heap!NoMarkSurvives
<1> QED BY <1>1, <1>3, <1>4 DEF HeapInductive, NothingDangles

LEMMA MutatorStep ==
  ASSUME HeapInductive, Heap!Mutator
  PROVE  HeapInductive'
<1> USE DEF Heap!collectorVars
<1>1. ASSUME NEW o \in Objects, Heap!New(o) PROVE HeapInductive'
  <2>1. /\ phase = "idle" /\ o \notin allocated /\ allocated' = allocated \union {o}
        /\ references' = [references EXCEPT ![o] = <<>>]
        /\ marked' = [marked EXCEPT ![o] = FALSE]
        /\ UNCHANGED <<objects, roots, phase, rootIndex, stack, todo>>
    BY <1>1 DEF Heap!New
  <2>2. roots' \in Seq(allocated')
    BY <2>1, IdleFacts, SeqMonotonic
  <2>3. references' \in [Objects -> Seq(Objects)]
    BY <2>1, HeapFacts, EmptySeq
  <2>4. \A p \in allocated' : \A i \in 1 .. Len(references'[p]) : references'[p][i] \in allocated'
    <3> SUFFICES ASSUME NEW p \in allocated', NEW i \in 1 .. Len(references'[p])
                 PROVE  references'[p][i] \in allocated'
      OBVIOUS
    <3>1. CASE p = o
      <4>1. references'[p] = <<>> /\ Len(<<>>) = 0
        BY <2>1, <3>1, HeapFacts, EmptySeq
      <4> QED BY <4>1
    <3>2. CASE p # o
      <4>1. p \in allocated /\ p \in Objects /\ references'[p] = references[p]
        BY <2>1, <3>2, HeapFacts
      <4> QED BY <2>1, <4>1, IdleFacts
    <3> QED BY <3>1, <3>2
  <2>5. marked' \in [Objects -> BOOLEAN] /\ \A p \in Objects : ~marked'[p]
    BY <2>1, IdleFacts, HeapFacts
  <2> QED BY <2>1, <2>2, <2>3, <2>4, <2>5, HeapFacts, MutatorKeepsHeap
<1>2. ASSUME NEW o \in Objects, Heap!track(o) PROVE HeapInductive'
  <2>1. /\ phase = "idle" /\ o \in allocated /\ objects' = objects \union {o}
        /\ UNCHANGED <<allocated, roots, references, marked, phase, rootIndex, stack, todo>>
    BY <1>2 DEF Heap!track
  <2> QED BY <2>1, IdleFacts, HeapFacts, MutatorKeepsHeap
<1>3. ASSUME NEW o \in Objects, Heap!addRoot(o) PROVE HeapInductive'
  <2>1. /\ phase = "idle" /\ o \in allocated /\ roots' = Append(roots, o)
        /\ UNCHANGED <<allocated, objects, references, marked, phase, rootIndex, stack, todo>>
    BY <1>3 DEF Heap!addRoot
  <2>2. roots' \in Seq(allocated)
    BY <2>1, IdleFacts, AppendProperties
  <2> QED BY <2>1, <2>2, IdleFacts, HeapFacts, MutatorKeepsHeap
<1>4. ASSUME NEW o \in Objects, Heap!DropReferences(o) PROVE HeapInductive'
  <2>1. /\ phase = "idle" /\ o \in allocated
        /\ references' = [references EXCEPT ![o] = <<>>]
        /\ UNCHANGED <<allocated, objects, roots, marked, phase, rootIndex, stack, todo>>
    BY <1>4 DEF Heap!DropReferences
  <2>2. references' \in [Objects -> Seq(Objects)]
    BY <2>1, HeapFacts, EmptySeq
  <2>3. \A p \in allocated : \A i \in 1 .. Len(references'[p]) : references'[p][i] \in allocated
    <3> SUFFICES ASSUME NEW p \in allocated, NEW i \in 1 .. Len(references'[p])
                 PROVE  references'[p][i] \in allocated
      OBVIOUS
    <3>1. CASE p = o
      <4>1. references'[p] = <<>> /\ Len(<<>>) = 0
        BY <2>1, <3>1, HeapFacts, EmptySeq
      <4> QED BY <4>1
    <3>2. CASE p # o
      <4>1. references'[p] = references[p]
        BY <2>1, <3>2, HeapFacts
      <4> QED BY <2>1, <4>1, IdleFacts
    <3> QED BY <3>1, <3>2
  <2> QED BY <2>1, <2>2, <2>3, IdleFacts, HeapFacts, MutatorKeepsHeap
<1>5. ASSUME NEW o \in Objects, NEW p \in Objects, Heap!AddReference(o, p) PROVE HeapInductive'
  <2>1. /\ phase = "idle" /\ o \in allocated /\ p \in allocated
        /\ references' = [references EXCEPT ![o] = Append(references[o], p)]
        /\ UNCHANGED <<allocated, objects, roots, marked, phase, rootIndex, stack, todo>>
    BY <1>5 DEF Heap!AddReference
  <2>2. references[o] \in Seq(Objects)
    BY HeapFacts
  <2>3. /\ Append(references[o], p) \in Seq(Objects)
        /\ Len(Append(references[o], p)) = Len(references[o]) + 1
        /\ \A i \in 1 .. Len(references[o]) : Append(references[o], p)[i] = references[o][i]
        /\ Append(references[o], p)[Len(references[o]) + 1] = p
    BY <2>2, AppendProperties
  <2>4. references' \in [Objects -> Seq(Objects)]
    BY <2>1, <2>3, HeapFacts
  <2>5. \A q \in allocated : \A i \in 1 .. Len(references'[q]) : references'[q][i] \in allocated
    <3> SUFFICES ASSUME NEW q \in allocated, NEW i \in 1 .. Len(references'[q])
                 PROVE  references'[q][i] \in allocated
      OBVIOUS
    <3>1. CASE q = o
      <4>1. references'[q] = Append(references[o], p) /\ Len(references[o]) \in Nat
        BY <2>1, <3>1, HeapFacts
      <4>2. i \in 1 .. Len(references[o]) \/ i = Len(references[o]) + 1
        BY <2>3, <4>1
      <4> QED BY <2>1, <2>3, <4>1, <4>2, IdleFacts
    <3>2. CASE q # o
      <4>1. references'[q] = references[q]
        BY <2>1, <3>2, HeapFacts
      <4> QED BY <2>1, <4>1, IdleFacts
    <3> QED BY <3>1, <3>2
  <2> QED BY <2>1, <2>4, <2>5, IdleFacts, HeapFacts, MutatorKeepsHeap
<1>6. ASSUME Heap!ClearRoots PROVE HeapInductive'
  <2>1. /\ phase = "idle" /\ roots' = <<>>
        /\ UNCHANGED <<allocated, objects, references, marked, phase, rootIndex, stack, todo>>
    BY <1>6 DEF Heap!ClearRoots
  <2>2. roots' \in Seq(allocated)
    BY <2>1, EmptySeq
  <2> QED BY <2>1, <2>2, IdleFacts, HeapFacts, MutatorKeepsHeap
<1> QED BY <1>1, <1>2, <1>3, <1>4, <1>5, <1>6 DEF Heap!Mutator

Frames == [obj : Objects, next : Nat]

LEMMA FrontIs ==
  ASSUME NEW S, NEW s \in Seq(S), s # <<>>
  PROVE  /\ Heap!Front(s) \in Seq(S) /\ Len(Heap!Front(s)) = Len(s) - 1
         /\ \A i \in 1 .. Len(s) - 1 : Heap!Front(s)[i] = s[i]
         /\ Heap!Last(s) = s[Len(s)] /\ Heap!Last(s) \in S
         /\ Len(s) \in Nat \ {0}
<1>1. Len(s) \in Nat /\ Len(s) # 0
  BY LenProperties
<1>2. \A i \in 1 .. Len(s) - 1 : s[i] \in S
  BY <1>1, ElementOfSeq
<1> DEFINE front == SubSeq(s, 1, Len(s) - 1)
<1>3. /\ front \in Seq(S)
      /\ Len(front) = IF 1 <= Len(s) - 1 THEN (Len(s) - 1) - 1 + 1 ELSE 0
      /\ \A i \in 1 .. (Len(s) - 1) - 1 + 1 : front[i] = s[1 + i - 1]
  BY <1>1, <1>2, SubSeqProperties
<1>4. s[Len(s)] \in S
  BY <1>1, ElementOfSeq
<1> HIDE DEF front
<1>5. front \in Seq(S) /\ Len(front) = Len(s) - 1 /\ \A i \in 1 .. Len(s) - 1 : front[i] = s[i]
  <2>1. \A i \in 1 .. Len(s) - 1 : i \in 1 .. (Len(s) - 1) - 1 + 1 /\ 1 + i - 1 = i
    BY <1>1
  <2>2. Len(front) = Len(s) - 1
    <3>1. ASSUME NEW l \in Nat, l # 0, NEW k, k = IF 1 <= l - 1 THEN (l - 1) - 1 + 1 ELSE 0
          PROVE  k = l - 1
      BY <3>1
    <3> QED BY <1>1, <1>3, <3>1
  <2>3. \A i \in 1 .. Len(s) - 1 : front[i] = s[i]
    BY <1>3, <2>1
  <2> QED BY <1>3, <2>2, <2>3
<1>6. Heap!Front(s) = front /\ Heap!Last(s) = s[Len(s)]
  BY DEF Heap!Front, Heap!Last, front
<1> QED BY <1>1, <1>4, <1>5, <1>6

\* What the search keeps to be complete, as facts about the frames of a stack.
LEMMA SearchFacts ==
  ASSUME HeapInductive, phase = "mark"
  PROVE  /\ \A i \in 1 .. rootIndex : marked[roots[i]]
         /\ rootIndex \in 0 .. Len(roots)
         /\ \A o \in Objects : marked[o] =>
              \A i \in 1 .. Len(references[o]) :
                \/ marked[references[o][i]]
                \/ \E k \in 1 .. Len(stack) : stack[k].obj = o /\ stack[k].next < i
         /\ \A i, j \in 1 .. Len(stack) : stack[i].obj = stack[j].obj => i = j
         /\ \A i \in 1 .. Len(stack) :
              marked[stack[i].obj] /\ stack[i].next <= Len(references[stack[i].obj])
         /\ \A S \in SUBSET Objects : Closed(S) => \A o \in Objects : marked[o] => o \in S
         /\ objects = allocated /\ todo = {}
         /\ \A o \in Objects : marked[o] => o \in allocated
         /\ \A i \in 1 .. Len(roots) : roots[i] \in allocated
         /\ \A o \in allocated : \A i \in 1 .. Len(references[o]) : references[o][i] \in allocated
<1>1. Survivors = allocated
  BY DEF Survivors, Heap!Doomed
<1>2. DOMAIN stack = 1 .. Len(stack)
  BY HeapFacts
<1>3. \A o, i : (\E f \in Heap!Range(stack) : f.obj = o /\ f.next < i) =>
                \E k \in 1 .. Len(stack) : stack[k].obj = o /\ stack[k].next < i
  BY <1>2 DEF Heap!Range
<1>4. Heap!NothingIsMissed /\ Heap!TypeOK
  BY DEF HeapInductive, HeapInvariant, Heap!HeapInvariant
<1>5. \A o \in Objects : marked[o] =>
        \A i \in 1 .. Len(references[o]) :
          \/ marked[references[o][i]]
          \/ \E k \in 1 .. Len(stack) : stack[k].obj = o /\ stack[k].next < i
  BY <1>3, <1>4 DEF Heap!NothingIsMissed
<1>6. rootIndex \in 0 .. Len(roots)
  BY <1>4 DEF Heap!TypeOK
<1>7. /\ \A i \in 1 .. rootIndex : marked[roots[i]]
      /\ \A i, j \in 1 .. Len(stack) : stack[i].obj = stack[j].obj => i = j
  BY <1>4 DEF Heap!NothingIsMissed
<1> QED BY <1>1, <1>5, <1>6, <1>7
        DEF HeapInductive, NothingDangles, OnlyReachableIsMarked, PhasesAreApart

\* A step of the search: the facts above, for the new marks and the new stack.
LEMMA SearchKeepsHeap ==
  ASSUME HeapInductive, phase = "mark", phase' = "mark",
         UNCHANGED <<allocated, objects, roots, references, todo>>,
         rootIndex' \in 0 .. Len(roots), stack' \in Seq(Frames), marked' \in [Objects -> BOOLEAN],
         \A i \in 1 .. rootIndex' : marked'[roots[i]],
         \A o \in Objects : marked'[o] =>
           \A i \in 1 .. Len(references[o]) :
             \/ marked'[references[o][i]]
             \/ \E k \in 1 .. Len(stack') : stack'[k].obj = o /\ stack'[k].next < i,
         \A i, j \in 1 .. Len(stack') : stack'[i].obj = stack'[j].obj => i = j,
         \A i \in 1 .. Len(stack') :
           marked'[stack'[i].obj] /\ stack'[i].next <= Len(references[stack'[i].obj]),
         \A S \in SUBSET Objects : Closed(S) => \A o \in Objects : marked'[o] => o \in S,
         \A o \in Objects : marked'[o] => o \in allocated
  PROVE  HeapInductive'
<1>1. Heap!TypeOK'
  BY HeapFacts DEF HeapInductive, HeapInvariant, Heap!HeapInvariant, Heap!TypeOK, Frames
<1>2. Heap!NothingIsMissed'
  <2>1. DOMAIN stack' = 1 .. Len(stack')
    OBVIOUS
  <2>2. \A o, i : (\E k \in 1 .. Len(stack') : stack'[k].obj = o /\ stack'[k].next < i) =>
                  \E f \in Heap!Range(stack)' : f.obj = o /\ f.next < i
    BY <2>1 DEF Heap!Range
  <2>3. \A o \in Objects : marked'[o] =>
          \A i \in 1 .. Len(references'[o]) :
            \/ marked'[references'[o][i]]
            \/ \E f \in Heap!Range(stack)' : f.obj = o /\ f.next < i
    <3>1. SUFFICES ASSUME NEW o \in Objects, marked'[o], NEW i \in 1 .. Len(references[o])
                   PROVE  \/ marked'[references[o][i]]
                          \/ \E f \in Heap!Range(stack)' : f.obj = o /\ f.next < i
      OBVIOUS
    <3>2. \/ marked'[references[o][i]]
          \/ \E k \in 1 .. Len(stack') : stack'[k].obj = o /\ stack'[k].next < i
      BY <3>1
    <3> QED BY <3>2, <2>2
  <2> QED BY <2>3 DEF Heap!NothingIsMissed
<1>3. Heap!NoMarkSurvives'
  BY DEF Heap!NoMarkSurvives
<1>4. NothingDangles'
  <2>1. Survivors = allocated /\ Survivors' = allocated
    BY DEF Survivors, Heap!Doomed
  <2> QED BY <2>1 DEF HeapInductive, NothingDangles
<1>5. OnlyReachableIsMarked'
  <2>1. \A S : Closed(S)' <=> Closed(S)
    BY DEF Closed
  <2> QED BY <2>1 DEF OnlyReachableIsMarked
<1>6. PhasesAreApart'
  BY SearchFacts DEF PhasesAreApart
<1> QED BY <1>1, <1>2, <1>3, <1>4, <1>5, <1>6 DEF HeapInductive, HeapInvariant, Heap!HeapInvariant

\* mark(o), called by the activations on callers.
LEMMA EnterKeepsHeap ==
  ASSUME HeapInductive, phase = "mark", phase' = "mark",
         UNCHANGED <<allocated, objects, roots, references, todo>>,
         rootIndex' \in 0 .. Len(roots),
         NEW o \in allocated, NEW callers \in Seq(Frames), Heap!Enter(o, callers),
         \A i \in 1 .. rootIndex' : marked[roots[i]] \/ roots[i] = o,
         \A p \in Objects : marked[p] =>
           \A i \in 1 .. Len(references[p]) :
             \/ marked[references[p][i]] \/ references[p][i] = o
             \/ \E k \in 1 .. Len(callers) : callers[k].obj = p /\ callers[k].next < i,
         \A i, j \in 1 .. Len(callers) : callers[i].obj = callers[j].obj => i = j,
         \A i \in 1 .. Len(callers) :
           marked[callers[i].obj] /\ callers[i].next <= Len(references[callers[i].obj]),
         \A S \in SUBSET Objects : Closed(S) => o \in S
  PROVE  HeapInductive'
<1>0. o \in Objects
  BY HeapFacts
<1>1. CASE marked[o]
  <2>1. stack' = callers /\ marked' = marked
    BY <1>1 DEF Heap!Enter
  <2>2. \A i \in 1 .. rootIndex' : marked'[roots[i]]
    BY <1>1, <2>1
  <2>3. \A p \in Objects : marked'[p] =>
          \A i \in 1 .. Len(references[p]) :
            \/ marked'[references[p][i]]
            \/ \E k \in 1 .. Len(stack') : stack'[k].obj = p /\ stack'[k].next < i
    BY <1>1, <2>1
  <2> QED BY <2>1, <2>2, <2>3, HeapFacts, SearchFacts, SearchKeepsHeap
<1>2. CASE ~marked[o]
  <2> DEFINE top == [obj |-> o, next |-> 0]
  <2>1. marked' = [marked EXCEPT ![o] = TRUE] /\ stack' = Append(callers, top)
    BY <1>2 DEF Heap!Enter
  <2>2. top \in Frames /\ top.obj = o /\ top.next = 0
    BY <1>0 DEF Frames
  <2> HIDE DEF top
  <2>3. /\ stack' \in Seq(Frames) /\ Len(stack') = Len(callers) + 1 /\ Len(callers) \in Nat
        /\ \A i \in 1 .. Len(callers) : stack'[i] = callers[i]
        /\ stack'[Len(callers) + 1] = top
    BY <2>1, <2>2, AppendProperties, LenProperties
  <2>4. /\ marked' \in [Objects -> BOOLEAN]
        /\ \A p \in Objects : marked'[p] <=> marked[p] \/ p = o
    BY <1>0, <2>1, HeapFacts
  <2>5. \A k \in 1 .. Len(stack') : k \in 1 .. Len(callers) \/ k = Len(callers) + 1
    BY <2>3
  <2>6. \A i \in 1 .. Len(callers) : callers[i] \in Frames
    BY ElementOfSeq
  <2>7. \A i \in 1 .. rootIndex' : marked'[roots[i]]
    <3>1. \A i \in 1 .. rootIndex' : roots[i] \in Objects
      BY HeapFacts
    <3> QED BY <2>4, <3>1
  <2>8. ASSUME NEW p \in Objects, marked'[p], NEW i \in 1 .. Len(references[p])
        PROVE  \/ marked'[references[p][i]]
               \/ \E k \in 1 .. Len(stack') : stack'[k].obj = p /\ stack'[k].next < i
    <3>1. references[p][i] \in Objects
      BY HeapFacts
    <3>2. CASE p = o
      <4>1. Len(callers) + 1 \in 1 .. Len(stack') /\ stack'[Len(callers) + 1].obj = p
        BY <2>2, <2>3, <3>2
      <4>2. stack'[Len(callers) + 1].next < i
        BY <2>2, <2>3, HeapFacts
      <4> QED BY <4>1, <4>2
    <3>3. CASE p # o
      <4>1. marked[p]
        BY <2>4, <2>8, <3>3
      <4>2. CASE marked[references[p][i]] \/ references[p][i] = o
        BY <2>4, <3>1, <4>2
      <4>3. CASE \E k \in 1 .. Len(callers) : callers[k].obj = p /\ callers[k].next < i
        <5>1. PICK k \in 1 .. Len(callers) : callers[k].obj = p /\ callers[k].next < i
          BY <4>3
        <5>2. k \in 1 .. Len(stack') /\ stack'[k] = callers[k]
          BY <2>3
        <5> QED BY <5>1, <5>2
      <4> QED BY <4>1, <4>2, <4>3
    <3> QED BY <3>2, <3>3
  <2>9. \A i, j \in 1 .. Len(stack') : stack'[i].obj = stack'[j].obj => i = j
    <3>1. \A i \in 1 .. Len(callers) : stack'[i].obj # o
      BY <1>2, <2>3
    <3>2. stack'[Len(callers) + 1].obj = o
      BY <2>2, <2>3
    <3> QED BY <2>3, <2>5, <3>1, <3>2
  <2>10. \A i \in 1 .. Len(stack') :
           marked'[stack'[i].obj] /\ stack'[i].next <= Len(references[stack'[i].obj])
    <3> SUFFICES ASSUME NEW i \in 1 .. Len(stack')
                 PROVE  marked'[stack'[i].obj] /\ stack'[i].next <= Len(references[stack'[i].obj])
      OBVIOUS
    <3>1. CASE i \in 1 .. Len(callers)
      <4>1. stack'[i] = callers[i] /\ callers[i].obj \in Objects
        BY <2>3, <2>6, <3>1 DEF Frames
      <4> QED BY <2>4, <3>1, <4>1
    <3>2. CASE i = Len(callers) + 1
      <4>1. stack'[i].obj = o /\ stack'[i].next = 0 /\ Len(references[o]) \in Nat
        BY <1>0, <2>2, <2>3, <3>2, HeapFacts
      <4> QED BY <1>0, <2>4, <4>1
    <3> QED BY <2>5, <3>1, <3>2
  <2>11. \A S \in SUBSET Objects : Closed(S) => \A p \in Objects : marked'[p] => p \in S
    BY <2>4, SearchFacts
  <2>12. \A p \in Objects : marked'[p] => p \in allocated
    BY <2>4, SearchFacts
  <2> QED BY <2>3, <2>4, <2>7, <2>8, <2>9, <2>10, <2>11, <2>12, SearchKeepsHeap
<1> QED BY <1>1, <1>2

LEMMA MarkRootKeepsHeap ==
  ASSUME HeapInductive, Heap!MarkRoot
  PROVE  HeapInductive'
<1> DEFINE o == roots[rootIndex + 1]
<1>1. /\ phase = "mark" /\ phase' = "mark" /\ stack = <<>> /\ rootIndex < Len(roots)
      /\ rootIndex' = rootIndex + 1 /\ Heap!Enter(o, <<>>)
      /\ UNCHANGED <<allocated, objects, roots, references, todo>>
  BY DEF Heap!MarkRoot, Heap!mutatorVars
<1>2. rootIndex' \in 1 .. Len(roots) /\ rootIndex \in Nat
  BY <1>1, SearchFacts, HeapFacts
<1>3. o \in allocated
  BY <1>1, <1>2, SearchFacts
<1>4. <<>> \in Seq(Frames) /\ Len(<<>>) = 0 /\ 1 .. 0 = {} /\ Len(stack) = 0
  BY <1>1, EmptySeq
<1>5. \A i \in 1 .. rootIndex' : marked[roots[i]] \/ roots[i] = o
  BY <1>1, <1>2, SearchFacts
<1>6. \A p \in Objects : marked[p] =>
        \A i \in 1 .. Len(references[p]) : marked[references[p][i]]
  BY <1>1, <1>4, SearchFacts
<1>7. \A S \in SUBSET Objects : Closed(S) => o \in S
  BY <1>1, <1>2 DEF Closed
<1> HIDE DEF o
<1>8. rootIndex' \in 0 .. Len(roots)
  BY <1>2
<1> QED BY <1>1, <1>3, <1>4, <1>5, <1>6, <1>7, <1>8, EnterKeepsHeap

LEMMA MarkReferenceKeepsHeap ==
  ASSUME HeapInductive, Heap!MarkReference
  PROVE  HeapInductive'
<1> DEFINE top == Heap!Last(stack)  i == top.next + 1
           o == references[top.obj][i]
           callers == Append(Heap!Front(stack), [top EXCEPT !.next = i])
<1>1. /\ phase = "mark" /\ phase' = "mark" /\ stack # <<>> /\ i <= Len(references[top.obj])
      /\ Heap!Enter(o, callers) /\ rootIndex' = rootIndex
      /\ UNCHANGED <<allocated, objects, roots, references, todo>>
  BY DEF Heap!MarkReference, Heap!mutatorVars
<1>2. /\ Len(stack) \in Nat \ {0} /\ top = stack[Len(stack)] /\ top \in Frames
      /\ Heap!Front(stack) \in Seq(Frames) /\ Len(Heap!Front(stack)) = Len(stack) - 1
      /\ \A k \in 1 .. Len(stack) - 1 : Heap!Front(stack)[k] = stack[k]
  BY <1>1, HeapFacts, FrontIs DEF Frames
<1>3. top.obj \in Objects /\ top.next \in Nat /\ i \in 1 .. Len(references[top.obj])
      /\ marked[top.obj]
  <2>1. Len(stack) \in 1 .. Len(stack)
    BY <1>2
  <2> QED BY <1>1, <1>2, <2>1, HeapFacts, SearchFacts DEF Frames
<1>4. top.obj \in allocated /\ o \in allocated
  BY <1>1, <1>3, SearchFacts
<1>5. [top EXCEPT !.next = i] \in Frames /\ [top EXCEPT !.next = i].obj = top.obj
      /\ [top EXCEPT !.next = i].next = i
  BY <1>2, <1>3 DEF Frames
<1> DEFINE moved == [top EXCEPT !.next = i]
<1> HIDE DEF moved, top, o
<1>6. /\ callers \in Seq(Frames) /\ Len(callers) = Len(stack)
      /\ \A k \in 1 .. Len(stack) - 1 : callers[k] = stack[k]
      /\ callers[Len(stack)] = moved
  <2>1. callers = Append(Heap!Front(stack), moved) /\ moved \in Frames
    BY <1>5 DEF moved
  <2>2. /\ Append(Heap!Front(stack), moved) \in Seq(Frames)
        /\ Len(Append(Heap!Front(stack), moved)) = Len(Heap!Front(stack)) + 1
        /\ \A k \in 1 .. Len(Heap!Front(stack)) :
             Append(Heap!Front(stack), moved)[k] = Heap!Front(stack)[k]
        /\ Append(Heap!Front(stack), moved)[Len(Heap!Front(stack)) + 1] = moved
    BY <1>2, <2>1, AppendProperties
  <2>3. Len(Heap!Front(stack)) + 1 = Len(stack)
    BY <1>2
  <2> QED BY <1>2, <2>1, <2>2, <2>3
<1> HIDE DEF callers, i
<1>7. moved.obj = top.obj /\ moved.next = i
  BY <1>5 DEF moved
<1>8. \A k \in 1 .. Len(callers) : callers[k].obj = stack[k].obj /\
                                   (k = Len(stack) \/ callers[k] = stack[k])
  <2>1. \A k \in 1 .. Len(callers) : k = Len(stack) \/ k \in 1 .. Len(stack) - 1
    BY <1>2, <1>6
  <2> QED BY <1>2, <1>6, <1>7, <2>1
<1>9. \A p \in Objects : marked[p] =>
        \A j \in 1 .. Len(references[p]) :
          \/ marked[references[p][j]] \/ references[p][j] = o
          \/ \E k \in 1 .. Len(callers) : callers[k].obj = p /\ callers[k].next < j
  <2> SUFFICES ASSUME NEW p \in Objects, marked[p], NEW j \in 1 .. Len(references[p]),
                      ~marked[references[p][j]], references[p][j] # o
               PROVE  \E k \in 1 .. Len(callers) : callers[k].obj = p /\ callers[k].next < j
    OBVIOUS
  <2>1. PICK k \in 1 .. Len(stack) : stack[k].obj = p /\ stack[k].next < j
    BY <1>1, SearchFacts
  <2>2. CASE k # Len(stack)
    BY <1>6, <1>8, <2>1, <2>2
  <2>3. CASE k = Len(stack)
    <3>1. p = top.obj /\ top.next < j /\ j \in Nat /\ j # i
      <4>1. p = top.obj /\ top.next < j
        BY <1>2, <2>1, <2>3
      <4>2. j \in Nat
        BY HeapFacts
      <4>3. j # i
        BY <4>1 DEF o
      <4> QED BY <4>1, <4>2, <4>3
    <3>2. i < j
      BY <1>3, <3>1 DEF i
    <3> QED BY <1>6, <1>7, <2>1, <2>3, <3>1, <3>2
  <2> QED BY <2>2, <2>3
<1>10. \A k, l \in 1 .. Len(callers) : callers[k].obj = callers[l].obj => k = l
  BY <1>1, <1>6, <1>8, SearchFacts
<1>11. \A k \in 1 .. Len(callers) :
         marked[callers[k].obj] /\ callers[k].next <= Len(references[callers[k].obj])
  <2> SUFFICES ASSUME NEW k \in 1 .. Len(callers)
               PROVE  marked[callers[k].obj] /\ callers[k].next <= Len(references[callers[k].obj])
    OBVIOUS
  <2>1. CASE k = Len(stack)
    BY <1>1, <1>3, <1>6, <1>7, <2>1
  <2>2. CASE callers[k] = stack[k]
    BY <1>1, <1>6, <2>2, SearchFacts
  <2> QED BY <1>8, <2>1, <2>2
<1>12. \A S \in SUBSET Objects : Closed(S) => o \in S
  <2> SUFFICES ASSUME NEW S \in SUBSET Objects, Closed(S) PROVE o \in S
    OBVIOUS
  <2>1. top.obj \in S \cap allocated
    BY <1>1, <1>3, <1>4, SearchFacts
  <2> QED BY <1>3, <2>1 DEF Closed, o
<1>13. \A k \in 1 .. rootIndex' : marked[roots[k]]
  BY <1>1, SearchFacts
<1>14. rootIndex' \in 0 .. Len(roots)
  BY <1>1, SearchFacts
<1> QED BY <1>1, <1>4, <1>6, <1>9, <1>10, <1>11, <1>12, <1>13, <1>14, EnterKeepsHeap

LEMMA MarkReturnsKeepsHeap ==
  ASSUME HeapInductive, Heap!MarkReturns
  PROVE  HeapInductive'
<1> DEFINE top == Heap!Last(stack)
<1>1. /\ phase = "mark" /\ phase' = "mark" /\ stack # <<>>
      /\ top.next = Len(references[top.obj]) /\ stack' = Heap!Front(stack)
      /\ UNCHANGED <<allocated, objects, roots, references, todo, marked, rootIndex>>
  BY DEF Heap!MarkReturns, Heap!mutatorVars
<1>2. /\ Len(stack) \in Nat \ {0} /\ top = stack[Len(stack)]
      /\ stack' \in Seq(Frames) /\ Len(stack') = Len(stack) - 1
      /\ \A k \in 1 .. Len(stack) - 1 : stack'[k] = stack[k]
  BY <1>1, HeapFacts, FrontIs DEF Frames
<1> HIDE DEF top
<1>3. \A k \in 1 .. Len(stack') : k \in 1 .. Len(stack) /\ stack'[k] = stack[k]
  BY <1>2
<1>4. ASSUME NEW p \in Objects, marked[p], NEW j \in 1 .. Len(references[p]),
             ~marked[references[p][j]]
      PROVE  \E k \in 1 .. Len(stack') : stack'[k].obj = p /\ stack'[k].next < j
  <2>1. PICK k \in 1 .. Len(stack) : stack[k].obj = p /\ stack[k].next < j
    BY <1>1, <1>4, SearchFacts
  <2>2. k # Len(stack)
    <3>1. SUFFICES ASSUME k = Len(stack) PROVE FALSE
      OBVIOUS
    <3>2. Len(references[p]) < j /\ Len(references[p]) \in Nat
      BY <1>1, <1>2, <2>1, <3>1, HeapFacts
    <3> QED BY <3>2
  <2>3. k \in 1 .. Len(stack')
    BY <1>2, <2>2
  <2> QED BY <1>3, <2>1, <2>3
<1>5. \A p \in Objects : marked'[p] =>
        \A j \in 1 .. Len(references[p]) :
          \/ marked'[references[p][j]]
          \/ \E k \in 1 .. Len(stack') : stack'[k].obj = p /\ stack'[k].next < j
  BY <1>1, <1>4
<1>6. \A k, l \in 1 .. Len(stack') : stack'[k].obj = stack'[l].obj => k = l
  BY <1>1, <1>3, SearchFacts
<1>7. \A k \in 1 .. Len(stack') :
        marked'[stack'[k].obj] /\ stack'[k].next <= Len(references[stack'[k].obj])
  BY <1>1, <1>3, SearchFacts
<1>8. /\ marked' \in [Objects -> BOOLEAN] /\ rootIndex' \in 0 .. Len(roots)
      /\ \A k \in 1 .. rootIndex' : marked'[roots[k]]
      /\ \A S \in SUBSET Objects : Closed(S) => \A o \in Objects : marked'[o] => o \in S
      /\ \A o \in Objects : marked'[o] => o \in allocated
  BY <1>1, HeapFacts, SearchFacts
<1> QED BY <1>1, <1>2, <1>5, <1>6, <1>7, <1>8, SearchKeepsHeap

LEMMA CollectKeepsHeap ==
  ASSUME HeapInductive, Heap!collect
  PROVE  HeapInductive'
<1>1. /\ phase = "idle" /\ objects = allocated /\ phase' = "mark" /\ rootIndex' = 0 /\ stack' = <<>>
      /\ UNCHANGED <<allocated, objects, roots, references, marked, todo>>
  BY DEF Heap!collect, Heap!mutatorVars
<1>2. <<>> \in Seq([obj : Objects, next : Nat]) /\ Len(<<>>) = 0 /\ 1 .. 0 = {}
  BY EmptySeq
<1>3. Heap!TypeOK'
  BY <1>1, <1>2, HeapFacts DEF HeapInductive, HeapInvariant, Heap!HeapInvariant, Heap!TypeOK
<1>4. Heap!NothingIsMissed' /\ Heap!NoMarkSurvives'
  BY <1>1, <1>2, IdleFacts DEF Heap!NothingIsMissed, Heap!NoMarkSurvives
<1>5. NothingDangles'
  <2>1. Survivors = allocated /\ Survivors' = allocated
    BY <1>1 DEF Survivors, Heap!Doomed
  <2> QED BY <1>1, <2>1 DEF HeapInductive, NothingDangles
<1>6. OnlyReachableIsMarked' /\ PhasesAreApart'
  BY <1>1, <1>2, IdleFacts DEF HeapInductive, OnlyReachableIsMarked, PhasesAreApart
<1> QED BY <1>3, <1>4, <1>5, <1>6 DEF HeapInductive, HeapInvariant, Heap!HeapInvariant

\* When the search is over, the marked objects are the roots and what they refer to.
LEMMA SearchIsOver ==
  ASSUME HeapInductive, phase = "mark", stack = <<>>, rootIndex = Len(roots)
  PROVE  /\ \A i \in 1 .. Len(roots) : marked[roots[i]]
         /\ \A o \in Objects : marked[o] => \A i \in 1 .. Len(references[o]) : marked[references[o][i]]
<1>1. Len(stack) = 0 /\ 1 .. 0 = {}
  BY EmptySeq
<1> QED BY <1>1, SearchFacts

LEMMA StartSweepKeepsHeap ==
  ASSUME HeapInductive, Heap!StartSweep
  PROVE  HeapInductive' /\ Survivors' = {o \in allocated : marked[o]}
<1>1. /\ phase = "mark" /\ stack = <<>> /\ rootIndex = Len(roots)
      /\ phase' = "sweep" /\ todo' = objects /\ rootIndex' = 0
      /\ UNCHANGED <<allocated, objects, roots, references, marked, stack>>
  BY DEF Heap!StartSweep, Heap!mutatorVars
<1>2. Len(stack) = 0 /\ 1 .. 0 = {} /\ objects = allocated
  BY <1>1, EmptySeq, SearchFacts
<1>3. Heap!TypeOK'
  BY <1>1, HeapFacts DEF HeapInductive, HeapInvariant, Heap!HeapInvariant, Heap!TypeOK
<1>4. Heap!NothingIsMissed' /\ Heap!NoMarkSurvives'
  BY <1>1 DEF Heap!NothingIsMissed, Heap!NoMarkSurvives
<1>5. Survivors' = {o \in allocated : marked[o]}
  BY <1>1, <1>2 DEF Survivors, Heap!Doomed
<1>6. NothingDangles'
  <2>1. \A i \in 1 .. Len(roots) : roots[i] \in Survivors'
    BY <1>1, <1>5, SearchFacts, SearchIsOver
  <2>2. ASSUME NEW o \in Survivors', NEW i \in 1 .. Len(references[o])
        PROVE  references[o][i] \in Survivors'
    <3>1. o \in allocated /\ o \in Objects /\ marked[o]
      BY <1>5, HeapFacts
    <3> QED BY <1>1, <1>5, <3>1, SearchFacts, SearchIsOver
  <2> QED BY <1>1, <2>1, <2>2 DEF NothingDangles
<1>7. OnlyReachableIsMarked' /\ PhasesAreApart'
  BY <1>1, <1>2, SearchFacts DEF OnlyReachableIsMarked, PhasesAreApart
<1> QED BY <1>3, <1>4, <1>5, <1>6, <1>7 DEF HeapInductive, HeapInvariant, Heap!HeapInvariant

LEMMA SweepFacts ==
  ASSUME HeapInductive, phase = "sweep"
  PROVE  /\ todo \subseteq objects /\ stack = <<>> /\ rootIndex = 0 /\ 1 .. Len(stack) = {}
         /\ \A o \in Objects : marked[o] => o \in todo
         /\ Survivors = {o \in allocated : ~(o \in todo /\ ~marked[o])}
         /\ \A i \in 1 .. Len(roots) : roots[i] \in Survivors
         /\ \A o \in Survivors : \A i \in 1 .. Len(references[o]) : references[o][i] \in Survivors
<1>1. stack = <<>> /\ rootIndex = 0 /\ \A o \in Objects : marked[o] => o \in todo
  BY DEF HeapInductive, PhasesAreApart
<1>2. 1 .. Len(stack) = {}
  BY <1>1, EmptySeq
<1>3. todo \subseteq objects
  BY DEF HeapInductive, HeapInvariant, Heap!HeapInvariant, Heap!TypeOK
<1>4. Survivors = {o \in allocated : ~(o \in todo /\ ~marked[o])}
  BY DEF Survivors, Heap!Doomed
<1> QED BY <1>1, <1>2, <1>3, <1>4 DEF HeapInductive, NothingDangles

LEMMA SweepOneKeepsHeap ==
  ASSUME HeapInductive, Heap!SweepOne
  PROVE  HeapInductive' /\ Survivors' = Survivors
         /\ \A o \in Survivors : references'[o] = references[o]
<1>1. /\ phase = "sweep" /\ UNCHANGED <<roots, phase, rootIndex, stack>>
      /\ \E o \in todo : (Heap!Delete(o) \/ Heap!Keep(o)) /\ todo' = todo \ {o}
  BY DEF Heap!SweepOne
<1>2. PICK o \in todo : (Heap!Delete(o) \/ Heap!Keep(o)) /\ todo' = todo \ {o}
  BY <1>1
<1>3. o \in Objects /\ o \in allocated /\ o \in objects
  BY <1>1, HeapFacts, SweepFacts
<1>4. /\ allocated' \subseteq allocated /\ objects' \subseteq allocated' /\ todo' \subseteq objects'
      /\ marked' \in [Objects -> BOOLEAN] /\ references' \in [Objects -> Seq(Objects)]
      /\ \A p \in Objects : marked'[p] => p \in todo'
      /\ Survivors' = Survivors /\ \A p \in Survivors : references'[p] = references[p]
  <2>0. /\ Survivors = {p \in allocated : ~(p \in todo /\ ~marked[p])}
        /\ Survivors' = {p \in allocated' : ~(p \in todo' /\ ~marked'[p])}
    BY <1>1, SweepFacts DEF Survivors, Heap!Doomed
  <2>1. CASE Heap!Delete(o)
    <3>1. /\ ~marked[o] /\ allocated' = allocated \ {o} /\ objects' = objects \ {o}
          /\ references' = [references EXCEPT ![o] = <<>>] /\ marked' = marked
      BY <2>1 DEF Heap!Delete
    <3>2. references' \in [Objects -> Seq(Objects)]
      BY <3>1, HeapFacts, EmptySeq
    <3>3. \A p \in Objects : p # o => references'[p] = references[p]
      BY <3>1, HeapFacts
    <3>4. Survivors' = Survivors
      BY <1>2, <1>3, <2>0, <3>1
    <3>5. o \notin Survivors /\ Survivors \subseteq Objects
      BY <2>0, <3>1, HeapFacts
    <3>6. objects' \subseteq allocated' /\ todo' \subseteq objects'
      BY <1>1, <1>2, <3>1, HeapFacts, SweepFacts
    <3>7. \A p \in Objects : marked'[p] => p \in todo'
      BY <1>1, <1>2, <3>1, SweepFacts
    <3> QED BY <3>1, <3>2, <3>3, <3>4, <3>5, <3>6, <3>7, HeapFacts
  <2>2. CASE Heap!Keep(o)
    <3>1. /\ marked[o] /\ marked' = [marked EXCEPT ![o] = FALSE]
          /\ UNCHANGED <<allocated, objects, references>>
      BY <2>2 DEF Heap!Keep
    <3>2. /\ marked' \in [Objects -> BOOLEAN] /\ ~marked'[o]
          /\ \A p \in Objects : p # o => marked'[p] = marked[p]
      BY <1>3, <3>1, HeapFacts
    <3>3. Survivors' = Survivors
      BY <1>2, <1>3, <2>0, <3>1, <3>2, HeapFacts
    <3>4. \A p \in Objects : marked'[p] => p \in todo'
      BY <1>1, <1>2, <3>2, SweepFacts
    <3>5. todo' \subseteq objects'
      BY <1>1, <1>2, <3>1, SweepFacts
    <3> QED BY <3>1, <3>2, <3>3, <3>4, <3>5, HeapFacts
  <2> QED BY <1>2, <2>1, <2>2
<1>5. Heap!TypeOK'
  BY <1>1, <1>4, HeapFacts DEF HeapInductive, HeapInvariant, Heap!HeapInvariant, Heap!TypeOK
<1>6. Heap!NothingIsMissed' /\ Heap!NoMarkSurvives'
  BY <1>1 DEF Heap!NothingIsMissed, Heap!NoMarkSurvives
<1>7. NothingDangles'
  BY <1>1, <1>4, SweepFacts DEF NothingDangles
<1>8. OnlyReachableIsMarked' /\ PhasesAreApart'
  BY <1>1, <1>4, SweepFacts DEF OnlyReachableIsMarked, PhasesAreApart
<1> QED BY <1>4, <1>5, <1>6, <1>7, <1>8 DEF HeapInductive, HeapInvariant, Heap!HeapInvariant

LEMMA EndSweepKeepsHeap ==
  ASSUME HeapInductive, Heap!EndSweep
  PROVE  HeapInductive' /\ Survivors' = Survivors
<1>1. /\ phase = "sweep" /\ todo = {} /\ phase' = "idle"
      /\ UNCHANGED <<allocated, objects, roots, references, marked, rootIndex, stack, todo>>
  BY DEF Heap!EndSweep, Heap!mutatorVars
<1>2. \A o \in Objects : ~marked[o]
  BY <1>1, SweepFacts
<1>3. Survivors' = Survivors /\ Survivors = allocated
  BY <1>1, SweepFacts DEF Survivors, Heap!Doomed
<1>4. Heap!TypeOK'
  BY <1>1 DEF HeapInductive, HeapInvariant, Heap!HeapInvariant, Heap!TypeOK
<1>5. Heap!NothingIsMissed' /\ Heap!NoMarkSurvives'
  BY <1>1, <1>2 DEF Heap!NothingIsMissed, Heap!NoMarkSurvives
<1>6. NothingDangles'
  BY <1>1, <1>3, SweepFacts DEF NothingDangles
<1>7. OnlyReachableIsMarked' /\ PhasesAreApart'
  BY <1>1, SweepFacts DEF OnlyReachableIsMarked, PhasesAreApart
<1> QED BY <1>3, <1>4, <1>5, <1>6, <1>7 DEF HeapInductive, HeapInvariant, Heap!HeapInvariant

LEMMA NextHeapInductive == HeapInductive /\ [AnyNext]_allVars => HeapInductive'
<1> SUFFICES ASSUME HeapInductive, Heap!Next \/ UNCHANGED heapVars PROVE HeapInductive'
  BY HeapSteps
<1>1. CASE UNCHANGED heapVars
  <2>1. UNCHANGED <<allocated, objects, roots, references, marked, phase, rootIndex, stack, todo>>
    BY <1>1 DEF heapVars
  <2>2. HeapInvariant'
    BY <2>1 DEF HeapInductive, HeapInvariant, Heap!HeapInvariant, Heap!TypeOK,
                Heap!NothingIsMissed, Heap!NoMarkSurvives, Heap!Range
  <2>3. NothingDangles' /\ OnlyReachableIsMarked' /\ PhasesAreApart'
    BY <2>1 DEF HeapInductive, NothingDangles, Survivors, Heap!Doomed, OnlyReachableIsMarked,
                Closed, PhasesAreApart
  <2> QED BY <2>2, <2>3 DEF HeapInductive
<1> QED BY <1>1, MutatorStep, CollectKeepsHeap, MarkRootKeepsHeap, MarkReferenceKeepsHeap,
           MarkReturnsKeepsHeap, StartSweepKeepsHeap, SweepOneKeepsHeap, EndSweepKeepsHeap
        DEF Heap!Next, Heap!Collection

LEMMA InitHeapInductive == AnyInit => HeapInductive
<1> SUFFICES ASSUME Heap!Init PROVE HeapInductive
  BY DEF AnyInit
<1>1. /\ allocated = {} /\ objects = {} /\ roots = <<>> /\ phase = "idle" /\ rootIndex = 0
      /\ stack = <<>> /\ todo = {} /\ references = [o \in Objects |-> <<>>]
      /\ marked = [o \in Objects |-> FALSE]
  BY DEF Heap!Init
<1>2. /\ \A S : <<>> \in Seq(S)
      /\ Len(<<>>) = 0 /\ 1 .. 0 = {}
  BY EmptySeq
<1>3. Heap!TypeOK
  BY <1>1, <1>2 DEF Heap!TypeOK
<1>4. Heap!NothingIsMissed /\ Heap!NoMarkSurvives
  BY <1>1 DEF Heap!NothingIsMissed, Heap!NoMarkSurvives
<1>5. NothingDangles /\ OnlyReachableIsMarked /\ PhasesAreApart
  BY <1>1, <1>2 DEF NothingDangles, Survivors, OnlyReachableIsMarked, PhasesAreApart
<1> QED BY <1>3, <1>4, <1>5 DEF HeapInductive, HeapInvariant, Heap!HeapInvariant

LEMMA HeapInductiveHolds == FairSpec => []HeapInductive
BY InitHeapInductive, NextHeapInductive, PTL DEF FairSpec

\* The search misses no reference and comes back to no object that is on the
\* stack, in any graph, and no mark outlives its cycle (garbage_collector.h:55, 78).
THEOREM SearchIsComplete == FairSpec => []HeapInvariant
<1>1. HeapInductive => HeapInvariant
  BY DEF HeapInductive
<1> QED BY <1>1, HeapInductiveHolds, PTL

\* The graph the program sees.
Graph == [o \in Survivors |-> references[o]]

LEMMA GraphFacts ==
  ASSUME HeapInductive
  PROVE  /\ Heap!Promised!Live = Survivors /\ DOMAIN Graph = Survivors /\ Survivors \subseteq Objects
         /\ \A o \in Survivors : Graph[o] = references[o]
         /\ phase # "sweep" => Survivors = allocated
BY HeapFacts DEF Heap!Promised!Live, Graph, Survivors, Heap!Doomed

\* A step that shapes the graph outside of collections.
LEMMA MutatorIsSeen ==
  ASSUME HeapInductive, HeapInductive', Heap!Mutator
  PROVE  Heap!Promised!Next \/ UNCHANGED <<Graph, roots>>
<1> USE DEF Heap!collectorVars
<1>0. phase = "idle" /\ phase' = "idle"
  BY DEF Heap!Mutator, Heap!New, Heap!track, Heap!addRoot, Heap!DropReferences, Heap!AddReference,
         Heap!ClearRoots
<1>1. Survivors = allocated /\ Survivors' = allocated'
  BY <1>0 DEF Survivors, Heap!Doomed
<1>2. Heap!Promised!Live = allocated /\ Heap!Promised!Live' = allocated'
  BY <1>1 DEF Heap!Promised!Live, Survivors
<1>3. /\ Graph = [o \in allocated |-> references[o]]
      /\ Graph' = [o \in allocated' |-> references'[o]]
  BY <1>1 DEF Graph
<1>4. \A S : Heap!Promised!Range(roots) \subseteq S <=> \A i \in 1 .. Len(roots) : roots[i] \in S
  BY HeapFacts DEF Heap!Promised!Range
<1>5. ASSUME NEW o \in Objects, Heap!New(o) PROVE Heap!Promised!New
  <2>1. /\ o \notin allocated /\ allocated' = allocated \union {o}
        /\ references' = [references EXCEPT ![o] = <<>>] /\ UNCHANGED roots
    BY <1>5 DEF Heap!New
  <2>2. Graph' = [p \in allocated \union {o} |-> IF p = o THEN <<>> ELSE Graph[p]]
    <3>1. \A p \in allocated : references'[p] = references[p] /\ Graph[p] = references[p]
      BY <1>3, <2>1, HeapFacts
    <3>2. references'[o] = <<>>
      BY <2>1, HeapFacts
    <3> QED BY <1>3, <2>1, <3>1, <3>2
  <2> QED BY <1>1, <1>2, <2>1, <2>2 DEF Heap!Promised!New, Graph, Survivors
<1>6. ASSUME NEW o \in allocated, NEW refs \in Seq(allocated),
             references' = [references EXCEPT ![o] = refs], UNCHANGED <<allocated, roots>>
      PROVE  Heap!Promised!Assign
  <2>1. o \in Objects
    BY HeapFacts
  <2>2. Graph'[o] = refs /\ DOMAIN Graph' = allocated
    BY <1>3, <1>6, <2>1, HeapFacts
  <2>3. Heap!Promised!Range(Graph'[o]) \subseteq allocated
    <3>1. \A i \in DOMAIN refs : refs[i] \in allocated
      BY ElementOfSeq
    <3> QED BY <2>2, <3>1 DEF Heap!Promised!Range
  <2>4. Graph' = [Graph EXCEPT ![o] = Graph'[o]]
    <3>1. \A p \in allocated : references'[p] = IF p = o THEN refs ELSE references[p]
      BY <1>6, <2>1, HeapFacts
    <3> QED BY <1>3, <1>6, <2>2, <3>1
  <2> QED BY <1>1, <1>2, <1>6, <2>2, <2>3, <2>4 DEF Heap!Promised!Assign, Graph, Survivors
<1>7. ASSUME NEW o \in Objects, Heap!DropReferences(o) PROVE Heap!Promised!Assign
  <2>1. <<>> \in Seq(allocated)
    BY EmptySeq
  <2> QED BY <1>6, <1>7, <2>1 DEF Heap!DropReferences
<1>8. ASSUME NEW o \in Objects, NEW p \in Objects, Heap!AddReference(o, p)
      PROVE  Heap!Promised!Assign
  <2>1. /\ o \in allocated /\ p \in allocated /\ UNCHANGED <<allocated, roots>>
        /\ references' = [references EXCEPT ![o] = Append(references[o], p)]
    BY <1>8 DEF Heap!AddReference
  <2>2. references[o] \in Seq(allocated)
    <3>1. references[o] \in Seq(Objects)
      BY HeapFacts
    <3>2. \A i \in 1 .. Len(references[o]) : references[o][i] \in allocated
      BY <1>0, <2>1, IdleFacts
    <3>3. references[o] \in [1 .. Len(references[o]) -> allocated] /\ Len(references[o]) \in Nat
      BY <3>1, <3>2, LenProperties
    <3> QED BY <3>3, SeqDef
  <2>3. Append(references[o], p) \in Seq(allocated)
    BY <2>1, <2>2, AppendProperties
  <2> QED BY <1>6, <2>1, <2>3
<1>9. ASSUME UNCHANGED <<allocated, references>>, roots' \in Seq(allocated)
      PROVE  Heap!Promised!SetRoots
  <2>1. Heap!Promised!Range(roots') \subseteq allocated
    <3>1. \A i \in DOMAIN roots' : roots'[i] \in allocated
      BY <1>9, ElementOfSeq
    <3> QED BY <3>1 DEF Heap!Promised!Range
  <2>2. Graph' = Graph
    BY <1>3, <1>9
  <2> QED BY <1>1, <1>2, <2>1, <2>2 DEF Heap!Promised!SetRoots, Graph, Survivors
<1>10. ASSUME NEW o \in Objects, Heap!addRoot(o) PROVE Heap!Promised!SetRoots
  <2>1. Append(roots, o) \in Seq(allocated)
    BY <1>0, <1>10, IdleFacts, AppendProperties DEF Heap!addRoot
  <2> QED BY <1>9, <1>10, <2>1 DEF Heap!addRoot
<1>11. ASSUME Heap!ClearRoots PROVE Heap!Promised!SetRoots
  <2>1. <<>> \in Seq(allocated)
    BY EmptySeq
  <2> QED BY <1>9, <1>11, <2>1 DEF Heap!ClearRoots
<1>12. ASSUME NEW o \in Objects, Heap!track(o) PROVE UNCHANGED <<Graph, roots>>
  <2>1. UNCHANGED <<allocated, roots, references>>
    BY <1>12 DEF Heap!track
  <2> QED BY <1>3, <2>1
<1> QED BY <1>5, <1>7, <1>8, <1>10, <1>11, <1>12 DEF Heap!Mutator, Heap!Promised!Next

\* The marked objects are the least set with the roots that references do not leave.
LEMMA MarkedIsReachable ==
  ASSUME HeapInductive, phase = "mark", stack = <<>>, rootIndex = Len(roots)
  PROVE  Heap!Promised!Reachable = {o \in allocated : marked[o]}
<1>1. Survivors = allocated
  BY DEF Survivors, Heap!Doomed
<1> DEFINE ClosedSet(S) == /\ Heap!Promised!Range(roots) \subseteq S
                           /\ \A o \in S \intersect Survivors : Heap!Promised!Range(Graph[o]) \subseteq S
<1>2. Heap!Promised!Reachable = {o \in Objects : \A S \in SUBSET Objects : ClosedSet(S) => o \in S}
  BY DEF Heap!Promised!Reachable, Heap!Promised!Live, Graph, Survivors
<1>3. \A S \in SUBSET Objects : ClosedSet(S) <=> Closed(S)
  <2>1. \A S : Heap!Promised!Range(roots) \subseteq S <=> \A i \in 1 .. Len(roots) : roots[i] \in S
    <3>1. DOMAIN roots = 1 .. Len(roots)
      BY HeapFacts
    <3> HIDE DEF ClosedSet
    <3> QED BY <3>1 DEF Heap!Promised!Range
  <2>2. \A S : \A o \in allocated :
          Heap!Promised!Range(Graph[o]) \subseteq S <=>
            \A i \in 1 .. Len(references[o]) : references[o][i] \in S
    <3> SUFFICES ASSUME NEW S, NEW o \in allocated
                 PROVE  Heap!Promised!Range(Graph[o]) \subseteq S <=>
                          \A i \in 1 .. Len(references[o]) : references[o][i] \in S
      OBVIOUS
    <3>1. Graph[o] = references[o] /\ references[o] \in Seq(Objects)
      BY <1>1, GraphFacts, HeapFacts
    <3>2. DOMAIN references[o] = 1 .. Len(references[o])
      BY <3>1
    <3> QED BY <3>1, <3>2 DEF Heap!Promised!Range
  <2> QED BY <1>1, <2>1, <2>2 DEF Closed
<1>4. ASSUME NEW o \in allocated, marked[o] PROVE o \in Heap!Promised!Reachable
  <2>1. o \in Objects
    BY HeapFacts
  <2>2. \A S \in SUBSET Objects : Closed(S) => o \in S
    BY <1>4, <2>1, SearchFacts
  <2> HIDE DEF ClosedSet
  <2> QED BY <1>2, <1>3, <2>1, <2>2
<1>5. ASSUME NEW o \in Heap!Promised!Reachable PROVE o \in allocated /\ marked[o]
  <2> DEFINE M == {p \in Objects : marked[p]}
  <2>1. Closed(M)
    <3>1. \A i \in 1 .. Len(roots) : roots[i] \in M
      BY HeapFacts, SearchIsOver
    <3>2. \A p \in M \cap allocated : \A i \in 1 .. Len(references[p]) : references[p][i] \in M
      BY HeapFacts, SearchIsOver
    <3> QED BY <3>1, <3>2 DEF Closed
  <2>2. M \in SUBSET Objects
    OBVIOUS
  <2> HIDE DEF ClosedSet, M
  <2>3. o \in M
    BY <1>2, <1>3, <2>1, <2>2
  <2> QED BY <2>3, SearchFacts DEF M
<1> QED BY <1>4, <1>5

LEMMA SweepIsCollect ==
  ASSUME HeapInductive, Heap!StartSweep
  PROVE  Heap!Promised!Collect
<1>1. /\ phase = "mark" /\ stack = <<>> /\ rootIndex = Len(roots)
      /\ UNCHANGED <<allocated, roots, references>>
  BY DEF Heap!StartSweep, Heap!mutatorVars
<1>2. Survivors' = Heap!Promised!Reachable /\ Survivors' \subseteq Survivors
  <2>1. Survivors' = {o \in allocated : marked[o]}
    BY StartSweepKeepsHeap
  <2> QED BY <1>1, <2>1, MarkedIsReachable, GraphFacts
<1>3. Graph' = [o \in Heap!Promised!Reachable |-> Graph[o]]
  <2>1. Graph' = [o \in Survivors' |-> references[o]]
    BY <1>1 DEF Graph
  <2>2. \A o \in Survivors' : Graph[o] = references[o]
    BY <1>2, GraphFacts
  <2> QED BY <1>2, <2>1, <2>2
<1> QED BY <1>1, <1>3 DEF Heap!Promised!Collect, Heap!Promised!Restrict, Graph, Survivors

LEMMA CollectorStep ==
  HeapInductive /\ HeapInductive' /\ [AnyNext]_allVars => [Heap!Promised!Next]_(Heap!Promised!vars)
<1> SUFFICES ASSUME HeapInductive, HeapInductive', Heap!Next \/ UNCHANGED heapVars
             PROVE  Heap!Promised!Next \/ UNCHANGED <<Graph, roots>>
  BY HeapSteps DEF Heap!Promised!vars, Graph, Survivors
<1>1. CASE UNCHANGED heapVars
  BY <1>1 DEF heapVars, Graph, Survivors, Heap!Doomed
<1>2. CASE Heap!Mutator
  BY <1>2, MutatorIsSeen
<1>3. CASE Heap!collect \/ Heap!MarkRoot \/ Heap!MarkReference \/ Heap!MarkReturns
  <2>1. phase # "sweep" /\ phase' # "sweep" /\ UNCHANGED <<allocated, roots, references>>
    BY <1>3 DEF Heap!collect, Heap!MarkRoot, Heap!MarkReference, Heap!MarkReturns, Heap!mutatorVars
  <2> QED BY <2>1 DEF Graph, Survivors, Heap!Doomed
<1>4. CASE Heap!StartSweep
  BY <1>4, SweepIsCollect DEF Heap!Promised!Next
<1>5. CASE Heap!SweepOne
  <2>1. Survivors' = Survivors /\ \A o \in Survivors : references'[o] = references[o]
    BY <1>5, SweepOneKeepsHeap
  <2>2. UNCHANGED roots
    BY <1>5 DEF Heap!SweepOne
  <2> QED BY <2>1, <2>2 DEF Graph
<1>6. CASE Heap!EndSweep
  <2>1. Survivors' = Survivors /\ UNCHANGED <<roots, references>>
    BY <1>6, EndSweepKeepsHeap DEF Heap!EndSweep, Heap!mutatorVars
  <2> QED BY <2>1 DEF Graph
<1> QED BY <1>1, <1>2, <1>3, <1>4, <1>5, <1>6 DEF Heap!Next, Heap!Collection

\* A collection frees exactly the objects that no path of references leads to
\* from a root, as one step at the end of the search, for every graph, cyclic or
\* not (garbage_collector.h:86).
THEOREM CollectionFreesGarbage == FairSpec => ImplementsCollector
<1>1. AnyInit => Heap!Promised!Init
  <2> SUFFICES ASSUME Heap!Init PROVE Heap!Promised!Init
    BY DEF AnyInit
  <2>1. allocated \ Heap!Doomed = {} /\ roots = <<>>
    BY DEF Heap!Init, Heap!Doomed
  <2> QED BY <2>1 DEF Heap!Promised!Init
<1> QED BY <1>1, CollectorStep, HeapInductiveHolds, PTL
        DEF FairSpec, ImplementsCollector, Heap!ImplementsCollector, Heap!Promised!Spec

-----------------------------------------------------------------------------
(* Arena, BumpAllocator and Autograd *)

\* The position stays in the arena, and is 0 while there is none.
ArenaInductive ==
  \/ capacity = NULL /\ pos = 0
  \/ capacity \in 0 .. PTRDIFF_MAX /\ pos \in 0 .. capacity

\* Until it wraps, the pointer stays in the array.
BumpInductive == ~wrapped => heap_ptr \in heap .. heap + HeapSize

\* The structs of a variable lie behind each other, and so do the variables.
Offsets == Nat \cup {NULL}
Variables == [at : Offsets, val : Offsets, data : Offsets, rows : Nat, cols : Nat, inputs : SUBSET Nat]
DataSize(v) == sizeof_matrix * (v.rows * v.cols)
IsLaidOut(v) ==
  /\ v.at # NULL /\ v.val # NULL /\ v.at + sizeof_Var <= v.val
  /\ v.data # NULL => v.val + sizeof_matrix <= v.data
End(v) == IF v.data = NULL THEN v.val + sizeof_matrix ELSE v.data + DataSize(v)
GraphIsLaidOut ==
  /\ graph \in Seq(Variables)
  /\ \A i \in 1 .. Len(graph) :
       /\ IsLaidOut(graph[i]) /\ End(graph[i]) <= pos
       /\ graph[i].inputs \subseteq 1 .. i - 1
       /\ \A j \in i + 1 .. Len(graph) : End(graph[i]) <= graph[j].at
  /\ graph # <<>> => capacity # NULL

\* The variable in the making lies behind them, as far as it is made.
VarIsBehind(at) == at \in Nat /\ \A i \in 1 .. Len(graph) : End(graph[i]) <= at
LatestFits == out.at # NULL => out.at \in Nat /\ out.size \in Nat /\ out.at + out.size <= pos
VarIsLaidOut ==
  /\ var \in Variables /\ var.data = NULL /\ var.inputs \subseteq 1 .. Len(graph)
  /\ stage \in {"start", "idle", "Var", "matrix", "data", "crashed"}
  /\ stage = "start" => graph = <<>>
  /\ stage \in {"Var", "matrix", "data"} => LatestFits /\ (out.at # NULL => capacity # NULL)
  /\ stage = "Var" => out.size = sizeof_Var /\ (out.at # NULL => VarIsBehind(out.at))
  /\ stage \in {"matrix", "data"} => VarIsBehind(var.at) /\ capacity # NULL
  /\ stage = "matrix" =>
       out.size = sizeof_matrix /\ (out.at # NULL => var.at + sizeof_Var <= out.at)
  /\ stage = "data" =>
       /\ var.val # NULL /\ var.at + sizeof_Var <= var.val /\ var.val + sizeof_matrix <= pos
       /\ out.size = DataSize(var)
       /\ out.at # NULL => var.val + sizeof_matrix <= out.at
GraphInductive ==
  /\ component # "autograd" => stage = "start"
  /\ ArenaInductive /\ GraphIsLaidOut /\ VarIsLaidOut

LEMMA ArenaConstants ==
  /\ PTRDIFF_MAX \in Nat /\ U64_MAX = 2 * PTRDIFF_MAX + 1
  /\ ARENA_ALIGN \in 1 .. PTRDIFF_MAX + 1
  /\ \A c \in Capacities : c \in Nat
  /\ \A s \in Sizes : s \in Nat
  /\ NULL = -1
<1>1. MemArena!ArenaAssumption
  BY RegionAssumptions
<1> QED BY <1>1 DEF MemArena!ArenaAssumption, NULL

\* Aligning a position in an arena that malloc has granted does not wrap around.
LEMMA AlignedPosition ==
  ASSUME NEW p \in 0 .. PTRDIFF_MAX
  PROVE  MemArena!ALIGN_UP_POW2(p) \in p .. p + ARENA_ALIGN - 1
<1> DEFINE y == p + ARENA_ALIGN - 1
<1>1. y \in Nat /\ y < U64_MAX + 1 /\ U64_MAX + 1 \in Nat \ {0} /\ ARENA_ALIGN \in Nat \ {0}
  BY ArenaConstants
<1>2. MemArena!u64(p + ARENA_ALIGN - 1) = y
  <2>1. \A a, b \in Nat : b # 0 /\ a < b => a % b = a
    OBVIOUS
  <2> QED BY <1>1, <2>1 DEF MemArena!u64
<1>3. y % ARENA_ALIGN \in 0 .. ARENA_ALIGN - 1
  BY <1>1
<1> QED BY <1>1, <1>2, <1>3, ArenaConstants DEF MemArena!ALIGN_UP_POW2

\* What arena_push does, without the wrapping arithmetic.
LEMMA ArenaPush ==
  ASSUME ArenaInductive, NEW s \in Nat, MemArena!arena_push(s)
  PROVE  /\ UNCHANGED capacity
         /\ out'.size = s
         /\ \/ /\ capacity # NULL /\ out'.at \in pos .. pos + ARENA_ALIGN - 1
               /\ pos' = out'.at + s /\ pos' <= capacity
            \/ /\ UNCHANGED pos /\ out'.at = NULL
               /\ capacity = NULL \/ pos + ARENA_ALIGN - 1 + s > capacity
<1> DEFINE aligned == MemArena!ALIGN_UP_POW2(pos)
<1>1. pos \in 0 .. PTRDIFF_MAX
  BY ArenaConstants DEF ArenaInductive
<1>2. aligned \in pos .. pos + ARENA_ALIGN - 1
  BY <1>1, AlignedPosition
<1>3. aligned \in Nat
  BY <1>1, <1>2, ArenaConstants
<1> HIDE DEF aligned
<1>4. /\ UNCHANGED capacity
      /\ IF capacity = NULL \/ aligned > capacity \/ s > capacity - aligned
         THEN UNCHANGED pos /\ out' = [size |-> s, at |-> NULL]
         ELSE pos' = MemArena!u64(aligned + s) /\ out' = [size |-> s, at |-> aligned]
  BY DEF MemArena!arena_push, aligned
<1>5. CASE capacity = NULL \/ aligned > capacity \/ s > capacity - aligned
  BY <1>1, <1>2, <1>3, <1>4, <1>5, ArenaConstants DEF ArenaInductive
<1>6. CASE ~(capacity = NULL \/ aligned > capacity \/ s > capacity - aligned)
  <2>1. capacity \in 0 .. PTRDIFF_MAX /\ aligned + s \in 0 .. capacity
    BY <1>3, <1>6, ArenaConstants DEF ArenaInductive
  <2>2. aligned + s \in Nat /\ aligned + s < U64_MAX + 1 /\ U64_MAX + 1 \in Nat \ {0}
    BY <2>1, ArenaConstants
  <2>3. MemArena!u64(aligned + s) = aligned + s
    <3>1. \A a, b \in Nat : b # 0 /\ a < b => a % b = a
      OBVIOUS
    <3> QED BY <2>2, <3>1 DEF MemArena!u64
  <2>4. pos' = aligned + s /\ out'.at = aligned /\ out'.size = s
    BY <1>4, <1>6, <2>3
  <2> QED BY <1>2, <1>4, <1>6, <2>1, <2>4
<1> QED BY <1>5, <1>6

LEMMA PushKeepsArena ==
  ASSUME ArenaInductive, NEW s \in Nat, MemArena!arena_push(s)
  PROVE  ArenaInductive' /\ (MemArena!Promised!Give \/ MemArena!Promised!Refuse)
<1>1. pos \in Nat /\ (capacity # NULL => capacity \in Nat)
  BY ArenaConstants DEF ArenaInductive
<1>2. /\ UNCHANGED capacity /\ out'.size = s
      /\ \/ /\ capacity # NULL /\ out'.at \in pos .. pos + ARENA_ALIGN - 1
            /\ pos' = out'.at + s /\ pos' <= capacity
         \/ /\ UNCHANGED pos /\ out'.at = NULL
            /\ capacity = NULL \/ pos + ARENA_ALIGN - 1 + s > capacity
  BY ArenaPush
<1>3. CASE /\ capacity # NULL /\ out'.at \in pos .. pos + ARENA_ALIGN - 1
           /\ pos' = out'.at + s /\ pos' <= capacity
  <2>1. ArenaInductive'
    BY <1>1, <1>2, <1>3, ArenaConstants DEF ArenaInductive
  <2>2. out'.at \in pos .. pos + (ARENA_ALIGN - 1)
    BY <1>1, <1>3, ArenaConstants
  <2> QED BY <1>2, <1>3, <2>1, <2>2 DEF MemArena!Promised!Give
<1>4. CASE /\ UNCHANGED pos /\ out'.at = NULL
           /\ capacity = NULL \/ pos + ARENA_ALIGN - 1 + s > capacity
  <2>1. ArenaInductive'
    BY <1>2, <1>4 DEF ArenaInductive
  <2>2. pos + (ARENA_ALIGN - 1) + s > capacity
    BY <1>1, <1>4, ArenaConstants
  <2> QED BY <1>2, <1>4, <2>1, <2>2 DEF MemArena!Promised!Refuse
<1> QED BY <1>2, <1>3, <1>4

LEMMA CreateKeepsArena ==
  ASSUME NEW c \in Capacities, MemArena!arena_create(c)
  PROVE  ArenaInductive' /\ MemArena!Promised!Fresh'
<1>1. pos' = 0 /\ out' = [size |-> 0, at |-> NULL]
  BY DEF MemArena!arena_create, MemArena!NoRequest
<1>2. capacity' = NULL \/ capacity' \in 0 .. PTRDIFF_MAX
  BY DEF MemArena!arena_create
<1> QED BY <1>1, <1>2, ArenaConstants DEF ArenaInductive, MemArena!Promised!Fresh

LEMMA ArenaStep ==
  ASSUME ArenaInductive, MemArena!Next
  PROVE  ArenaInductive' /\ MemArena!Promised!Next
<1>1. ASSUME NEW c \in Capacities, MemArena!arena_create(c)
      PROVE  ArenaInductive' /\ MemArena!Promised!Next
  BY <1>1, CreateKeepsArena DEF MemArena!Promised!Next, MemArena!Promised!Request, MemArena!Promised!Renew
<1>2. ASSUME NEW s \in Sizes, MemArena!arena_push(s)
      PROVE  ArenaInductive' /\ MemArena!Promised!Next
  BY <1>2, PushKeepsArena, ArenaConstants DEF MemArena!Promised!Next, MemArena!Promised!Request, MemArena!Promised!Renew
<1>3. CASE MemArena!arena_destroy
  BY <1>3 DEF MemArena!arena_destroy, MemArena!NoRequest, ArenaInductive,
              MemArena!Promised!Next, MemArena!Promised!Renew, MemArena!Promised!Fresh
<1> QED BY <1>1, <1>2, <1>3 DEF MemArena!Next

LEMMA BumpStep ==
  ASSUME BumpInductive, Bump!Next, ~wrapped'
  PROVE  BumpInductive' /\ Bump!Promised!Request
<1>1. /\ heap \in Nat /\ HeapSize \in Nat /\ UINTPTR_MAX \in Nat
      /\ heap + HeapSize <= UINTPTR_MAX
      /\ \A s \in Requests : s \in Nat
      /\ NULL \notin Nat
  BY RegionAssumptions DEF Bump!RequestAssumption
<1>2. PICK s \in Requests : Bump!my_alloc(s)
  BY DEF Bump!Next
<1>3. heap_ptr \in heap .. heap + HeapSize /\ s \in Nat /\ ~(s + heap_ptr > UINTPTR_MAX)
  <2>1. wrapped' = (wrapped \/ s + heap_ptr > UINTPTR_MAX)
    BY <1>2 DEF Bump!my_alloc, Bump!Wraps
  <2>2. ~wrapped /\ ~(s + heap_ptr > UINTPTR_MAX)
    BY <2>1
  <2> QED BY <1>1, <2>2 DEF BumpInductive
<1>4. /\ s + heap_ptr \in Nat /\ s + heap_ptr = heap_ptr + s /\ s + heap_ptr < UINTPTR_MAX + 1
      /\ UINTPTR_MAX + 1 \in Nat \ {0}
  BY <1>1, <1>3
<1>5. Bump!Pointer(s + heap_ptr) = s + heap_ptr /\ Bump!Pointer(heap_ptr + s) = s + heap_ptr
  <2>1. \A a, b \in Nat : b # 0 /\ a < b => a % b = a
    OBVIOUS
  <2> QED BY <1>4, <2>1 DEF Bump!Pointer
<1>6. CASE s + heap_ptr > heap + HeapSize
  <2>1. UNCHANGED heap_ptr /\ block'.size = s /\ block'.at = NULL
    BY <1>2, <1>5, <1>6 DEF Bump!my_alloc
  <2>2. heap_ptr - heap + 0 + s > HeapSize
    BY <1>1, <1>3, <1>6
  <2>3. BumpInductive'
    BY <1>3, <2>1 DEF BumpInductive
  <2>4. Bump!Promised!Refuse
    BY <2>1, <2>2 DEF Bump!Promised!Refuse
  <2> QED BY <2>3, <2>4 DEF Bump!Promised!Request
<1>7. CASE ~(s + heap_ptr > heap + HeapSize)
  <2>1. block'.at = heap_ptr - heap /\ block'.size = s /\ heap_ptr' = s + heap_ptr
    BY <1>2, <1>5, <1>7 DEF Bump!my_alloc
  <2>2. BumpInductive'
    BY <1>1, <1>3, <1>7, <2>1 DEF BumpInductive
  <2>3. /\ heap_ptr - heap \in heap_ptr - heap .. heap_ptr - heap + 0
        /\ heap_ptr' - heap = heap_ptr - heap + s /\ heap_ptr' - heap <= HeapSize
    BY <1>1, <1>3, <1>7, <2>1
  <2> QED BY <2>1, <2>2, <2>3 DEF Bump!Promised!Request, Bump!Promised!Give
<1> QED BY <1>6, <1>7

LEMMA BumpRegion == FairSpec => Bump!ImplementsRegion
<1>1. AnyInit => BumpInductive /\ Bump!Promised!Init
  <2> SUFFICES ASSUME Bump!Init PROVE BumpInductive /\ Bump!Promised!Init
    BY DEF AnyInit
  <2>1. heap \in Nat /\ HeapSize \in Nat
    BY RegionAssumptions DEF Bump!RequestAssumption
  <2>2. heap_ptr = heap /\ block = [size |-> 0, at |-> NULL]
    BY DEF Bump!Init
  <2> QED BY <2>1, <2>2 DEF BumpInductive, Bump!Promised!Init, Bump!Promised!Fresh
<1>2. BumpInductive /\ [AnyNext]_allVars =>
        BumpInductive' /\ [Bump!Promised!Request \/ wrapped']_(Bump!Promised!vars)
  <2> SUFFICES ASSUME BumpInductive, Bump!Next \/ UNCHANGED bumpVars
               PROVE  BumpInductive' /\ (Bump!Promised!Request \/ wrapped' \/ UNCHANGED Bump!Promised!vars)
    BY BumpSteps
  <2>1. CASE Bump!Next /\ ~wrapped'
    BY <2>1, BumpStep
  <2>2. CASE wrapped'
    BY <2>2 DEF BumpInductive
  <2>3. CASE UNCHANGED bumpVars
    BY <2>3 DEF bumpVars, BumpInductive, Bump!Promised!vars
  <2> QED BY <2>1, <2>2, <2>3
<1> QED BY <1>1, <1>2, PTL DEF FairSpec, Bump!ImplementsRegion

LEMMA GraphConstants ==
  /\ sizeof_Var \in Nat /\ sizeof_matrix \in Nat
  /\ \A shape \in Shapes : shape[1] \in Nat /\ shape[2] \in Nat
  /\ NULL = -1
<1>1. Network!GraphAssumption
  BY RegionAssumptions
<1> QED BY <1>1 DEF Network!GraphAssumption, NULL

LEMMA DataSizeIsNat ==
  ASSUME NEW v \in Variables
  PROVE  DataSize(v) \in Nat
<1>1. v.rows \in Nat /\ v.cols \in Nat
  BY DEF Variables
<1>2. v.rows * v.cols \in Nat
  BY <1>1
<1> QED BY <1>2, GraphConstants DEF DataSize

LEMMA EndIsNat ==
  ASSUME NEW v \in Variables, IsLaidOut(v)
  PROVE  End(v) \in Nat /\ v.at \in Nat /\ v.val \in Nat /\ v.val + sizeof_matrix <= End(v)
<1>1. v.at \in Nat /\ v.val \in Nat /\ v.data \in Offsets
  BY DEF Variables, Offsets, IsLaidOut
<1> QED BY <1>1, DataSizeIsNat, GraphConstants DEF End, IsLaidOut, Offsets

\* A push moves the position up, and the new block lies behind it.
LEMMA PushGrows ==
  ASSUME ArenaInductive, NEW s \in Nat, MemArena!arena_push(s)
  PROVE  /\ ArenaInductive' /\ UNCHANGED capacity
         /\ pos \in Nat /\ pos' \in Nat /\ pos <= pos'
         /\ out'.size = s
         /\ out'.at # NULL => /\ out'.at \in Nat /\ pos <= out'.at
                              /\ out'.at + s <= pos' /\ capacity # NULL
<1>1. pos \in Nat /\ pos' \in Nat
  BY PushKeepsArena, ArenaConstants DEF ArenaInductive
<1> QED BY <1>1, ArenaPush, PushKeepsArena, ArenaConstants

LEMMA GraphStays ==
  ASSUME ArenaInductive, ArenaInductive', GraphIsLaidOut, pos <= pos', UNCHANGED <<capacity, graph>>
  PROVE  GraphIsLaidOut'
<1>1. pos \in Nat /\ pos' \in Nat
  BY ArenaConstants DEF ArenaInductive
<1>2. ASSUME NEW i \in 1 .. Len(graph) PROVE End(graph[i]) \in Nat
  BY EndIsNat DEF GraphIsLaidOut
<1>3. ASSUME NEW i \in 1 .. Len(graph) PROVE End(graph[i]) <= pos'
  <2>1. End(graph[i]) <= pos
    BY DEF GraphIsLaidOut
  <2> QED BY <1>1, <1>2, <2>1
<1> QED BY <1>3 DEF GraphIsLaidOut

\* The variables lie in front of the position, and so of the next block.
LEMMA NextIsBehind ==
  ASSUME ArenaInductive, GraphIsLaidOut, NEW at \in Nat, pos <= at
  PROVE  VarIsBehind(at)
<1>1. pos \in Nat
  BY ArenaConstants DEF ArenaInductive
<1>2. ASSUME NEW i \in 1 .. Len(graph) PROVE End(graph[i]) <= at
  <2>1. End(graph[i]) \in Nat /\ End(graph[i]) <= pos
    BY EndIsNat DEF GraphIsLaidOut
  <2> QED BY <1>1, <2>1
<1> QED BY <1>2 DEF VarIsBehind

LEMMA MainKeepsGraph ==
  ASSUME GraphInductive, component = "autograd", component' = component, Network!main
  PROVE  GraphInductive' /\ MemArena!Promised!Fresh'
<1>1. PICK c \in Capacities : MemArena!arena_create(c)
  BY DEF Network!main, Network!MemArena!arena_create, MemArena!arena_create,
         Network!MemArena!NoRequest, MemArena!NoRequest
<1>2. ArenaInductive' /\ MemArena!Promised!Fresh'
  BY <1>1, CreateKeepsArena
<1>3. graph = <<>> /\ graph' = <<>> /\ var' = var /\ stage' = "idle"
  BY DEF Network!main, GraphInductive, VarIsLaidOut
<1>4. GraphIsLaidOut'
  <2>1. Len(graph') = 0 /\ graph' \in Seq(Variables) /\ 1 .. 0 = {}
    BY <1>3
  <2> QED BY <1>3, <2>1 DEF GraphIsLaidOut
<1>5. VarIsLaidOut'
  BY <1>3 DEF GraphInductive, VarIsLaidOut
<1> QED BY <1>2, <1>4, <1>5 DEF GraphInductive

LEMMA CreateVarKeepsGraph ==
  ASSUME GraphInductive, component = "autograd", component' = component,
         NEW rows \in Nat, NEW cols \in Nat, NEW inputs \in SUBSET (1 .. Len(graph)),
         Network!create_var(rows, cols, inputs)
  PROVE  GraphInductive' /\ (MemArena!Promised!Give \/ MemArena!Promised!Refuse)
<1>1. MemArena!arena_push(sizeof_Var) /\ UNCHANGED graph /\ stage' = "Var"
  BY DEF Network!create_var, Network!MemArena!arena_push, MemArena!arena_push,
         Network!MemArena!ALIGN_UP_POW2, MemArena!ALIGN_UP_POW2,
         Network!MemArena!u64, MemArena!u64
<1>2. ArenaInductive /\ GraphIsLaidOut
  BY DEF GraphInductive
<1>3. /\ ArenaInductive' /\ UNCHANGED capacity
      /\ pos \in Nat /\ pos' \in Nat /\ pos <= pos'
      /\ out'.size = sizeof_Var
      /\ out'.at # NULL => /\ out'.at \in Nat /\ pos <= out'.at
                           /\ out'.at + sizeof_Var <= pos' /\ capacity # NULL
  BY <1>1, <1>2, GraphConstants, PushGrows
<1>4. GraphIsLaidOut'
  BY <1>1, <1>2, <1>3, GraphStays
<1>5. var' \in Variables /\ var'.data = NULL /\ var'.inputs = inputs
  <2>1. /\ var' = [at |-> NULL, val |-> NULL, data |-> NULL, rows |-> rows, cols |-> cols, inputs |-> inputs]
    BY DEF Network!create_var, Network!NoVar
  <2>2. inputs \in SUBSET Nat
    OBVIOUS
  <2>3. NULL \in Offsets
    BY DEF Offsets
  <2> QED BY <2>1, <2>2, <2>3 DEF Variables
<1>6. out'.at # NULL => VarIsBehind(out'.at)
  BY <1>2, <1>3, NextIsBehind
<1>7. VarIsLaidOut'
  BY <1>1, <1>3, <1>5, <1>6, GraphConstants DEF VarIsLaidOut, LatestFits, VarIsBehind
<1> QED BY <1>1, <1>2, <1>3, <1>4, <1>7, PushKeepsArena, GraphConstants DEF GraphInductive

LEMMA CreateMatrixKeepsGraph ==
  ASSUME GraphInductive, component = "autograd", component' = component, Network!create_matrix
  PROVE  GraphInductive' /\ (MemArena!Promised!Give \/ MemArena!Promised!Refuse)
<1>1. MemArena!arena_push(sizeof_matrix) /\ UNCHANGED graph /\ stage = "Var" /\ stage' = "matrix" /\ out.at # NULL
  BY DEF Network!create_matrix, Network!MemArena!arena_push, MemArena!arena_push,
         Network!MemArena!ALIGN_UP_POW2, MemArena!ALIGN_UP_POW2,
         Network!MemArena!u64, MemArena!u64
<1>2. ArenaInductive /\ GraphIsLaidOut
  BY DEF GraphInductive
<1>3. /\ ArenaInductive' /\ UNCHANGED capacity
      /\ pos \in Nat /\ pos' \in Nat /\ pos <= pos'
      /\ out'.size = sizeof_matrix
      /\ out'.at # NULL => /\ out'.at \in Nat /\ pos <= out'.at
                           /\ out'.at + sizeof_matrix <= pos' /\ capacity # NULL
  BY <1>1, <1>2, GraphConstants, PushGrows
<1>4. GraphIsLaidOut'
  BY <1>1, <1>2, <1>3, GraphStays
<1>5. /\ var \in Variables /\ var.data = NULL /\ var.inputs \subseteq 1 .. Len(graph)
      /\ out.at \in Nat /\ out.at + sizeof_Var <= pos /\ VarIsBehind(out.at) /\ capacity # NULL
  BY <1>1 DEF GraphInductive, VarIsLaidOut, LatestFits
<1>6. /\ var' \in Variables /\ var'.data = NULL /\ var'.inputs = var.inputs
      /\ var'.at = out.at
  <2>1. var' = [var EXCEPT !.at = out.at]
    BY DEF Network!create_matrix
  <2>2. out.at \in Offsets
    BY <1>5 DEF Offsets
  <2> QED BY <1>5, <2>1, <2>2 DEF Variables
<1>7. VarIsBehind(var.at)'
  BY <1>1, <1>5, <1>6 DEF VarIsBehind
<1>8. out'.at # NULL => var'.at + sizeof_Var <= out'.at
  BY <1>3, <1>5, <1>6, GraphConstants
<1>9. VarIsLaidOut'
  BY <1>1, <1>3, <1>5, <1>6, <1>7, <1>8, GraphConstants DEF VarIsLaidOut, LatestFits
<1> QED BY <1>1, <1>2, <1>3, <1>4, <1>9, PushKeepsArena, GraphConstants DEF GraphInductive

LEMMA PushDataKeepsGraph ==
  ASSUME GraphInductive, component = "autograd", component' = component, Network!push_data
  PROVE  GraphInductive' /\ (MemArena!Promised!Give \/ MemArena!Promised!Refuse)
<1> DEFINE s == DataSize(var)
<1>0. /\ var \in Variables /\ var.data = NULL /\ var.inputs \subseteq 1 .. Len(graph)
      /\ out.at \in Nat /\ out.at + sizeof_matrix <= pos
      /\ VarIsBehind(var.at) /\ capacity # NULL /\ var.at + sizeof_Var <= out.at
  BY DEF Network!push_data, GraphInductive, VarIsLaidOut, LatestFits
<1>1. MemArena!arena_push(s) /\ UNCHANGED graph /\ stage' = "data"
  BY DEF Network!push_data, DataSize, Network!MemArena!arena_push, MemArena!arena_push,
         Network!MemArena!ALIGN_UP_POW2, MemArena!ALIGN_UP_POW2,
         Network!MemArena!u64, MemArena!u64
<1>2. ArenaInductive /\ GraphIsLaidOut /\ s \in Nat
  BY <1>0, DataSizeIsNat DEF GraphInductive
<1>3. var' \in Variables /\ var' = [var EXCEPT !.val = out.at]
  <2>1. var' = [var EXCEPT !.val = out.at]
    BY DEF Network!push_data
  <2>2. out.at \in Offsets
    BY <1>0 DEF Offsets
  <2> QED BY <1>0, <2>1, <2>2 DEF Variables
<1>4. /\ var'.data = NULL /\ var'.inputs = var.inputs /\ var'.at = var.at /\ var'.val = out.at
      /\ DataSize(var)' = s
  BY <1>0, <1>3 DEF Variables, DataSize
<1> HIDE DEF s
<1>5. /\ ArenaInductive' /\ UNCHANGED capacity
      /\ pos \in Nat /\ pos' \in Nat /\ pos <= pos'
      /\ out'.size = s
      /\ out'.at # NULL => /\ out'.at \in Nat /\ pos <= out'.at
                           /\ out'.at + s <= pos' /\ capacity # NULL
  BY <1>1, <1>2, PushGrows
<1>6. GraphIsLaidOut'
  BY <1>1, <1>2, <1>5, GraphStays
<1>7. VarIsBehind(var.at)'
  BY <1>0, <1>1, <1>4 DEF VarIsBehind
<1>8. /\ var'.val + sizeof_matrix <= pos'
      /\ out'.at # NULL => var'.val + sizeof_matrix <= out'.at
  BY <1>0, <1>4, <1>5, GraphConstants
<1>9. var'.val # NULL
  BY <1>0, <1>4, GraphConstants
<1>10. VarIsLaidOut'
  BY <1>0, <1>1, <1>2, <1>3, <1>4, <1>5, <1>7, <1>8, <1>9 DEF VarIsLaidOut, LatestFits
<1> QED BY <1>1, <1>2, <1>5, <1>6, <1>10, PushKeepsArena DEF GraphInductive

LEMMA FinishKeepsGraph ==
  ASSUME GraphInductive, component = "autograd", component' = component, Network!Finish
  PROVE  GraphInductive'
<1> DEFINE new == [var EXCEPT !.data = out.at]
<1>1. /\ stage = "data" /\ graph' = Append(graph, new) /\ var' = Network!NoVar /\ stage' = "idle"
      /\ UNCHANGED <<capacity, pos, out>>
  BY DEF Network!Finish, Network!arenaVars
<1>2. /\ var \in Variables /\ var.inputs \subseteq 1 .. Len(graph)
      /\ VarIsBehind(var.at) /\ capacity # NULL
      /\ var.val # NULL /\ var.at + sizeof_Var <= var.val /\ var.val + sizeof_matrix <= pos
      /\ out.size = DataSize(var) /\ LatestFits
      /\ out.at # NULL => var.val + sizeof_matrix <= out.at
      /\ ArenaInductive /\ GraphIsLaidOut
  BY <1>1 DEF GraphInductive, VarIsLaidOut
<1>3. /\ new \in Variables /\ new.at = var.at /\ new.val = var.val /\ new.data = out.at
      /\ new.inputs = var.inputs /\ DataSize(new) = out.size
  <2>1. out.at \in Offsets
    BY <1>2 DEF LatestFits, Offsets
  <2> QED BY <1>2, <2>1 DEF Variables, DataSize
<1> HIDE DEF new
<1>4. IsLaidOut(new)
  BY <1>2, <1>3, GraphConstants DEF IsLaidOut, VarIsBehind
<1>5. End(new) <= pos
  BY <1>2, <1>3 DEF End, LatestFits
<1>6. graph \in Seq(Variables) /\ graph' \in Seq(Variables) /\ Len(graph) \in Nat
      /\ Len(graph') = Len(graph) + 1 /\ graph'[Len(graph) + 1] = new
      /\ \A i \in 1 .. Len(graph) : graph'[i] = graph[i]
  BY <1>1, <1>2, <1>3 DEF GraphIsLaidOut
<1>7. \A i \in 1 .. Len(graph) :
        /\ IsLaidOut(graph[i]) /\ End(graph[i]) <= pos
        /\ graph[i].inputs \subseteq 1 .. i - 1
        /\ End(graph[i]) <= var.at
        /\ \A j \in i + 1 .. Len(graph) : End(graph[i]) <= graph[j].at
  BY <1>2 DEF GraphIsLaidOut, VarIsBehind
<1>8. GraphIsLaidOut'
  <2> DEFINE Fine(i) == /\ IsLaidOut(graph'[i]) /\ End(graph'[i]) <= pos'
                        /\ graph'[i].inputs \subseteq 1 .. i - 1
                        /\ \A j \in i + 1 .. Len(graph') : End(graph'[i]) <= graph'[j].at
  <2>1. ASSUME NEW i \in 1 .. Len(graph) PROVE Fine(i)
    <3>1. graph'[i] = graph[i]
      BY <1>6
    <3>2. ASSUME NEW j \in i + 1 .. Len(graph') PROVE End(graph[i]) <= graph'[j].at
      <4>1. j \in i + 1 .. Len(graph) \/ j = Len(graph) + 1
        BY <1>6
      <4>2. \A k \in i + 1 .. Len(graph) : k \in 1 .. Len(graph)
        BY <1>6
      <4> QED BY <1>3, <1>6, <1>7, <4>1, <4>2
    <3> QED BY <1>1, <1>7, <3>1, <3>2
  <2>2. Fine(Len(graph) + 1)
    <3>1. (Len(graph) + 1) + 1 .. Len(graph') = {} /\ 1 .. (Len(graph) + 1) - 1 = 1 .. Len(graph)
      BY <1>6
    <3> QED BY <1>1, <1>2, <1>3, <1>4, <1>5, <1>6, <3>1
  <2>3. \A i \in 1 .. Len(graph') : i \in 1 .. Len(graph) \/ i = Len(graph) + 1
    BY <1>6
  <2>4. \A i \in 1 .. Len(graph') : Fine(i)
    <3> HIDE DEF Fine
    <3> QED BY <2>1, <2>2, <2>3
  <2> QED BY <1>1, <1>2, <1>6, <2>4 DEF GraphIsLaidOut
<1>9. VarIsLaidOut'
  <2>1. NULL \in Offsets
    BY DEF Offsets
  <2>2. var' \in Variables /\ var'.data = NULL /\ var'.inputs = {}
    BY <1>1, <2>1 DEF Network!NoVar, Variables
  <2> QED BY <1>1, <2>2 DEF VarIsLaidOut
<1>10. ArenaInductive'
  BY <1>1, <1>2 DEF ArenaInductive
<1> QED BY <1>8, <1>9, <1>10 DEF GraphInductive

\* A step of the arena alone, or of a graph in its arena.
LEMMA GraphStep ==
  GraphInductive /\ [AnyNext]_allVars =>
    GraphInductive' /\ [MemArena!Promised!Next]_(MemArena!Promised!vars)
<1> SUFFICES ASSUME GraphInductive, [AnyNext]_allVars
             PROVE  GraphInductive' /\ (MemArena!Promised!Next \/ UNCHANGED arenaVars)
  BY DEF MemArena!Promised!vars, arenaVars
<1>1. component' = component
  BY ComponentStays
<1>2. CASE component = "arena" /\ MemArena!Next /\ UNCHANGED graphVars
  <2>1. stage = "start" /\ graph = <<>> /\ ArenaInductive /\ GraphIsLaidOut /\ VarIsLaidOut
    BY <1>2 DEF GraphInductive, VarIsLaidOut
  <2>2. ArenaInductive' /\ MemArena!Promised!Next
    BY <1>2, <2>1, ArenaStep
  <2>3. GraphIsLaidOut'
    <3>1. Len(<<>>) = 0 /\ 1 .. 0 = {}
      OBVIOUS
    <3> QED BY <1>2, <2>1, <3>1 DEF graphVars, GraphIsLaidOut
  <2>4. VarIsLaidOut'
    BY <1>2, <2>1 DEF graphVars, VarIsLaidOut
  <2> QED BY <1>1, <1>2, <2>1, <2>2, <2>3, <2>4 DEF GraphInductive, graphVars
<1>3. CASE component = "autograd" /\ Network!Next
  <2>1. CASE Network!main
    BY <1>1, <1>3, <2>1, MainKeepsGraph DEF MemArena!Promised!Next, MemArena!Promised!Request, MemArena!Promised!Renew
  <2>2. CASE Network!create_matrix
    BY <1>1, <1>3, <2>2, CreateMatrixKeepsGraph DEF MemArena!Promised!Next, MemArena!Promised!Request, MemArena!Promised!Renew
  <2>3. CASE Network!push_data
    BY <1>1, <1>3, <2>3, PushDataKeepsGraph DEF MemArena!Promised!Next, MemArena!Promised!Request, MemArena!Promised!Renew
  <2>4. CASE Network!Finish
    BY <1>1, <1>3, <2>4, FinishKeepsGraph DEF Network!Finish, Network!arenaVars, arenaVars
  <2>5. CASE Network!NullWrite
    <3>1. UNCHANGED <<capacity, pos, out, var, graph>> /\ stage' = "crashed" /\ stage \in {"Var", "matrix"}
      BY <2>5 DEF Network!NullWrite, Network!arenaVars
    <3>2. ArenaInductive' /\ GraphIsLaidOut'
      BY <3>1 DEF GraphInductive, ArenaInductive, GraphIsLaidOut
    <3>3. VarIsLaidOut'
      BY <3>1 DEF GraphInductive, VarIsLaidOut
    <3> QED BY <1>1, <1>3, <3>1, <3>2, <3>3 DEF GraphInductive, arenaVars
  <2>6. ASSUME NEW shape \in Shapes,
               Network!create_var(shape[1], shape[2], {}) \/ Network!create_node(shape[1], shape[2])
        PROVE  GraphInductive' /\ MemArena!Promised!Next
    <3>1. PICK inputs \in SUBSET (1 .. Len(graph)) : Network!create_var(shape[1], shape[2], inputs)
      BY <2>6 DEF Network!create_node
    <3>2. shape[1] \in Nat /\ shape[2] \in Nat
      BY GraphConstants
    <3> QED BY <1>1, <1>3, <3>1, <3>2, CreateVarKeepsGraph DEF MemArena!Promised!Next, MemArena!Promised!Request, MemArena!Promised!Renew
  <2> QED BY <1>3, <2>1, <2>2, <2>3, <2>4, <2>5, <2>6 DEF Network!Next
<1>4. CASE UNCHANGED <<arenaVars, graphVars>>
  <2>1. UNCHANGED <<capacity, pos, out, stage, var, graph>>
    BY <1>4 DEF arenaVars, graphVars
  <2>2. ArenaInductive' /\ GraphIsLaidOut'
    BY <2>1 DEF GraphInductive, ArenaInductive, GraphIsLaidOut
  <2>3. VarIsLaidOut'
    BY <2>1 DEF GraphInductive, VarIsLaidOut, LatestFits, VarIsBehind
  <2> QED BY <1>1, <2>1, <2>2, <2>3 DEF GraphInductive, arenaVars
<1> QED BY <1>2, <1>3, <1>4, ArenaSteps

LEMMA GraphInit == AnyInit => GraphInductive /\ MemArena!Promised!Init
<1> SUFFICES ASSUME MemArena!Init, Network!Init PROVE GraphInductive /\ MemArena!Promised!Init
  BY DEF AnyInit
<1>1. /\ capacity = NULL /\ pos = 0 /\ out = [size |-> 0, at |-> NULL]
      /\ stage = "start" /\ var = Network!NoVar /\ graph = <<>>
  BY DEF MemArena!Init, MemArena!NoRequest, Network!Init
<1>2. ArenaInductive /\ MemArena!Promised!Init
  BY <1>1 DEF ArenaInductive, MemArena!Promised!Init, MemArena!Promised!Fresh
<1>3. GraphIsLaidOut
  <2>1. Len(<<>>) = 0 /\ 1 .. 0 = {} /\ <<>> \in Seq(Variables)
    OBVIOUS
  <2> QED BY <1>1, <2>1 DEF GraphIsLaidOut
<1>4. VarIsLaidOut
  <2>1. NULL \in Offsets
    BY DEF Offsets
  <2>2. var \in Variables /\ var.data = NULL /\ var.inputs = {}
    BY <1>1, <2>1 DEF Network!NoVar, Variables
  <2> QED BY <1>1, <2>2 DEF VarIsLaidOut
<1> QED BY <1>1, <1>2, <1>3, <1>4 DEF GraphInductive

LEMMA GraphInductiveHolds == FairSpec => []GraphInductive
BY GraphInit, GraphStep, PTL DEF FairSpec

\* Every block of the arena lies behind the ones before it and inside it, and a
\* request is refused only for want of room, for all sizes and although positions
\* are aligned and added up modulo 2^64 (arena.c:31).  The same holds of the static
\* array until a request carries my_alloc's pointer past the largest address;
\* its test does not see that, and no more is claimed (bump_allocator/main.cpp:10).
THEOREM BlocksAreApart == FairSpec => ImplementsRegion
BY GraphInit, GraphStep, BumpRegion, PTL
   DEF FairSpec, ImplementsRegion, MemArena!ImplementsRegion, MemArena!Promised!Spec

-----------------------------------------------------------------------------
LEMMA CellsApart ==
  ASSUME NEW a \in Nat, NEW s \in Nat, NEW b \in Nat, NEW t \in Nat, a + s <= b
  PROVE  Network!Cells(a, s) \cap Network!Cells(b, t) = {}
BY GraphConstants DEF Network!Cells

LEMMA CellsInside ==
  ASSUME NEW a \in Nat, NEW s \in Nat, NEW low \in Nat, NEW high \in Nat, low <= a, a + s <= high
  PROVE  Network!Cells(a, s) \subseteq low .. high - 1
BY GraphConstants DEF Network!Cells

\* The structs of a variable are disjoint and lie between its start and its end.
LEMMA StructsOfOne ==
  ASSUME NEW v \in Variables, IsLaidOut(v)
  PROVE  /\ UNION Network!Structs(v) \subseteq v.at .. End(v) - 1
         /\ \A c, d \in Network!Structs(v) : c = d \/ c \cap d = {}
<1> DEFINE A == Network!Cells(v.at, sizeof_Var)
           V == Network!Cells(v.val, sizeof_matrix)
           D == Network!Cells(v.data, sizeof_matrix * v.rows * v.cols)
<1>1. v.at \in Nat /\ v.val \in Nat /\ End(v) \in Nat /\ v.val + sizeof_matrix <= End(v)
  BY EndIsNat
<1>2. v.at + sizeof_Var <= v.val /\ (v.data # NULL => v.val + sizeof_matrix <= v.data)
  BY DEF IsLaidOut
<1>3. sizeof_matrix * v.rows * v.cols = DataSize(v) /\ DataSize(v) \in Nat
  <2>1. v.rows \in Nat /\ v.cols \in Nat
    BY DEF Variables
  <2> QED BY <2>1, DataSizeIsNat, GraphConstants DEF DataSize
<1>4. A \subseteq v.at .. End(v) - 1 /\ V \subseteq v.at .. End(v) - 1
  <2>1. v.at + sizeof_Var <= End(v) /\ v.at <= v.at /\ v.at <= v.val
    BY <1>1, <1>2, GraphConstants
  <2>2. A \subseteq v.at .. End(v) - 1
    BY <1>1, <2>1, CellsInside, GraphConstants
  <2>3. V \subseteq v.at .. End(v) - 1
    BY <1>1, <2>1, CellsInside, GraphConstants
  <2> QED BY <2>2, <2>3
<1>5. A \cap V = {}
  BY <1>1, <1>2, CellsApart, GraphConstants
<1>6. D \subseteq v.at .. End(v) - 1 /\ A \cap D = {} /\ V \cap D = {}
  <2>1. CASE v.data = NULL
    BY <2>1 DEF Network!Cells
  <2>2. CASE v.data # NULL
    <3>1. v.data \in Nat /\ v.data + DataSize(v) = End(v)
      BY <2>2 DEF Variables, Offsets, End
    <3>2. v.at <= v.data /\ v.at + sizeof_Var <= v.data /\ v.val + sizeof_matrix <= v.data
      BY <1>1, <1>2, <2>2, <3>1, GraphConstants
    <3>3. v.data + DataSize(v) <= End(v)
      BY <1>1, <3>1
    <3> HIDE DEF A, V
    <3>4. D \subseteq v.at .. End(v) - 1
      BY <1>1, <1>3, <3>1, <3>2, <3>3, CellsInside
    <3>5. A \cap D = {}
      BY <1>1, <1>3, <3>1, <3>2, CellsApart, GraphConstants DEF A
    <3>6. V \cap D = {}
      BY <1>1, <1>3, <3>1, <3>2, CellsApart, GraphConstants DEF V
    <3> QED BY <3>4, <3>5, <3>6
  <2> QED BY <2>1, <2>2
<1>7. Network!Structs(v) = {A, V, D}
  BY DEF Network!Structs
<1> HIDE DEF A, V, D
<1>8. UNION {A, V, D} = A \cup V \cup D
  OBVIOUS
<1>9. UNION Network!Structs(v) \subseteq v.at .. End(v) - 1
  BY <1>4, <1>6, <1>7, <1>8
<1>10. \A c, d \in {A, V, D} : c = d \/ c \cap d = {}
  BY <1>5, <1>6
<1> QED BY <1>7, <1>9, <1>10

LEMMA LaidOutIsApart == GraphInductive => GraphInvariant
<1> SUFFICES ASSUME GraphInductive PROVE Network!GraphInvariant
  BY DEF GraphInvariant
<1>1. /\ graph \in Seq(Variables)
      /\ \A i \in 1 .. Len(graph) :
           /\ graph[i] \in Variables /\ IsLaidOut(graph[i]) /\ End(graph[i]) <= pos
           /\ graph[i].inputs \subseteq 1 .. i - 1
           /\ \A j \in i + 1 .. Len(graph) : End(graph[i]) <= graph[j].at
      /\ graph # <<>> => capacity # NULL
  BY DEF GraphInductive, GraphIsLaidOut
<1>2. pos \in Nat /\ (capacity # NULL => pos <= capacity)
  BY ArenaConstants DEF GraphInductive, ArenaInductive
<1>3. ASSUME NEW i \in 1 .. Len(graph)
      PROVE  /\ End(graph[i]) \in Nat /\ graph[i].at \in Nat
             /\ UNION Network!Structs(graph[i]) \subseteq graph[i].at .. End(graph[i]) - 1
             /\ \A c, d \in Network!Structs(graph[i]) : c = d \/ c \cap d = {}
  BY <1>1, EndIsNat, StructsOfOne
<1>4. ASSUME NEW i \in 1 .. Len(graph)
      PROVE  UNION Network!Structs(graph[i]) \subseteq 0 .. pos - 1
  <2>1. graph[i].at .. End(graph[i]) - 1 \subseteq 0 .. pos - 1
    BY <1>1, <1>2, <1>3
  <2> QED BY <1>3, <2>1
<1>5. ASSUME NEW i \in 1 .. Len(graph), NEW j \in 1 .. i - 1
      PROVE  (UNION Network!Structs(graph[i])) \cap (UNION Network!Structs(graph[j])) = {}
  <2>1. j \in 1 .. Len(graph) /\ i \in j + 1 .. Len(graph)
    OBVIOUS
  <2>2. End(graph[j]) <= graph[i].at
    BY <1>1, <2>1
  <2>3. (graph[i].at .. End(graph[i]) - 1) \cap (graph[j].at .. End(graph[j]) - 1) = {}
    BY <1>3, <2>1, <2>2
  <2> QED BY <1>3, <2>1, <2>3
<1> QED BY <1>1, <1>2, <1>3, <1>4, <1>5 DEF Network!GraphInvariant

\* The structs and the data of all variables are disjoint and inside the arena,
\* and the graph has no cycle, if the arena runs out in the middle of a variable
\* too (autograd.c:63, 98).
THEOREM VariablesAreApart == FairSpec => []GraphInvariant
BY GraphInductiveHolds, LaidOutIsApart, PTL

-----------------------------------------------------------------------------
(* MyVector *)

\* The block is as long as the capacity, and the elements are its first cells.
Cells == Values \cup {Garbage}
VectorInductive ==
  /\ data \in Seq(Cells)
  /\ _capacity = Len(data)
  /\ _size \in 0 .. _capacity

LEMMA FunctionIsSeq ==
  ASSUME NEW S, NEW l \in Nat, NEW f \in [1 .. l -> S]
  PROVE  f \in Seq(S) /\ Len(f) = l
<1>1. f \in Seq(S)
  BY SeqDef
<1> QED BY <1>1, LenProperties

LEMMA VectorBounds == MaxCapacity \in Nat
BY ContainerAssumptions DEF Vector!VectorAssumption

elements == SubSeq(data, 1, _size)

\* The elements are the first cells of the block.
LEMMA Elements ==
  ASSUME NEW d \in Seq(Cells), NEW s \in 0 .. Len(d)
  PROVE  /\ SubSeq(d, 1, s) \in Seq(Cells)
         /\ Len(SubSeq(d, 1, s)) = s
         /\ \A i \in 1 .. s : SubSeq(d, 1, s)[i] = d[i]
<1>1. Len(d) \in Nat
  OBVIOUS
<1>2. \A i \in 1 .. s : d[i] \in Cells
  BY <1>1
<1>3. /\ SubSeq(d, 1, s) \in Seq(Cells)
      /\ Len(SubSeq(d, 1, s)) = IF 1 <= s THEN s - 1 + 1 ELSE 0
      /\ \A i \in 1 .. s - 1 + 1 : SubSeq(d, 1, s)[i] = d[1 + i - 1]
  BY <1>2, SubSeqProperties
<1>4. s \in Nat /\ s - 1 + 1 = s /\ \A i \in 1 .. s : 1 + i - 1 = i
  BY <1>1
<1> QED BY <1>3, <1>4

\* Equal first cells are equal elements, in whatever block.
LEMMA SameElements ==
  ASSUME NEW d \in Seq(Cells), NEW e \in Seq(Cells), NEW s \in Nat,
         s <= Len(d), s <= Len(e), \A i \in 1 .. s : d[i] = e[i]
  PROVE  SubSeq(d, 1, s) = SubSeq(e, 1, s)
<1>1. Len(d) \in Nat /\ Len(e) \in Nat
  OBVIOUS
<1>2. s \in 0 .. Len(d) /\ s \in 0 .. Len(e)
  BY <1>1
<1> QED BY <1>2, Elements, SeqEqual

\* A resized block keeps the elements it has room for.
LEMMA MovedKeeps ==
  ASSUME VectorInductive, NEW c \in Nat
  PROVE  /\ Vector!Moved(c) \in Seq(Cells) /\ Len(Vector!Moved(c)) = c
         /\ \A i \in 1 .. c : i <= _size => Vector!Moved(c)[i] = data[i]
<1>1. _size \in Nat /\ _size <= Len(data) /\ Len(data) \in Nat
  BY DEF VectorInductive
<1>2. \A i \in 1 .. c : i <= _size => data[i] \in Cells
  BY <1>1 DEF VectorInductive
<1>3. Vector!Moved(c) \in [1 .. c -> Cells]
  BY <1>2 DEF Vector!Moved, Cells
<1>4. Vector!Moved(c) \in Seq(Cells) /\ Len(Vector!Moved(c)) = c
  BY <1>3, FunctionIsSeq
<1> QED BY <1>4 DEF Vector!Moved

LEMMA ResizeKeeps ==
  ASSUME VectorInductive, NEW c \in Nat, _size <= c, Vector!resize(c), UNCHANGED _size
  PROVE  VectorInductive' /\ elements' = elements
<1>1. data' \in Seq(Cells) /\ Len(data') = c /\ _capacity' = c
      /\ \A i \in 1 .. c : i <= _size => data'[i] = data[i]
  BY MovedKeeps DEF Vector!resize
<1>2. data \in Seq(Cells) /\ _size \in Nat /\ _size <= Len(data)
  BY DEF VectorInductive
<1>3. VectorInductive'
  BY <1>1, <1>2 DEF VectorInductive
<1>4. \A i \in 1 .. _size : data'[i] = data[i]
  BY <1>1, <1>2
<1>5. SubSeq(data', 1, _size) = SubSeq(data, 1, _size)
  BY <1>1, <1>2, <1>4, SameElements
<1> QED BY <1>3, <1>5 DEF elements

\* There is room for one more element behind the elements.
LEMMA RoomHolds ==
  ASSUME VectorInductive
  PROVE  /\ Vector!Room \in Seq(Cells) /\ Len(Vector!Room) \in Nat /\ _size + 1 <= Len(Vector!Room)
         /\ \A i \in 1 .. _size : Vector!Room[i] = data[i]
<1>1. /\ data \in Seq(Cells) /\ _size \in Nat /\ _capacity \in Nat
      /\ Len(data) = _capacity /\ _size <= _capacity
  BY DEF VectorInductive
<1>2. CASE Vector!Full
  <2>1. Vector!Doubled \in Nat /\ _size + 1 <= Vector!Doubled
    BY <1>1, <1>2 DEF Vector!Full, Vector!Doubled
  <2>2. Vector!Room = Vector!Moved(Vector!Doubled)
    BY <1>2 DEF Vector!Room
  <2> HIDE DEF Vector!Doubled
  <2>3. /\ Vector!Room \in Seq(Cells) /\ Len(Vector!Room) = Vector!Doubled
        /\ \A i \in 1 .. Vector!Doubled : i <= _size => Vector!Room[i] = data[i]
    BY <2>1, <2>2, MovedKeeps
  <2> QED BY <1>1, <2>1, <2>3
<1>3. CASE ~Vector!Full
  <2>1. Vector!Room = data /\ _size + 1 <= _capacity
    BY <1>1, <1>3 DEF Vector!Room, Vector!Full
  <2> QED BY <1>1, <2>1
<1> QED BY <1>2, <1>3

\* The cells with v at index and the elements from index on one place further.
Opened(index, v) ==
  [k \in DOMAIN Vector!Room |->
     IF k = index + 1 THEN v
     ELSE IF k \in index + 2 .. _size + 1 THEN Vector!Room[k - 1] ELSE Vector!Room[k]]

LEMMA InsertAtIs ==
  ASSUME NEW s, NEW i, NEW v
  PROVE  Vector!Promised!InsertAt(s, i, v) =
           (SubSeq(s, 1, i - 1) \o <<v>>) \o SubSeq(s, i, Len(s))
BY DEF Vector!Promised!InsertAt

LEMMA OpenedIsInsertAt ==
  ASSUME VectorInductive, NEW v \in Values, NEW index \in 0 .. _size
  PROVE  /\ Opened(index, v) \in Seq(Cells) /\ Len(Opened(index, v)) = Len(Vector!Room)
         /\ SubSeq(Opened(index, v), 1, _size + 1) = Vector!Promised!InsertAt(elements, index + 1, v)
<1> DEFINE new == Opened(index, v)
<1>1. /\ Vector!Room \in Seq(Cells) /\ Len(Vector!Room) \in Nat /\ _size + 1 <= Len(Vector!Room)
      /\ \A i \in 1 .. _size : Vector!Room[i] = data[i]
  BY RoomHolds
<1>2. data \in Seq(Cells) /\ _size \in 0 .. Len(data) /\ _size \in Nat /\ index \in Nat /\ index <= _size
  BY DEF VectorInductive
<1>3. DOMAIN Vector!Room = 1 .. Len(Vector!Room) /\ v \in Cells
  BY <1>1 DEF Cells
<1>4. \A k \in 1 .. Len(Vector!Room) : Vector!Room[k] \in Cells
  BY <1>1
<1>5. \A k \in index + 2 .. _size + 1 : k - 1 \in 1 .. Len(Vector!Room) /\ k - 1 \in 1 .. _size
  BY <1>1, <1>2
<1>6. new \in [1 .. Len(Vector!Room) -> Cells]
  BY <1>3, <1>4, <1>5 DEF Opened
<1>7. \A k \in 1 .. Len(Vector!Room) :
        new[k] = IF k = index + 1 THEN v
                 ELSE IF k \in index + 2 .. _size + 1 THEN Vector!Room[k - 1] ELSE Vector!Room[k]
  BY <1>3 DEF Opened
<1> HIDE DEF new
<1>8. new \in Seq(Cells) /\ Len(new) = Len(Vector!Room)
  BY <1>1, <1>6, FunctionIsSeq
<1>9. /\ SubSeq(new, 1, _size + 1) \in Seq(Cells)
      /\ Len(SubSeq(new, 1, _size + 1)) = _size + 1
      /\ \A k \in 1 .. _size + 1 : SubSeq(new, 1, _size + 1)[k] = new[k]
  <2>1. _size + 1 \in 0 .. Len(new)
    BY <1>1, <1>2, <1>8
  <2> QED BY <1>8, <2>1, Elements
<1>10. /\ elements \in Seq(Cells) /\ Len(elements) = _size
       /\ \A i \in 1 .. _size : elements[i] = data[i]
  BY <1>2, Elements DEF elements
<1> DEFINE front == SubSeq(elements, 1, index)
           back == SubSeq(elements, index + 1, _size)
           upto == front \o <<v>>
           all == upto \o back
<1>11. /\ front \in Seq(Cells) /\ Len(front) = index
       /\ \A i \in 1 .. index : front[i] = data[i]
  <2>1. index \in 0 .. Len(elements) /\ \A i \in 1 .. index : i \in 1 .. _size
    BY <1>2, <1>10
  <2> QED BY <1>10, <2>1, Elements
<1>12. /\ back \in Seq(Cells) /\ Len(back) = _size - index
       /\ \A i \in 1 .. _size - index : back[i] = data[index + i]
  <2>1. \A i \in index + 1 .. _size : elements[i] \in Cells /\ i \in 1 .. _size
    BY <1>2, <1>10
  <2>2. index + 1 \in Int /\ _size \in Int
    BY <1>2
  <2>3. /\ back \in Seq(Cells)
        /\ Len(back) = IF index + 1 <= _size THEN _size - (index + 1) + 1 ELSE 0
        /\ \A i \in 1 .. _size - (index + 1) + 1 : back[i] = elements[index + 1 + i - 1]
    BY <2>1, <2>2, SubSeqProperties
  <2>4. _size - (index + 1) + 1 = _size - index /\ (~(index + 1 <= _size) => _size - index = 0)
    BY <1>2
  <2>5. \A i \in 1 .. _size - index : index + 1 + i - 1 = index + i /\ index + i \in 1 .. _size
    BY <1>2
  <2> HIDE DEF back
  <2> QED BY <1>10, <2>3, <2>4, <2>5
<1> HIDE DEF front, back
<1>13. /\ upto \in Seq(Cells) /\ Len(upto) = index + 1
       /\ \A i \in 1 .. index + 1 : upto[i] = IF i <= index THEN front[i] ELSE v
  <2>1. <<v>> \in Seq(Cells) /\ Len(<<v>>) = 1 /\ <<v>>[1] = v
    BY <1>3
  <2>2. /\ upto \in Seq(Cells) /\ Len(upto) = index + 1
        /\ \A i \in 1 .. index + 1 : upto[i] = IF i <= index THEN front[i] ELSE <<v>>[i - index]
    BY <1>11, <2>1, ConcatProperties
  <2>3. \A i \in 1 .. index + 1 : ~(i <= index) => i - index = 1
    BY <1>2
  <2> QED BY <2>1, <2>2, <2>3
<1> HIDE DEF upto
<1>14. /\ all \in Seq(Cells) /\ Len(all) = _size + 1
       /\ \A i \in 1 .. _size + 1 :
            all[i] = IF i <= index + 1 THEN upto[i] ELSE back[i - (index + 1)]
  <2>1. /\ all \in Seq(Cells) /\ Len(all) = Len(upto) + Len(back)
        /\ \A i \in 1 .. Len(upto) + Len(back) :
             all[i] = IF i <= Len(upto) THEN upto[i] ELSE back[i - Len(upto)]
    BY <1>12, <1>13, ConcatProperties
  <2>2. (index + 1) + (_size - index) = _size + 1
    BY <1>2
  <2> HIDE DEF all
  <2> QED BY <1>12, <1>13, <2>1, <2>2
<1> HIDE DEF all
<1>15. ASSUME NEW k \in 1 .. _size + 1 PROVE new[k] = all[k]
  <2>1. k \in 1 .. Len(Vector!Room)
    BY <1>1, <1>2
  <2>2. CASE k <= index
    <3>1. k \in 1 .. index /\ k \in 1 .. _size /\ k # index + 1 /\ k \notin index + 2 .. _size + 1
          /\ k \in 1 .. index + 1 /\ k <= index + 1
      BY <1>2, <2>2
    <3> QED BY <1>1, <1>7, <1>11, <1>13, <1>14, <2>1, <2>2, <3>1
  <2>3. CASE k = index + 1
    <3>1. k \in 1 .. index + 1 /\ k <= index + 1 /\ ~(k <= index)
      BY <1>2, <2>3
    <3> QED BY <1>7, <1>13, <1>14, <2>1, <2>3, <3>1
  <2>4. CASE k > index + 1
    <3>1. /\ k # index + 1 /\ k \in index + 2 .. _size + 1 /\ ~(k <= index + 1)
          /\ k - (index + 1) \in 1 .. _size - index
          /\ index + (k - (index + 1)) = k - 1 /\ k - 1 \in 1 .. _size
      BY <1>2, <2>4
    <3> QED BY <1>1, <1>7, <1>12, <1>14, <2>1, <3>1
  <2>5. k <= index \/ k = index + 1 \/ k > index + 1
    BY <1>2
  <2> QED BY <2>2, <2>3, <2>4, <2>5
<1>16. SubSeq(new, 1, _size + 1) = all
  BY <1>9, <1>14, <1>15, SeqEqual
<1>17. all = Vector!Promised!InsertAt(elements, index + 1, v)
  <2>1. (index + 1) - 1 = index
    BY <1>2
  <2>2. Vector!Promised!InsertAt(elements, index + 1, v) =
          (SubSeq(elements, 1, (index + 1) - 1) \o <<v>>) \o SubSeq(elements, index + 1, Len(elements))
    BY InsertAtIs
  <2>3. Len(elements) = _size
    BY <1>10
  <2> QED BY <2>1, <2>2, <2>3 DEF all, upto, front, back
<1> QED BY <1>8, <1>16, <1>17 DEF new

LEMMA GrowIsInsert ==
  ASSUME VectorInductive, NEW v \in Values, NEW index \in 0 .. _size,
         Vector!GrowWith(Opened(index, v))
  PROVE  VectorInductive' /\ elements' = Vector!Promised!InsertAt(elements, index + 1, v)
<1>1. /\ data' = Opened(index, v) /\ _capacity' = Len(data') /\ _size' = _size + 1
  BY DEF Vector!GrowWith
<1>2. data' \in Seq(Cells) /\ Len(data') = Len(Vector!Room)
      /\ SubSeq(data', 1, _size + 1) = Vector!Promised!InsertAt(elements, index + 1, v)
  BY <1>1, OpenedIsInsertAt
<1>3. Len(Vector!Room) \in Nat /\ _size + 1 <= Len(Vector!Room) /\ _size \in Nat
  BY RoomHolds DEF VectorInductive
<1>4. VectorInductive'
  BY <1>1, <1>2, <1>3 DEF VectorInductive
<1> QED BY <1>1, <1>2, <1>4 DEF elements

LEMMA AppendIsOpened ==
  ASSUME VectorInductive, NEW v \in Values
  PROVE  [Vector!Room EXCEPT ![_size + 1] = v] = Opened(_size, v)
<1>1. _size \in Nat /\ _size + 2 .. _size + 1 = {}
  BY DEF VectorInductive
<1>2. Vector!Room \in Seq(Cells)
  BY RoomHolds
<1> QED BY <1>1, <1>2 DEF Opened

LEMMA InsertsPromised ==
  ASSUME VectorInductive, NEW v \in Values, NEW index \in 0 .. _size,
         Vector!GrowWith(Opened(index, v))
  PROVE  VectorInductive' /\ Vector!Promised!Next
<1>1. VectorInductive' /\ elements' = Vector!Promised!InsertAt(elements, index + 1, v)
  BY GrowIsInsert
<1>2. Len(elements) = _size /\ index + 1 \in 1 .. Len(elements) + 1
  <2>1. data \in Seq(Cells) /\ _size \in 0 .. Len(data) /\ _size \in Nat
    BY DEF VectorInductive
  <2> QED BY <2>1, Elements DEF elements
<1>3. Vector!Promised!Inserts
  BY <1>1, <1>2 DEF Vector!Promised!Inserts, elements
<1>4. UNCHANGED access
  BY DEF Vector!GrowWith
<1> QED BY <1>1, <1>3, <1>4 DEF Vector!Promised!Next

LEMMA AssignPromised ==
  ASSUME VectorInductive, NEW v \in Values, NEW index \in 0 .. _size, Vector!Assign(index, v)
  PROVE  VectorInductive' /\ Vector!Promised!Next
<1>1. /\ index < _size /\ data' = [data EXCEPT ![index + 1] = v] /\ UNCHANGED <<_size, _capacity, access>>
  BY DEF Vector!Assign
<1>2. /\ data \in Seq(Cells) /\ _capacity = Len(data) /\ Len(data) \in Nat
      /\ _size \in Nat /\ _size <= Len(data) /\ _size \in 0 .. Len(data) /\ index \in Nat
  BY DEF VectorInductive
<1>3. index + 1 \in 1 .. Len(data) /\ v \in Cells
  BY <1>1, <1>2 DEF Cells
<1>4. /\ data' \in Seq(Cells) /\ Len(data') = Len(data)
      /\ \A j \in 1 .. Len(data) : data'[j] = IF j = index + 1 THEN v ELSE data[j]
  BY <1>1, <1>2, <1>3, ExceptSeq
<1>5. VectorInductive'
  BY <1>1, <1>2, <1>4 DEF VectorInductive
<1>6. /\ elements \in Seq(Cells) /\ Len(elements) = _size
      /\ \A i \in 1 .. _size : elements[i] = data[i]
  BY <1>2, Elements DEF elements
<1>7. /\ elements' \in Seq(Cells) /\ Len(elements') = _size
      /\ \A i \in 1 .. _size : elements'[i] = data'[i]
  BY <1>1, <1>2, <1>4, Elements DEF elements
<1>8. index + 1 \in 1 .. Len(elements)
  BY <1>1, <1>2, <1>6
<1> DEFINE new == [elements EXCEPT ![index + 1] = v]
<1>9. /\ new \in Seq(Cells) /\ Len(new) = _size
      /\ \A j \in 1 .. _size : new[j] = IF j = index + 1 THEN v ELSE elements[j]
  BY <1>3, <1>6, <1>8, ExceptSeq
<1> HIDE DEF new
<1>10. \A j \in 1 .. _size : j \in 1 .. Len(data)
  BY <1>2
<1>11. elements' = new
  BY <1>4, <1>6, <1>7, <1>9, <1>10, SeqEqual
<1>12. Vector!Promised!Assigns
  BY <1>8, <1>11 DEF new, Vector!Promised!Assigns, elements
<1> QED BY <1>1, <1>5, <1>12 DEF Vector!Promised!Next

LEMMA ShortensPromised ==
  ASSUME VectorInductive, Vector!pop_back \/ Vector!clear
  PROVE  VectorInductive' /\ Vector!Promised!Next
<1>1. /\ UNCHANGED <<data, _capacity, access>>
      /\ _size' = 0 \/ (_size > 0 /\ _size' = _size - 1)
  BY DEF Vector!pop_back, Vector!clear
<1>2. /\ data \in Seq(Cells) /\ _capacity = Len(data) /\ Len(data) \in Nat
      /\ _size \in Nat /\ _size <= Len(data) /\ _size \in 0 .. Len(data)
  BY DEF VectorInductive
<1>3. VectorInductive'
  BY <1>1, <1>2 DEF VectorInductive
<1>4. CASE _size' = 0
  <2>1. elements' = <<>>
    BY <1>4, SubSeqEmpty DEF elements
  <2> QED BY <1>1, <1>3, <2>1 DEF elements, Vector!Promised!Next, Vector!Promised!Shortens
<1>5. CASE _size > 0 /\ _size' = _size - 1
  <2>1. /\ elements \in Seq(Cells) /\ Len(elements) = _size
        /\ \A i \in 1 .. _size : elements[i] = data[i]
    BY <1>2, Elements DEF elements
  <2>2. _size - 1 \in 0 .. Len(data) /\ _size - 1 \in 0 .. Len(elements)
    BY <1>2, <1>5, <2>1
  <2>3. /\ elements' \in Seq(Cells) /\ Len(elements') = _size - 1
        /\ \A i \in 1 .. _size - 1 : elements'[i] = data[i]
    BY <1>1, <1>2, <1>5, <2>2, Elements DEF elements
  <2> DEFINE shorter == SubSeq(elements, 1, Len(elements) - 1)
  <2>4. /\ shorter \in Seq(Cells) /\ Len(shorter) = _size - 1
        /\ \A i \in 1 .. _size - 1 : shorter[i] = elements[i]
    BY <2>1, <2>2, Elements
  <2> HIDE DEF shorter
  <2>5. \A i \in 1 .. _size - 1 : i \in 1 .. _size
    BY <1>2
  <2>6. elements' = shorter
    BY <2>1, <2>3, <2>4, <2>5, SeqEqual
  <2>7. Vector!Promised!Shortens
    BY <2>6 DEF shorter, elements, Vector!Promised!Shortens
  <2> QED BY <1>1, <1>3, <2>7 DEF Vector!Promised!Next
<1> QED BY <1>1, <1>4, <1>5

LEMMA AtPromised ==
  ASSUME VectorInductive, NEW index \in Nat, Vector!At(index)
  PROVE  VectorInductive' /\ Vector!Promised!Next
<1>1. /\ access'.index = index
      /\ access'.value = IF index >= _size THEN OutOfRange ELSE data[index + 1]
      /\ UNCHANGED <<data, _size, _capacity>>
  BY DEF Vector!At
<1>2. data \in Seq(Cells) /\ _size \in 0 .. Len(data) /\ _size \in Nat
  BY DEF VectorInductive
<1>3. /\ Len(elements) = _size /\ \A i \in 1 .. _size : elements[i] = data[i]
  BY <1>2, Elements DEF elements
<1>4. VectorInductive'
  BY <1>1 DEF VectorInductive
<1>5. access'.value = IF index \in 0 .. Len(elements) - 1 THEN elements[index + 1] ELSE OutOfRange
  <2>1. CASE index >= _size
    <3>1. index \notin 0 .. Len(elements) - 1
      BY <1>2, <1>3, <2>1
    <3> QED BY <1>1, <2>1, <3>1
  <2>2. CASE ~(index >= _size)
    <3>1. index \in 0 .. Len(elements) - 1 /\ index + 1 \in 1 .. _size
      BY <1>2, <1>3, <2>2
    <3> QED BY <1>1, <1>3, <2>2, <3>1
  <2> QED BY <2>1, <2>2
<1>6. Vector!Promised!Access
  BY <1>1, <1>5 DEF Vector!Promised!Access, elements
<1>7. elements' = elements
  BY <1>1 DEF elements
<1> QED BY <1>4, <1>6, <1>7 DEF elements, Vector!Promised!Next

LEMMA VectorStep ==
  VectorInductive /\ [AnyNext]_allVars =>
    VectorInductive' /\ [Vector!Promised!Next]_(Vector!Promised!vars)
<1> SUFFICES ASSUME VectorInductive, Vector!Next \/ UNCHANGED vectorVars
             PROVE  VectorInductive' /\ (Vector!Promised!Next \/ UNCHANGED <<elements, access>>)
  BY VectorSteps DEF Vector!Promised!vars, elements
<1>0. /\ data \in Seq(Cells) /\ _capacity = Len(data) /\ Len(data) \in Nat
      /\ _size \in Nat /\ _size <= Len(data)
  BY DEF VectorInductive
<1>1. ASSUME NEW v \in Values, Vector!push_back(v) \/ Vector!emplace_back(v)
      PROVE  VectorInductive' /\ Vector!Promised!Next
  <2>1. Vector!GrowWith(Opened(_size, v))
    BY <1>1, AppendIsOpened DEF Vector!push_back, Vector!emplace_back
  <2>2. _size \in 0 .. _size
    BY <1>0
  <2> QED BY <2>1, <2>2, InsertsPromised
<1>2. ASSUME NEW v \in Values, NEW index \in 0 .. _size, Vector!emplace(index, v)
      PROVE  VectorInductive' /\ Vector!Promised!Next
  <2>1. Vector!GrowWith(Opened(index, v))
    BY <1>2 DEF Vector!emplace, Opened
  <2> QED BY <2>1, InsertsPromised
<1>3. ASSUME NEW v \in Values, NEW index \in 0 .. _size, Vector!Assign(index, v)
      PROVE  VectorInductive' /\ Vector!Promised!Next
  BY <1>3, AssignPromised
<1>4. ASSUME NEW c \in 1 .. MaxCapacity, Vector!reserve(c)
      PROVE  VectorInductive' /\ UNCHANGED <<elements, access>>
  <2>1. c \in Nat /\ _size <= c
    BY <1>0, <1>4, VectorBounds DEF Vector!reserve
  <2> QED BY <1>4, <2>1, ResizeKeeps DEF Vector!reserve
<1>5. ASSUME NEW index \in 0 .. MaxCapacity, Vector!At(index)
      PROVE  VectorInductive' /\ Vector!Promised!Next
  BY <1>5, AtPromised, VectorBounds
<1>6. CASE Vector!pop_back \/ Vector!clear
  BY <1>6, ShortensPromised
<1>7. CASE Vector!shrink_to_fit
  BY <1>0, <1>7, ResizeKeeps DEF Vector!shrink_to_fit
<1>8. CASE UNCHANGED vectorVars
  BY <1>8 DEF vectorVars, VectorInductive, elements
<1> QED BY <1>1, <1>2, <1>3, <1>4, <1>5, <1>6, <1>7, <1>8 DEF Vector!Next

\* Whatever is inserted, assigned, reserved, shrunk and cleared, the elements
\* are the sequence that was asked for, and no access returns what lies behind
\* them or what a block contained before (my_vector/main.cpp:79).
THEOREM ElementsStayInOrder == FairSpec => ImplementsSequence
<1>1. AnyInit => VectorInductive /\ Vector!Promised!Init
  <2> SUFFICES ASSUME Vector!Init PROVE VectorInductive /\ Vector!Promised!Init
    BY DEF AnyInit
  <2>1. data = <<>> /\ _size = 0 /\ _capacity = 0 /\ access = [index |-> 0, value |-> OutOfRange]
    BY DEF Vector!Init
  <2>2. Len(<<>>) = 0 /\ <<>> \in Seq(Cells) /\ SubSeq(<<>>, 1, 0) = <<>>
    BY SubSeqEmpty
  <2> QED BY <2>1, <2>2 DEF VectorInductive, Vector!Promised!Init
<1> QED BY <1>1, VectorStep, PTL
        DEF FairSpec, ImplementsSequence, Vector!ImplementsSequence, Vector!Promised!Spec

-----------------------------------------------------------------------------
(* MyFunction *)

\* Every callable has one owner, and lives in the owner's buffer or a block.
FunctionInductive ==
  /\ exists \subseteq Functions
  /\ callable_ \in [Functions -> Functions \cup Blocks \cup {nullptr}]
  /\ holds \in [Functions \cup Blocks -> Small \cup Large \cup {Nothing}]
  /\ \A f \in Functions : callable_[f] \in {f, nullptr} \cup Blocks
  /\ \A f \in Functions : f \notin exists => callable_[f] = nullptr
  /\ \A f, g \in Functions : callable_[f] = callable_[g] => f = g \/ callable_[f] = nullptr
  /\ \A p \in Functions \cup Blocks :
       holds[p] # Nothing <=> \E f \in exists : callable_[f] = p

Places == Functions \cup Blocks
Callable == Small \cup Large \cup {Nothing}

\* What each function object calls: the abstract state.
Calls == [f \in exists |-> IF callable_[f] = nullptr THEN Nothing ELSE holds[callable_[f]]]

\* The places h without the callable of f.
Without(f, h) ==
  /\ h \in [Places -> Callable]
  /\ \A p \in Places : h[p] # Nothing <=> \E e \in exists \ {f} : callable_[e] = p
  /\ \A e \in exists \ {f} : callable_[e] # nullptr => h[callable_[e]] = holds[callable_[e]]

LEMMA FunctionConstants ==
  /\ IsFiniteSet(Places) /\ Functions \cap Blocks = {} /\ nullptr \notin Places
  /\ Nothing \notin Small \cup Large
<1>1. \A S : Function!IsFiniteSet(S) <=> IsFiniteSet(S)
  BY DEF Function!IsFiniteSet, IsFiniteSet
<1> QED BY <1>1, ContainerAssumptions
        DEF Function!FunctionAssumption, Function!Places, Function!Targets, Places

LEMMA CardinalityIsOne ==
  \A S : Function!Cardinality(S) = Cardinality(S) /\ Function!Promised!Cardinality(S) = Cardinality(S)
<1>1. \A S : Function!Cardinality(S) = Cardinality(S)
  BY DEF Function!Cardinality, Cardinality
<1>2. \A S : Function!Promised!Cardinality(S) = Cardinality(S)
  BY DEF Function!Promised!Cardinality, Cardinality
<1> QED BY <1>1, <1>2

LEMMA FunctionFacts ==
  ASSUME FunctionInductive
  PROVE  /\ exists \subseteq Functions
         /\ callable_ \in [Functions -> Places \cup {nullptr}]
         /\ holds \in [Places -> Callable]
         /\ \A f \in Functions : callable_[f] \in {f, nullptr} \cup Blocks
         /\ \A f \in Functions : f \notin exists => callable_[f] = nullptr
         /\ \A f, g \in Functions : callable_[f] = callable_[g] => f = g \/ callable_[f] = nullptr
         /\ \A p \in Places : holds[p] # Nothing <=> \E f \in exists : callable_[f] = p
BY DEF FunctionInductive, Places, Callable

\* There are as many callables as function objects that have one.
Counted ==
  Cardinality({p \in Places : holds[p] # Nothing}) = Cardinality({f \in exists : Calls[f] # Nothing})

LEMMA CallablesAreCounted == FunctionInductive => Counted
<1> SUFFICES ASSUME FunctionInductive PROVE Counted
  OBVIOUS
<1> DEFINE P == {p \in Places : holds[p] # Nothing}
           F == {f \in exists : Calls[f] # Nothing}
           owner == [f \in F |-> callable_[f]]
<1>1. /\ exists \subseteq Functions
      /\ callable_ \in [Functions -> Places \cup {nullptr}]
      /\ \A f, g \in Functions : callable_[f] = callable_[g] => f = g \/ callable_[f] = nullptr
      /\ \A p \in Places : holds[p] # Nothing <=> \E f \in exists : callable_[f] = p
  BY FunctionFacts
<1>2. \A f \in exists : f \in F <=> callable_[f] # nullptr
  <2> SUFFICES ASSUME NEW f \in exists PROVE Calls[f] # Nothing <=> callable_[f] # nullptr
    OBVIOUS
  <2>1. CASE callable_[f] = nullptr
    BY <2>1 DEF Calls
  <2>2. CASE callable_[f] # nullptr
    <3>1. callable_[f] \in Places
      BY <1>1, <2>2
    <3>2. holds[callable_[f]] # Nothing
      BY <1>1, <3>1
    <3> QED BY <2>2, <3>2 DEF Calls
  <2> QED BY <2>1, <2>2
<1>3. \A f \in F : f \in Functions /\ callable_[f] \in P /\ callable_[f] # nullptr
  <2> SUFFICES ASSUME NEW f \in F
               PROVE  f \in Functions /\ callable_[f] \in P /\ callable_[f] # nullptr
    OBVIOUS
  <2>1. f \in exists /\ f \in Functions
    BY <1>1
  <2>2. callable_[f] # nullptr /\ callable_[f] \in Places
    BY <1>1, <1>2, <2>1
  <2> QED BY <1>1, <2>1, <2>2
<1>4. \A p \in P : \E f \in F : callable_[f] = p
  <2> SUFFICES ASSUME NEW p \in P PROVE \E f \in F : callable_[f] = p
    OBVIOUS
  <2>1. PICK f \in exists : callable_[f] = p
    BY <1>1
  <2>2. p # nullptr
    BY FunctionConstants
  <2> QED BY <1>2, <2>1, <2>2
<1> HIDE DEF P, F
<1>5. owner \in Bijection(F, P)
  <2>1. owner \in [F -> P]
    BY <1>3
  <2>2. \A a, b \in F : owner[a] = owner[b] => a = b
    BY <1>1, <1>3
  <2>3. \A p \in P : \E f \in F : owner[f] = p
    BY <1>4
  <2> QED BY <2>1, <2>2, <2>3 DEF Bijection, Injection, Surjection, IsInjective
<1>6. IsFiniteSet(P)
  BY FunctionConstants, FS_Subset DEF P
<1>7. ExistsBijection(P, F)
  <2>1. ExistsBijection(F, P)
    BY <1>5 DEF ExistsBijection
  <2> QED BY <2>1, Fun_ExistsBijSymmetric
<1>8. Cardinality(F) = Cardinality(P)
  BY <1>6, <1>7, FS_Bijection
<1> QED BY <1>8 DEF P, F, Counted

\* The places after clear() of f.
LEMMA ClearedIsWithout ==
  ASSUME FunctionInductive, NEW f \in Functions
  PROVE  Without(f, Function!Cleared(f))
<1> DEFINE h == Function!Cleared(f)
<1>1. /\ exists \subseteq Functions
      /\ callable_ \in [Functions -> Places \cup {nullptr}]
      /\ holds \in [Places -> Callable]
      /\ \A g \in Functions : g \notin exists => callable_[g] = nullptr
      /\ \A g, e \in Functions : callable_[g] = callable_[e] => g = e \/ callable_[g] = nullptr
      /\ \A p \in Places : holds[p] # Nothing <=> \E g \in exists : callable_[g] = p
  BY FunctionFacts
<1>2. CASE callable_[f] = nullptr
  <2>1. h = holds
    BY <1>2 DEF Function!Cleared, Function!Empty
  <2>2. \A p \in Places : p # nullptr
    BY FunctionConstants
  <2>3. \A p \in Places : (\E g \in exists : callable_[g] = p) <=> \E g \in exists \ {f} : callable_[g] = p
    BY <1>2, <2>2
  <2> QED BY <1>1, <2>1, <2>3 DEF Without
<1>3. CASE callable_[f] # nullptr
  <2> DEFINE q == callable_[f]
  <2>1. h = [holds EXCEPT ![q] = Nothing] /\ q \in Places /\ q # nullptr
    BY <1>1, <1>3 DEF Function!Cleared, Function!Empty
  <2>2. h \in [Places -> Callable] /\ \A p \in Places : h[p] = IF p = q THEN Nothing ELSE holds[p]
    BY <1>1, <2>1 DEF Callable
  <2>3. \A e \in exists \ {f} : callable_[e] # q
    BY <1>1, <1>3
  <2> HIDE DEF h
  <2>4. ASSUME NEW p \in Places
        PROVE  h[p] # Nothing <=> \E e \in exists \ {f} : callable_[e] = p
    <3>1. CASE p = q
      BY <2>2, <2>3, <3>1
    <3>2. CASE p # q
      <4>1. h[p] = holds[p]
        BY <2>2, <3>2
      <4>2. (\E g \in exists : callable_[g] = p) <=> \E g \in exists \ {f} : callable_[g] = p
        BY <3>2
      <4> QED BY <1>1, <4>1, <4>2
    <3> QED BY <3>1, <3>2
  <2>5. ASSUME NEW e \in exists \ {f}, callable_[e] # nullptr
        PROVE  h[callable_[e]] = holds[callable_[e]]
    <3>1. callable_[e] \in Places /\ callable_[e] # q
      BY <1>1, <2>3, <2>5
    <3> HIDE DEF q
    <3> QED BY <2>2, <3>1
  <2> QED BY <2>2, <2>4, <2>5 DEF Without, h
<1> QED BY <1>2, <1>3

LEMMA AbsentIsWithout ==
  ASSUME FunctionInductive, NEW f \in Functions, f \notin exists
  PROVE  Without(f, holds)
<1>1. exists \ {f} = exists
  OBVIOUS
<1> QED BY <1>1, FunctionFacts DEF Without

\* The buffer of f is free without the callable of f.
LEMMA OwnBufferIsFree ==
  ASSUME FunctionInductive, NEW f \in Functions, NEW h, Without(f, h)
  PROVE  h[f] = Nothing
<1>1. f \in Places /\ f \notin Blocks /\ f # nullptr
  BY FunctionConstants DEF Places
<1>2. \A e \in exists \ {f} : callable_[e] # f
  BY <1>1, FunctionFacts
<1> QED BY <1>1, <1>2 DEF Without

LEMMA LeaveEmptyIs ==
  ASSUME FunctionInductive, NEW f \in Functions, NEW h, Without(f, h), Function!LeaveEmpty(f, h),
         exists' = exists \cup {f} \/ exists' = exists \ {f}
  PROVE  /\ FunctionInductive'
         /\ Calls' = [g \in exists' |-> IF g = f THEN Nothing ELSE Calls[g]]
<1>1. /\ exists \subseteq Functions
      /\ callable_ \in [Functions -> Places \cup {nullptr}]
      /\ \A g \in Functions : callable_[g] \in {g, nullptr} \cup Blocks
      /\ \A g \in Functions : g \notin exists => callable_[g] = nullptr
      /\ \A g, e \in Functions : callable_[g] = callable_[e] => g = e \/ callable_[g] = nullptr
  BY FunctionFacts
<1>2. holds' = h /\ callable_' = [callable_ EXCEPT ![f] = nullptr]
  BY DEF Function!LeaveEmpty
<1>3. /\ callable_' \in [Functions -> Places \cup {nullptr}]
      /\ \A g \in Functions : callable_'[g] = IF g = f THEN nullptr ELSE callable_[g]
  BY <1>1, <1>2
<1>4. \A p \in Places : holds'[p] # Nothing <=> \E g \in exists' : callable_'[g] = p
  <2> SUFFICES ASSUME NEW p \in Places
               PROVE  (\E g \in exists \ {f} : callable_[g] = p) <=> \E g \in exists' : callable_'[g] = p
    BY <1>2 DEF Without
  <2>1. p # nullptr
    BY FunctionConstants
  <2> QED BY <1>1, <1>3, <2>1
<1>5. FunctionInductive'
  <2>1. exists' \subseteq Functions /\ holds' \in [Places -> Callable]
    BY <1>1, <1>2 DEF Without
  <2>2. \A g \in Functions : callable_'[g] \in {g, nullptr} \cup Blocks
    BY <1>1, <1>3
  <2>3. \A g \in Functions : g \notin exists' => callable_'[g] = nullptr
    BY <1>1, <1>3
  <2>4. \A g, e \in Functions : callable_'[g] = callable_'[e] => g = e \/ callable_'[g] = nullptr
    BY <1>1, <1>3
  <2> QED BY <1>3, <1>4, <2>1, <2>2, <2>3, <2>4 DEF FunctionInductive, Places, Callable
<1>6. ASSUME NEW g \in exists' PROVE Calls'[g] = IF g = f THEN Nothing ELSE Calls[g]
  <2>1. CASE g = f
    BY <1>3, <2>1 DEF Calls
  <2>2. CASE g # f
    <3>1. g \in exists \ {f} /\ g \in Functions
      BY <1>1, <1>6, <2>2
    <3>2. callable_'[g] = callable_[g]
      BY <1>3, <2>2, <3>1
    <3>3. callable_[g] # nullptr => h[callable_[g]] = holds[callable_[g]]
      BY <3>1 DEF Without
    <3> QED BY <1>2, <2>2, <3>1, <3>2, <3>3 DEF Calls
  <2> QED BY <2>1, <2>2
<1> QED BY <1>5, <1>6 DEF Calls

LEMMA PutIntoIs ==
  ASSUME FunctionInductive, NEW f \in Functions, NEW h, Without(f, h),
         NEW t \in Small \cup Large, NEW small \in BOOLEAN, Function!PutInto(f, t, small, h),
         exists' = exists \cup {f}
  PROVE  /\ FunctionInductive'
         /\ Calls' = [g \in exists' |-> IF g = f THEN t ELSE Calls[g]]
<1>1. /\ exists \subseteq Functions
      /\ callable_ \in [Functions -> Places \cup {nullptr}]
      /\ \A g \in Functions : callable_[g] \in {g, nullptr} \cup Blocks
      /\ \A g \in Functions : g \notin exists => callable_[g] = nullptr
      /\ \A g, e \in Functions : callable_[g] = callable_[e] => g = e \/ callable_[g] = nullptr
  BY FunctionFacts
<1>2. PICK q \in {f} \cup {b \in Blocks : h[b] = Nothing} :
        holds' = [h EXCEPT ![q] = t] /\ callable_' = [callable_ EXCEPT ![f] = q]
  BY DEF Function!PutInto
<1>3. q \in Places /\ q # nullptr /\ h[q] = Nothing /\ q \in {f} \cup Blocks
  <2>1. h[f] = Nothing
    BY OwnBufferIsFree
  <2> QED BY <2>1, FunctionConstants DEF Places
<1>4. /\ h \in [Places -> Callable]
      /\ \A p \in Places : h[p] # Nothing <=> \E e \in exists \ {f} : callable_[e] = p
      /\ \A e \in exists \ {f} : callable_[e] # nullptr => h[callable_[e]] = holds[callable_[e]]
  BY DEF Without
<1>5. /\ callable_' \in [Functions -> Places \cup {nullptr}]
      /\ \A g \in Functions : callable_'[g] = IF g = f THEN q ELSE callable_[g]
  BY <1>1, <1>2, <1>3
<1>6. t \in Callable /\ t # Nothing
  BY FunctionConstants DEF Callable
<1>7. /\ holds' \in [Places -> Callable]
      /\ \A p \in Places : holds'[p] = IF p = q THEN t ELSE h[p]
  BY <1>2, <1>3, <1>4, <1>6
<1>8. \A e \in exists \ {f} : callable_[e] # q
  BY <1>3, <1>4
<1>9. \A g \in Functions \ {f} : callable_[g] # q
  BY <1>1, <1>3, <1>8
<1>10. \A p \in Places : holds'[p] # Nothing <=> \E g \in exists' : callable_'[g] = p
  <2> SUFFICES ASSUME NEW p \in Places
               PROVE  holds'[p] # Nothing <=> \E g \in exists' : callable_'[g] = p
    OBVIOUS
  <2>1. CASE p = q
    BY <1>5, <1>6, <1>7, <2>1
  <2>2. CASE p # q
    <3>1. holds'[p] = h[p]
      BY <1>7, <2>2
    <3>2. (\E e \in exists \ {f} : callable_[e] = p) <=> \E g \in exists' : callable_'[g] = p
      BY <1>1, <1>5, <2>2
    <3> QED BY <1>4, <3>1, <3>2
  <2> QED BY <2>1, <2>2
<1>11. FunctionInductive'
  <2>1. exists' \subseteq Functions
    BY <1>1
  <2>2. \A g \in Functions : callable_'[g] \in {g, nullptr} \cup Blocks
    BY <1>1, <1>3, <1>5
  <2>3. \A g \in Functions : g \notin exists' => callable_'[g] = nullptr
    BY <1>1, <1>5
  <2>4. \A g, e \in Functions : callable_'[g] = callable_'[e] => g = e \/ callable_'[g] = nullptr
    BY <1>1, <1>5, <1>9
  <2> QED BY <1>5, <1>7, <1>10, <2>1, <2>2, <2>3, <2>4 DEF FunctionInductive, Places, Callable
<1>12. ASSUME NEW g \in exists' PROVE Calls'[g] = IF g = f THEN t ELSE Calls[g]
  <2>1. CASE g = f
    BY <1>3, <1>5, <1>7, <2>1 DEF Calls
  <2>2. CASE g # f
    <3>1. g \in exists \ {f} /\ g \in Functions
      BY <1>1, <1>12, <2>2
    <3>2. callable_'[g] = callable_[g]
      BY <1>5, <2>2, <3>1
    <3>3. callable_[g] # nullptr => holds'[callable_[g]] = holds[callable_[g]]
      <4>1. callable_[g] # nullptr => callable_[g] \in Places /\ callable_[g] # q
        BY <1>1, <1>8, <3>1
      <4> QED BY <1>4, <1>7, <3>1, <4>1
    <3> QED BY <2>2, <3>1, <3>2, <3>3 DEF Calls
  <2> QED BY <2>1, <2>2
<1> QED BY <1>11, <1>12 DEF Calls

\* A move leaves the source empty and gives the target what it called.
LEMMA MoveFromIs ==
  ASSUME FunctionInductive, NEW f \in Functions, NEW g \in exists, f # g,
         NEW h, Without(f, h), Function!MoveFrom(f, g, h), exists' = exists \cup {f}
  PROVE  /\ FunctionInductive'
         /\ Calls' = [e \in exists' |-> IF e = f THEN Calls[g] ELSE IF e = g THEN Nothing ELSE Calls[e]]
<1>1. /\ exists \subseteq Functions
      /\ callable_ \in [Functions -> Places \cup {nullptr}]
      /\ \A e \in Functions : callable_[e] \in {e, nullptr} \cup Blocks
      /\ \A e \in Functions : e \notin exists => callable_[e] = nullptr
      /\ \A d, e \in Functions : callable_[d] = callable_[e] => d = e \/ callable_[d] = nullptr
  BY FunctionFacts
<1>2. /\ h \in [Places -> Callable]
      /\ \A p \in Places : h[p] # Nothing <=> \E e \in exists \ {f} : callable_[e] = p
      /\ \A e \in exists \ {f} : callable_[e] # nullptr => h[callable_[e]] = holds[callable_[e]]
      /\ h[f] = Nothing
  BY OwnBufferIsFree DEF Without
<1>3. f \in Places /\ g \in Places /\ g \in Functions /\ f # nullptr /\ f \notin Blocks /\ g # nullptr
      /\ g \notin Blocks
  BY <1>1, FunctionConstants DEF Places
<1>4. /\ \A e \in Functions : callable_'[e] =
           IF e = g THEN nullptr
           ELSE IF e = f THEN (IF callable_[g] = g THEN f ELSE callable_[g]) ELSE callable_[e]
      /\ callable_' \in [Functions -> Places \cup {nullptr}]
      /\ holds' \in [Places -> Callable]
      /\ \A p \in Places : holds'[p] =
           IF callable_[g] = g
           THEN IF p = g THEN Nothing ELSE IF p = f THEN h[g] ELSE h[p]
           ELSE h[p]
  <2>1. CASE callable_[g] = g
    <3>1. /\ holds' = [h EXCEPT ![f] = h[g], ![g] = Nothing]
          /\ callable_' = [callable_ EXCEPT ![f] = f, ![g] = nullptr]
      BY <2>1 DEF Function!MoveFrom, Function!is_sbo
    <3>2. Nothing \in Callable
      BY DEF Callable
    <3> QED BY <1>1, <1>2, <1>3, <2>1, <3>1, <3>2
  <2>2. CASE callable_[g] # g
    <3>1. holds' = h /\ callable_' = [callable_ EXCEPT ![f] = callable_[g], ![g] = nullptr]
      BY <2>2 DEF Function!MoveFrom, Function!is_sbo
    <3>2. callable_[g] \in Places \cup {nullptr}
      BY <1>1, <1>3
    <3> QED BY <1>1, <1>2, <1>3, <2>2, <3>1, <3>2
  <2> QED BY <2>1, <2>2
<1>5. \A e \in exists \ {f, g} : callable_[e] # g /\ callable_[e] # f
  BY <1>1, <1>3
<1>6. \A p \in Places : holds'[p] # Nothing <=> \E e \in exists' : callable_'[e] = p
  <2> SUFFICES ASSUME NEW p \in Places
               PROVE  holds'[p] # Nothing <=> \E e \in exists' : callable_'[e] = p
    OBVIOUS
  <2>0. p # nullptr
    BY FunctionConstants
  <2>1. CASE callable_[g] = g
    <3>1. CASE p = g
      <4>1. \A e \in exists' : callable_'[e] # g
        BY <1>1, <1>3, <1>4, <1>5, <2>1
      <4> QED BY <1>3, <1>4, <2>1, <3>1, <4>1
    <3>2. CASE p = f
      <4>1. h[g] # Nothing
        BY <1>2, <1>3, <2>1
      <4>2. callable_'[f] = f /\ f \in exists'
        BY <1>4, <2>1
      <4> QED BY <1>3, <1>4, <2>1, <3>2, <4>1, <4>2
    <3>3. CASE p # g /\ p # f
      <4>1. holds'[p] = h[p]
        BY <1>4, <2>1, <3>3
      <4>2. (\E e \in exists \ {f} : callable_[e] = p) <=> \E e \in exists' : callable_'[e] = p
        BY <1>1, <1>3, <1>4, <2>0, <2>1, <3>3
      <4> QED BY <1>2, <4>1, <4>2
    <3> QED BY <3>1, <3>2, <3>3
  <2>2. CASE callable_[g] # g
    <3>1. holds'[p] = h[p]
      BY <1>4, <2>2
    <3>2. (\E e \in exists \ {f} : callable_[e] = p) => \E e \in exists' : callable_'[e] = p
      <4> SUFFICES ASSUME NEW e \in exists \ {f}, callable_[e] = p
                   PROVE  \E d \in exists' : callable_'[d] = p
        OBVIOUS
      <4>1. CASE e = g
        BY <1>3, <1>4, <2>2, <4>1
      <4>2. CASE e # g
        BY <1>1, <1>4, <4>2
      <4> QED BY <4>1, <4>2
    <3>3. (\E e \in exists' : callable_'[e] = p) => \E e \in exists \ {f} : callable_[e] = p
      <4> SUFFICES ASSUME NEW e \in exists', callable_'[e] = p
                   PROVE  \E d \in exists \ {f} : callable_[d] = p
        OBVIOUS
      <4>1. e # g
        BY <1>3, <1>4, <2>0
      <4>2. CASE e = f
        BY <1>4, <2>2, <4>2
      <4>3. CASE e # f
        BY <1>1, <1>4, <4>1, <4>3
      <4> QED BY <4>2, <4>3
    <3> QED BY <1>2, <3>1, <3>2, <3>3
  <2> QED BY <2>1, <2>2
<1>7. FunctionInductive'
  <2>1. exists' \subseteq Functions
    BY <1>1
  <2>2. \A e \in Functions : callable_'[e] \in {e, nullptr} \cup Blocks
    BY <1>1, <1>3, <1>4
  <2>3. \A e \in Functions : e \notin exists' => callable_'[e] = nullptr
    BY <1>1, <1>4
  <2>4. ASSUME NEW d \in Functions, NEW e \in Functions, callable_'[d] = callable_'[e], d # e
        PROVE  callable_'[d] = nullptr
    <3>1. CASE d = g \/ e = g
      BY <1>3, <1>4, <2>4, <3>1
    <3>2. CASE d # g /\ e # g /\ callable_[g] = g
      <4>1. \A a \in Functions \ {f, g} : callable_[a] # f
        BY <1>1, <1>3
      <4> QED BY <1>1, <1>3, <1>4, <2>4, <3>2, <4>1
    <3>3. CASE d # g /\ e # g /\ callable_[g] # g
      BY <1>1, <1>3, <1>4, <2>4, <3>3
    <3> QED BY <3>1, <3>2, <3>3
  <2> QED BY <1>4, <1>6, <2>1, <2>2, <2>3, <2>4 DEF FunctionInductive, Places, Callable
<1>8. ASSUME NEW e \in exists'
      PROVE  Calls'[e] = IF e = f THEN Calls[g] ELSE IF e = g THEN Nothing ELSE Calls[e]
  <2>1. Calls'[e] = IF callable_'[e] = nullptr THEN Nothing ELSE holds'[callable_'[e]]
    BY <1>8 DEF Calls
  <2>2. e \in Functions
    BY <1>1
  <2>3. CASE e = f
    <3>1. CASE callable_[g] = g
      <4>1. callable_'[f] = f /\ holds'[f] = h[g]
        BY <1>3, <1>4, <3>1
      <4>2. h[g] = holds[g] /\ Calls[g] = holds[g]
        BY <1>2, <1>3, <3>1 DEF Calls
      <4> QED BY <1>3, <2>1, <2>3, <4>1, <4>2
    <3>2. CASE callable_[g] # g
      <4>1. callable_'[f] = callable_[g]
        BY <1>3, <1>4, <3>2
      <4>2. callable_[g] # nullptr => holds'[callable_[g]] = holds[callable_[g]]
        <5>1. callable_[g] # nullptr => callable_[g] \in Places
          BY <1>1, <1>3
        <5> QED BY <1>2, <1>3, <1>4, <3>2, <5>1
      <4> QED BY <2>1, <2>3, <4>1, <4>2 DEF Calls
    <3> QED BY <3>1, <3>2
  <2>4. CASE e = g
    BY <1>3, <1>4, <2>1, <2>4
  <2>5. CASE e # f /\ e # g
    <3>1. e \in exists \ {f, g} /\ callable_'[e] = callable_[e]
      BY <1>4, <1>8, <2>2, <2>5
    <3>2. callable_[e] # nullptr => callable_[e] \in Places /\ callable_[e] # g /\ callable_[e] # f
      BY <1>1, <1>5, <2>2, <3>1
    <3>3. callable_[e] # nullptr => holds'[callable_[e]] = holds[callable_[e]]
      BY <1>2, <1>4, <3>1, <3>2
    <3> QED BY <2>1, <2>5, <3>1, <3>3 DEF Calls
  <2> QED BY <2>3, <2>4, <2>5
<1> QED BY <1>7, <1>8 DEF Calls

\* What the abstract actions do, in terms of what the objects call.
LEMMA CopiesAre ==
  ASSUME FunctionInductive'
  PROVE  Function!Cardinality({p \in Function!Places : holds[p] # Nothing})' =
           Function!Promised!Cardinality({f \in DOMAIN Calls' : Calls'[f] # Nothing})
<1>1. FunctionInductive' => Counted'
  BY CallablesAreCounted, PTL
<1>2. DOMAIN Calls' = exists'
  BY DEF Calls
<1> QED BY <1>1, <1>2, CardinalityIsOne DEF Places, Function!Places, Counted

LEMMA CallsIsTarget ==
  Calls = [f \in exists |-> IF Function!Empty(f) THEN Nothing ELSE holds[callable_[f]]]
BY DEF Calls, Function!Empty

LEMMA AbstractOperators ==
  /\ Function!Promised!Owners = exists
  /\ \A f, t : Function!Promised!With(f, t) = [g \in exists \cup {f} |-> IF g = f THEN t ELSE Calls[g]]
BY DEF Function!Promised!Owners, Function!Promised!With, Calls, Function!Empty

\* Setting what f calls creates f or, if f exists, empties it.
LEMMA CreatePromised ==
  ASSUME FunctionInductive', NEW f \in Functions, NEW t \in Small \cup Large \cup {Nothing},
         f \notin exists,
         Calls' = [e \in exists \cup {f} |-> IF e = f THEN t ELSE Calls[e]], UNCHANGED invoked
  PROVE  Function!Promised!Next
<1> DEFINE new == Function!Promised!With(f, t)
<1>1. Calls' = new
  BY AbstractOperators
<1>2. [e \in exists |-> IF Function!Empty(e) THEN Nothing ELSE holds[callable_[e]]]' = new
  BY <1>1 DEF Calls, Function!Empty
<1>3. Function!Cardinality({p \in Function!Places : holds[p] # Nothing})' =
        Function!Promised!Cardinality({e \in DOMAIN new : new[e] # Nothing})
  <2> HIDE DEF new
  <2> QED BY <1>1, CopiesAre
<1>4. Function!Promised!Become(new)
  <2> HIDE DEF new
  <2> QED BY <1>2, <1>3 DEF Function!Promised!Become
<1>5. Function!Promised!Create(f)
  BY <1>4, AbstractOperators DEF Function!Promised!Create, Function!Targets
<1> QED BY <1>5 DEF Function!Promised!Next

LEMMA ClearPromised ==
  ASSUME FunctionInductive', NEW f \in exists,
         Calls' = [e \in exists \cup {f} |-> IF e = f THEN Nothing ELSE Calls[e]], UNCHANGED invoked
  PROVE  Function!Promised!Next
<1> DEFINE new == Function!Promised!With(f, Nothing)
<1>1. Calls' = new
  BY AbstractOperators
<1>2. [e \in exists |-> IF Function!Empty(e) THEN Nothing ELSE holds[callable_[e]]]' = new
  BY <1>1 DEF Calls, Function!Empty
<1>3. Function!Cardinality({p \in Function!Places : holds[p] # Nothing})' =
        Function!Promised!Cardinality({e \in DOMAIN new : new[e] # Nothing})
  <2> HIDE DEF new
  <2> QED BY <1>1, CopiesAre
<1>4. Function!Promised!Become(new)
  <2> HIDE DEF new
  <2> QED BY <1>2, <1>3 DEF Function!Promised!Become
<1>5. Function!Promised!Clear(f)
  BY <1>4, AbstractOperators DEF Function!Promised!Clear
<1> QED BY <1>5, AbstractOperators DEF Function!Promised!Next

LEMMA SetPromised ==
  ASSUME FunctionInductive', NEW f \in Functions, NEW t \in Small \cup Large \cup {Nothing},
         f \notin exists \/ t = Nothing,
         Calls' = [e \in exists \cup {f} |-> IF e = f THEN t ELSE Calls[e]], UNCHANGED invoked
  PROVE  Function!Promised!Next
BY CreatePromised, ClearPromised

LEMMA CopyPromised ==
  ASSUME FunctionInductive', NEW f \in Functions, NEW g \in exists, f # g,
         Calls' = [e \in exists \cup {f} |-> IF e = f THEN Calls[g] ELSE Calls[e]], UNCHANGED invoked
  PROVE  Function!Promised!Next
<1> DEFINE new == Function!Promised!With(f, Calls[g])
<1>1. Calls' = new
  BY AbstractOperators
<1>2. [e \in exists |-> IF Function!Empty(e) THEN Nothing ELSE holds[callable_[e]]]' = new
  BY <1>1 DEF Calls, Function!Empty
<1>3. Function!Cardinality({p \in Function!Places : holds[p] # Nothing})' =
        Function!Promised!Cardinality({e \in DOMAIN new : new[e] # Nothing})
  <2> HIDE DEF new
  <2> QED BY <1>1, CopiesAre
<1>4. Function!Promised!Become(new)
  <2> HIDE DEF new
  <2> QED BY <1>2, <1>3 DEF Function!Promised!Become
<1>5. Function!Promised!Copy(f, g)
  BY <1>4 DEF Function!Promised!Copy, Calls, Function!Empty
<1> QED BY <1>5, AbstractOperators DEF Function!Promised!Next

LEMMA MovePromised ==
  ASSUME FunctionInductive', NEW f \in Functions, NEW g \in exists, f # g,
         Calls' = [e \in exists \cup {f} |->
                    IF e = f THEN Calls[g] ELSE IF e = g THEN Nothing ELSE Calls[e]], UNCHANGED invoked
  PROVE  Function!Promised!Next
<1> DEFINE new == [Function!Promised!With(f, Calls[g]) EXCEPT ![g] = Nothing]
<1>1. Calls' = new
  BY AbstractOperators
<1>2. [e \in exists |-> IF Function!Empty(e) THEN Nothing ELSE holds[callable_[e]]]' = new
  BY <1>1 DEF Calls, Function!Empty
<1>3. Function!Cardinality({p \in Function!Places : holds[p] # Nothing})' =
        Function!Promised!Cardinality({e \in DOMAIN new : new[e] # Nothing})
  <2> HIDE DEF new
  <2> QED BY <1>1, CopiesAre
<1>4. Function!Promised!Become(new)
  <2> HIDE DEF new
  <2> QED BY <1>2, <1>3 DEF Function!Promised!Become
<1>5. Function!Promised!Move(f, g)
  BY <1>4 DEF Function!Promised!Move, Calls, Function!Empty
<1> QED BY <1>5, AbstractOperators DEF Function!Promised!Next

LEMMA DestroyPromised ==
  ASSUME FunctionInductive', NEW f \in exists,
         Calls' = [e \in exists \ {f} |-> Calls[e]], UNCHANGED invoked
  PROVE  Function!Promised!Next
<1> DEFINE new == [g \in Function!Promised!Owners \ {f} |-> Calls[g]]
<1>1. Calls' = new
  BY AbstractOperators
<1>2. [e \in exists |-> IF Function!Empty(e) THEN Nothing ELSE holds[callable_[e]]]' = new
  BY <1>1 DEF Calls, Function!Empty
<1>3. Function!Cardinality({p \in Function!Places : holds[p] # Nothing})' =
        Function!Promised!Cardinality({e \in DOMAIN new : new[e] # Nothing})
  <2> HIDE DEF new
  <2> QED BY <1>1, CopiesAre
<1>5. Function!Promised!Destroy(f)
  BY <1>2, <1>3, CallsIsTarget DEF Function!Promised!Destroy, Function!Promised!Become
<1> QED BY <1>5, AbstractOperators DEF Function!Promised!Next

LEMMA CopyIs ==
  ASSUME FunctionInductive, NEW f \in Functions, NEW g \in exists, f # g,
         NEW h, Without(f, h), Function!CopyFrom(f, g, h), exists' = exists \cup {f}, UNCHANGED invoked
  PROVE  FunctionInductive' /\ Function!Promised!Next
<1>1. /\ callable_ \in [Functions -> Places \cup {nullptr}] /\ holds \in [Places -> Callable]
      /\ exists \subseteq Functions
      /\ \A p \in Places : holds[p] # Nothing <=> \E e \in exists : callable_[e] = p
  BY FunctionFacts
<1>2. FunctionInductive' /\ Calls' = [e \in exists' |-> IF e = f THEN Calls[g] ELSE Calls[e]]
  <2>1. CASE callable_[g] = nullptr
    <3>1. Function!LeaveEmpty(f, h) /\ Calls[g] = Nothing
      BY <2>1 DEF Function!CopyFrom, Function!Empty, Calls
    <3> QED BY <3>1, LeaveEmptyIs
  <2>2. CASE callable_[g] # nullptr
    <3>1. Function!PutInto(f, holds[callable_[g]], Function!is_sbo(g), h) /\ Calls[g] = holds[callable_[g]]
      BY <2>2 DEF Function!CopyFrom, Function!Empty, Calls
    <3>2. callable_[g] \in Places
      BY <1>1, <2>2
    <3>3. holds[callable_[g]] \in Small \cup Large
      BY <1>1, <3>2 DEF Callable
    <3>4. Function!is_sbo(g) \in BOOLEAN
      BY DEF Function!is_sbo
    <3> HIDE DEF Function!is_sbo
    <3> QED BY <3>1, <3>3, <3>4, PutIntoIs
  <2> QED BY <2>1, <2>2
<1> QED BY <1>2, CopyPromised

LEMMA MoveIs ==
  ASSUME FunctionInductive, NEW f \in Functions, NEW g \in exists, f # g,
         NEW h, Without(f, h), Function!MoveFrom(f, g, h), exists' = exists \cup {f}, UNCHANGED invoked
  PROVE  FunctionInductive' /\ Function!Promised!Next
BY MoveFromIs, MovePromised

LEMMA EmptyIs ==
  ASSUME FunctionInductive, NEW f \in Functions, NEW h, Without(f, h), Function!LeaveEmpty(f, h),
         exists' = exists \cup {f}, UNCHANGED invoked
  PROVE  FunctionInductive' /\ Function!Promised!Next
BY LeaveEmptyIs, SetPromised

LEMMA ConstructIs ==
  ASSUME FunctionInductive, NEW f \in Functions, f \notin exists, NEW t \in Small \cup Large,
         Function!Construct(f, t)
  PROVE  FunctionInductive' /\ Function!Promised!Next
<1>1. Function!PutInto(f, t, Function!fits_in_sbo(t), holds) /\ exists' = exists \cup {f} /\ UNCHANGED invoked
  BY DEF Function!Construct, Function!Begin, Function!Running
<1>2. Function!fits_in_sbo(t) \in BOOLEAN /\ Without(f, holds)
  BY AbsentIsWithout DEF Function!fits_in_sbo
<1> HIDE DEF Function!fits_in_sbo
<1>3. FunctionInductive' /\ Calls' = [g \in exists' |-> IF g = f THEN t ELSE Calls[g]]
  BY <1>1, <1>2, PutIntoIs
<1> QED BY <1>1, <1>3, SetPromised

LEMMA DestroyIs ==
  ASSUME FunctionInductive, NEW f \in Functions, Function!Destroy(f)
  PROVE  FunctionInductive' /\ Function!Promised!Next
<1>1. f \in exists /\ exists' = exists \ {f} /\ Function!LeaveEmpty(f, Function!Cleared(f)) /\ UNCHANGED invoked
  BY DEF Function!Destroy, Function!Running
<1>2. Without(f, Function!Cleared(f))
  BY ClearedIsWithout
<1>3. FunctionInductive' /\ Calls' = [g \in exists' |-> IF g = f THEN Nothing ELSE Calls[g]]
  BY <1>1, <1>2, LeaveEmptyIs
<1>4. Calls' = [g \in exists \ {f} |-> Calls[g]]
  BY <1>1, <1>3
<1> QED BY <1>1, <1>3, <1>4, DestroyPromised

LEMMA FunctionStep ==
  FunctionInductive /\ [AnyNext]_allVars =>
    FunctionInductive' /\ [Function!Promised!Next]_(Function!Promised!vars)
<1> SUFFICES ASSUME FunctionInductive, Function!Next \/ UNCHANGED functionVars
             PROVE  FunctionInductive' /\ (Function!Promised!Next \/ UNCHANGED <<exists, callable_, holds, invoked>>)
  <2>1. UNCHANGED <<exists, callable_, holds, invoked>> => UNCHANGED Function!Promised!vars
    BY DEF Function!Promised!vars, Function!Empty
  <2> QED BY <2>1, FunctionSteps
<1>0. exists \subseteq Functions
  BY FunctionFacts
<1>1. CASE UNCHANGED functionVars
  BY <1>1 DEF functionVars, FunctionInductive
<1>2. CASE Function!StackOverflows
  BY <1>2 DEF Function!StackOverflows, Function!objectVars, FunctionInductive
<1>3. ASSUME NEW f \in Functions, Function!ConstructEmpty(f) \/ Function!AssignNull(f)
      PROVE  FunctionInductive' /\ Function!Promised!Next
  <2>1. CASE Function!ConstructEmpty(f)
    <3>1. f \notin exists /\ exists' = exists \cup {f} /\ Function!LeaveEmpty(f, holds) /\ UNCHANGED invoked
      BY <2>1 DEF Function!ConstructEmpty, Function!Begin, Function!Running
    <3> QED BY <3>1, AbsentIsWithout, EmptyIs
  <2>2. CASE Function!AssignNull(f)
    <3>1. exists' = exists \cup {f} /\ Function!LeaveEmpty(f, Function!Cleared(f)) /\ UNCHANGED invoked
      BY <2>2 DEF Function!AssignNull, Function!Assigning, Function!Running
    <3> QED BY <3>1, ClearedIsWithout, EmptyIs
  <2> QED BY <1>3, <2>1, <2>2
<1>4. ASSUME NEW f \in Functions, Function!Destroy(f)
      PROVE  FunctionInductive' /\ Function!Promised!Next
  BY <1>4, DestroyIs
<1>5. ASSUME NEW f \in Functions, Function!Invoke(f)
      PROVE  FunctionInductive' /\ Function!Promised!Next
  <2>1. f \in exists /\ UNCHANGED <<exists, callable_, holds>> /\ invoked' = Calls[f]
    BY <1>5 DEF Function!Invoke, Function!objectVars, Function!Empty, Calls
  <2>2. Function!Promised!Invoke(f)
    BY <2>1 DEF Function!Promised!Invoke, Calls, Function!Empty
  <2> QED BY <2>1, <2>2, AbstractOperators DEF FunctionInductive, Function!Promised!Next
<1>6. ASSUME NEW f \in Functions, NEW t \in Function!Targets, Function!Construct(f, t)
      PROVE  FunctionInductive' /\ Function!Promised!Next
  BY <1>6, ConstructIs DEF Function!Construct, Function!Begin, Function!Targets
<1>7. ASSUME NEW f \in Functions, NEW g \in Functions,
             Function!CopyConstruct(f, g) \/ Function!MoveConstruct(f, g)
      PROVE  FunctionInductive' /\ Function!Promised!Next
  <2>1. f \notin exists /\ g \in exists /\ exists' = exists \cup {f} /\ UNCHANGED invoked
        /\ (Function!CopyFrom(f, g, holds) \/ Function!MoveFrom(f, g, holds))
    BY <1>7 DEF Function!CopyConstruct, Function!MoveConstruct, Function!Begin, Function!Running
  <2>2. f # g /\ Without(f, holds)
    BY <2>1, AbsentIsWithout
  <2> QED BY <2>1, <2>2, CopyIs, MoveIs
<1>8. ASSUME NEW f \in Functions, NEW g \in Functions,
             Function!CopyAssign(f, g) \/ Function!MoveAssign(f, g)
      PROVE  FunctionInductive' /\ Function!Promised!Next
  <2>1. g \in exists /\ g # f /\ exists' = exists \cup {f} /\ UNCHANGED invoked
        /\ (Function!CopyFrom(f, g, Function!Cleared(f)) \/ Function!MoveFrom(f, g, Function!Cleared(f)))
    BY <1>8 DEF Function!CopyAssign, Function!MoveAssign, Function!Assigning, Function!Running
  <2> QED BY <2>1, ClearedIsWithout, CopyIs, MoveIs
<1>9. ASSUME NEW f \in Functions, NEW g \in Functions, Function!CopyAssignThrows(f, g)
      PROVE  FunctionInductive' /\ Function!Promised!Next
  <2>1. exists' = exists \cup {f} /\ Function!LeaveEmpty(f, Function!Cleared(f)) /\ UNCHANGED invoked
    BY <1>9 DEF Function!CopyAssignThrows, Function!Assigning, Function!Running
  <2> QED BY <2>1, ClearedIsWithout, EmptyIs
<1>10. ASSUME NEW f \in Functions, NEW g \in Functions, Function!CopyNonConst(f, g)
       PROVE  FunctionInductive' /\ UNCHANGED <<exists, callable_, holds, invoked>>
  BY <1>10 DEF Function!CopyNonConst, Function!objectVars, FunctionInductive
<1> QED BY <1>1, <1>2, <1>3, <1>4, <1>5, <1>6, <1>7, <1>8, <1>9, <1>10 DEF Function!Next

\* Each function object calls what it was given, through copies, moves,
\* assignments and exceptions, and there is exactly one callable for each
\* object that is not empty: none is leaked, shared or destroyed twice
\* (my_function.hpp:109, 121).
THEOREM EveryCallableHasAnOwner == FairSpec => ImplementsCallables
<1>1. AnyInit => FunctionInductive /\ Function!Promised!Init
  <2> SUFFICES ASSUME Function!Init PROVE FunctionInductive /\ Function!Promised!Init
    BY DEF AnyInit
  <2>1. /\ exists = {} /\ invoked = Nothing
        /\ callable_ = [f \in Functions |-> nullptr]
        /\ holds = [p \in Places |-> Nothing]
    BY DEF Function!Init, Function!Places, Places
  <2>2. FunctionInductive
    BY <2>1 DEF FunctionInductive, Places
  <2>3. Function!Cardinality({p \in Function!Places : holds[p] # Nothing}) = 0
    <3>1. {p \in Function!Places : holds[p] # Nothing} = {}
      BY <2>1 DEF Places, Function!Places
    <3>2. Cardinality({}) = 0
      BY FS_EmptySet
    <3> QED BY <3>1, <3>2, CardinalityIsOne
  <2>4. [f \in exists |-> IF Function!Empty(f) THEN Nothing ELSE holds[callable_[f]]] = [f \in {} |-> Nothing]
    BY <2>1
  <2> QED BY <2>1, <2>2, <2>3, <2>4 DEF Function!Promised!Init
<1> QED BY <1>1, FunctionStep, PTL
        DEF FairSpec, ImplementsCallables, Function!ImplementsCallables, Function!Promised!Spec
=============================================================================
