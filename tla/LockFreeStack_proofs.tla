------------------------- MODULE LockFreeStack_proofs -------------------------
(***************************************************************************)
(* Proofs about LockFreeStack, for any number of threads, any set of       *)
(* addresses and keys, and any bounds on tags and spurious failures.       *)
(***************************************************************************)
EXTENDS LockFreeStack, SequenceTheorems, TLAPS

-----------------------------------------------------------------------------
(* The inductive invariant: what else is true of every state.                *)

\* The threads about to compare and swap.
Swapping == {t \in Threads : pc[t] \in {"push cas", "pop cas"}}

\* A tagged pointer that a thread is about to store is new: it is not the
\* first top, top does not hold it, no thread has loaded it, no other thread
\* is about to store one with that tag, and every tag was handed out before.
TagsAreFresh ==
  /\ top = InitTop \/ top.tag < tag_counter
  /\ \A t \in Threads : old_top[t] = InitTop \/ old_top[t].tag < tag_counter
  /\ \A t \in Swapping :
       /\ new_top[t].tag < tag_counter
       /\ new_top[t] # InitTop /\ new_top[t] # top
       /\ \A u \in Threads : new_top[t] # old_top[u]
       /\ \A u \in Swapping : t # u => new_top[t].tag # new_top[u].tag

\* NoABA from the moment pop reads next: while top is what the pop has
\* loaded, the next pointer it has read is the node's.
ReadIsCurrent ==
  \A t \in Threads :
    pc[t] \in {"pop tag", "pop cas"} /\ old_top[t] = top => new_top[t].node = next[top.node]

\* The node that a push is about to publish points to the top it has loaded.
LinkIsSet ==
  \A t \in Threads : pc[t] = "push cas" => next[new_top[t].node] = old_top[t].node

\* Every node carries a key that was pushed.
NodesCarryKeys == \A n \in allocated : key[n] \in Keys

Invariant == StackInvariant /\ TagsAreFresh /\ ReadIsCurrent /\ LinkIsSet /\ NodesCarryKeys
-----------------------------------------------------------------------------
(* What the helpers of the module return.                                    *)

\* A sequence with one more element in front.
LEMMA ConsProperties ==
  ASSUME NEW S, NEW s \in Seq(S), NEW e \in S
  PROVE  /\ <<e>> \o s \in Seq(S) /\ <<e>> \o s # <<>>
         /\ Len(s) \in Nat /\ Len(<<e>> \o s) = Len(s) + 1
         /\ (<<e>> \o s)[1] = e
         /\ \A i \in 2 .. Len(s) + 1 : (<<e>> \o s)[i] = s[i - 1]
<1>1. <<e>> \in Seq(S) /\ Len(<<e>>) = 1 /\ <<e>>[1] = e
  OBVIOUS
<1>2. /\ <<e>> \o s \in Seq(S) /\ Len(<<e>> \o s) = 1 + Len(s)
      /\ \A i \in 1 .. 1 + Len(s) : (<<e>> \o s)[i] = IF i <= 1 THEN <<e>>[i] ELSE s[i - 1]
  BY <1>1, ConcatProperties
<1>3. Len(s) \in Nat
  BY LenProperties
<1> QED BY <1>1, <1>2, <1>3, EmptySeq

\* FetchTag hands out the current count, as part of a typed tagged pointer.
LEMMA FetchTagTypes ==
  ASSUME TypeOK, NEW t \in Threads, NEW n \in Pointers, FetchTag(t, n)
  PROVE  /\ new_top' \in [Threads -> TaggedPointer] /\ tag_counter' \in Nat
         /\ tag_counter' = tag_counter + 1
         /\ new_top'[t].node = n /\ new_top'[t].tag = tag_counter
         /\ \A u \in Threads \ {t} : new_top'[u] = new_top[u]
<1> DEFINE fresh == [node |-> n, tag |-> tag_counter]
<1>1. tag_counter \in Nat /\ new_top \in [Threads -> TaggedPointer] /\ fresh \in TaggedPointer
  BY DEF TypeOK, TaggedPointer
<1>2. new_top' = [new_top EXCEPT ![t] = fresh] /\ tag_counter' = tag_counter + 1
  BY DEF FetchTag
<1>3. tag_counter' \in Nat
  BY <1>1, <1>2
<1> HIDE DEF fresh
<1>4. /\ new_top' \in [Threads -> TaggedPointer] /\ new_top'[t] = fresh
      /\ \A u \in Threads \ {t} : new_top'[u] = new_top[u]
  BY <1>1, <1>2
<1> QED BY <1>2, <1>3, <1>4 DEF fresh

\* Changing the node of one tagged pointer.
LEMMA SetNodeTypes ==
  ASSUME TypeOK, NEW t \in Threads, NEW n \in Pointers,
         new_top' = [new_top EXCEPT ![t].node = n]
  PROVE  /\ new_top' \in [Threads -> TaggedPointer] /\ new_top'[t].node = n
         /\ \A u \in Threads \ {t} : new_top'[u] = new_top[u]
BY DEF TypeOK, TaggedPointer

\* A failed compare_exchange_weak changes old_top[t] and nothing else of what
\* TypeOK speaks of.
LEMMA CASFailsTypes ==
  ASSUME TypeOK, NEW t \in Threads, CASFails(t)
  PROVE  /\ old_top' \in [Threads -> TaggedPointer] /\ spurious' \in Nat
         /\ old_top'[t] = top /\ top' = top
         /\ \A u \in Threads \ {t} : old_top'[u] = old_top[u]
<1>1. top \in TaggedPointer /\ old_top \in [Threads -> TaggedPointer] /\ spurious \in Nat
  BY DEF TypeOK
<1>2. old_top' = [old_top EXCEPT ![t] = top] /\ top' = top
  BY DEF CASFails
<1>3. spurious' \in Nat
  BY <1>1 DEF CASFails
<1> QED BY <1>1, <1>2, <1>3
-----------------------------------------------------------------------------
(* Type correctness.                                                         *)

LEMMA InitTypeOK == Init => TypeOK
<1>1. <<>> \in Seq(Nodes)
  BY EmptySeq
<1> QED BY <1>1 DEF Init, TypeOK, InitTop, TaggedPointer, Pointers, Labels, Pushing

\* The steps of push, and those of pop.
LEMMA PushTypeOK ==
  ASSUME TypeOK, NEW t \in Threads,
         \/ \E k \in Keys : PushAlloc(t, k)
         \/ PushLoad(t) \/ PushLink(t) \/ PushSucceeds(t) \/ PushRetries(t)
  PROVE  TypeOK'
<1> USE StackAssumption DEF TypeOK, Goto, Labels, Pushing, Pointers
<1>1. ASSUME NEW k \in Keys, PushAlloc(t, k) PROVE TypeOK'
  <2>1. PICK n \in Nodes \ allocated :
          /\ allocated' = allocated \cup {n}
          /\ key' = [key EXCEPT ![n] = k]
          /\ next' = [next EXCEPT ![n] = nullptr]
          /\ new_top' = [new_top EXCEPT ![t].node = n]
    BY <1>1 DEF PushAlloc
  <2>2. /\ new_top' \in [Threads -> TaggedPointer] /\ new_top'[t].node = n
        /\ \A u \in Threads \ {t} : new_top'[u] = new_top[u]
    BY <2>1, SetNodeTypes
  <2> QED BY <1>1, <2>1, <2>2 DEF PushAlloc
<1>2. CASE PushLoad(t)
  BY <1>2 DEF PushLoad
<1>3. CASE PushLink(t)
  <2>1. new_top[t].node \in Nodes /\ old_top[t].node \in Pointers
    BY <1>3 DEF PushLink, TaggedPointer
  <2>2. FetchTag(t, new_top[t].node)
    BY <1>3 DEF PushLink
  <2>3. /\ new_top' \in [Threads -> TaggedPointer] /\ tag_counter' \in Nat
        /\ new_top'[t].node = new_top[t].node
        /\ \A u \in Threads \ {t} : new_top'[u] = new_top[u]
    BY <2>1, <2>2, FetchTagTypes
  <2>4. next' \in [Nodes -> Pointers]
    BY <1>3, <2>1 DEF PushLink
  <2>5. \A u \in Threads : new_top'[u].node = new_top[u].node
    BY <2>3
  <2> QED BY <1>3, <2>3, <2>4, <2>5 DEF PushLink
<1>4. CASE PushSucceeds(t)
  <2>1. new_top[t].node \in Nodes
    BY <1>4 DEF PushSucceeds, TaggedPointer
  <2>2. stack' \in Seq(Nodes)
    BY <1>4, <2>1, ConsProperties DEF PushSucceeds
  <2> QED BY <1>4, <2>2 DEF PushSucceeds, CAS
<1>5. CASE PushRetries(t)
  BY <1>5, CASFailsTypes DEF PushRetries
<1> QED BY <1>1, <1>2, <1>3, <1>4, <1>5

LEMMA PopTypeOK ==
  ASSUME TypeOK, ListIsStack, NEW t \in Threads,
         \/ PopLoad(t) \/ PopEmpty(t) \/ PopReadNext(t) \/ PopTag(t)
         \/ PopSucceeds(t) \/ PopRetries(t) \/ PopTake(t)
  PROVE  TypeOK'
<1> USE StackAssumption DEF TypeOK, Goto, Labels, Pushing, Pointers
<1>1. CASE PopLoad(t)
  BY <1>1 DEF PopLoad
<1>2. CASE PopEmpty(t)
  BY <1>2 DEF PopEmpty
<1>3. CASE PopReadNext(t)
  <2>1. PICK n \in NextOf(old_top[t].node) : new_top' = [new_top EXCEPT ![t].node = n]
    BY <1>3 DEF PopReadNext
  <2>2. n \in Pointers
    BY <2>1 DEF NextOf
  <2>3. new_top' \in [Threads -> TaggedPointer] /\ \A u \in Threads \ {t} : new_top'[u] = new_top[u]
    BY <2>1, <2>2, SetNodeTypes
  <2> QED BY <1>3, <2>3 DEF PopReadNext
<1>4. CASE PopTag(t)
  <2>1. new_top[t].node \in Pointers
    BY DEF TaggedPointer
  <2> QED BY <1>4, <2>1, FetchTagTypes DEF PopTag
<1>5. CASE PopSucceeds(t)
  <2>1. stack # <<>>
    BY <1>5 DEF PopSucceeds, CAS, ListIsStack
  <2>2. stack' \in Seq(Nodes)
    BY <1>5, <2>1, HeadTailProperties DEF PopSucceeds
  <2> QED BY <1>5, <2>2 DEF PopSucceeds, CAS
<1>6. CASE PopRetries(t)
  BY <1>6, CASFailsTypes DEF PopRetries
<1>7. CASE PopTake(t)
  <2>1. key[old_top[t].node] \in Keys \cup {0}
    BY <1>7 DEF PopTake, TaggedPointer
  <2> QED BY <1>7, <2>1 DEF PopTake
<1> QED BY <1>1, <1>2, <1>3, <1>4, <1>5, <1>6, <1>7
-----------------------------------------------------------------------------
(* The linked list and the owners of the nodes.                              *)

\* What the owners of nodes and top have to do with each other.
LEMMA Owners ==
  ASSUME StackInvariant
  PROVE  /\ Len(stack) \in Nat /\ \A n \in 1 .. Len(stack) : stack[n] \in StackNodes
         /\ StackNodes \subseteq allocated /\ allocated \subseteq Nodes
         /\ \A t \in Pushing : new_top[t].node \in allocated \ StackNodes
         /\ \A t \in Taking : old_top[t].node \in allocated \ StackNodes
         /\ \A t \in Pushing, u \in Taking : new_top[t].node # old_top[u].node
         /\ stack = <<>> <=> top.node = nullptr
         /\ stack # <<>> => top.node = stack[1] /\ top.node \in StackNodes
<1> USE DEF StackInvariant
<1>1. Len(stack) \in Nat /\ (stack # <<>> => Len(stack) \in Nat \ {0})
  BY EmptySeq, LenProperties DEF TypeOK
<1>2. \A n \in 1 .. Len(stack) : stack[n] \in StackNodes
  BY DEF StackNodes
<1>3. /\ StackNodes \subseteq allocated /\ allocated \subseteq Nodes
      /\ \A t \in Pushing : new_top[t].node \in allocated \ StackNodes
      /\ \A t \in Taking : old_top[t].node \in allocated \ StackNodes
      /\ \A t \in Pushing, u \in Taking : new_top[t].node # old_top[u].node
  <2>1. \A t \in Pushing : new_top[t].node \in PrivateNodes
    BY DEF PrivateNodes
  <2>2. \A t \in Taking : old_top[t].node \in TakenNodes
    BY DEF TakenNodes
  <2> QED BY <2>1, <2>2 DEF OneOwner, TypeOK
<1>4. stack # <<>> => top.node = stack[1] /\ top.node \in StackNodes
  BY <1>1, <1>2 DEF ListIsStack
<1>5. stack = <<>> <=> top.node = nullptr
  BY <1>3, <1>4, StackAssumption DEF ListIsStack
<1> QED BY <1>1, <1>2, <1>3, <1>4, <1>5

\* A step that stays off the stack: it only links nodes that are not on it.
LEMMA ListUntouched ==
  ASSUME StackInvariant, UNCHANGED <<top, stack>>, \A n \in StackNodes : next'[n] = next[n]
  PROVE  ListIsStack'
<1>1. \A n \in 1 .. Len(stack) : next'[stack[n]] = next[stack[n]]
  BY Owners
<1> QED BY <1>1 DEF StackInvariant, ListIsStack

LEMMA PushedList ==
  ASSUME StackInvariant, LinkIsSet, NEW t \in Threads, PushSucceeds(t)
  PROVE  ListIsStack' /\ StackNodes' = StackNodes \cup {new_top[t].node}
<1> DEFINE n == new_top[t].node
<1>1. t \in Pushing /\ top = old_top[t] /\ top' = new_top[t] /\ next' = next
  BY DEF PushSucceeds, CAS, Pushing
<1>2. n \in Nodes \ StackNodes /\ n # nullptr /\ next[n] = top.node
  BY <1>1, Owners, StackAssumption DEF LinkIsSet, PushSucceeds
<1>3. /\ stack \in Seq(Nodes) /\ stack' \in Seq(Nodes)
      /\ Len(stack) \in Nat /\ Len(stack') = Len(stack) + 1 /\ stack' # <<>>
      /\ stack'[1] = n /\ \A i \in 2 .. Len(stack) + 1 : stack'[i] = stack[i - 1]
  <2>1. stack \in Seq(Nodes) /\ n \in Nodes /\ stack' = <<n>> \o stack
    BY <1>2 DEF PushSucceeds, StackInvariant, TypeOK
  <2> HIDE DEF n
  <2> QED BY <2>1, ConsProperties
<1>4. \A i \in 1 .. Len(stack) : stack[i] # n
  BY <1>2, Owners
<1>5. top'.node = n
  BY <1>1
<1>6. ASSUME NEW i \in 1 .. Len(stack')
      PROVE  next'[stack'[i]] = IF i = Len(stack') THEN nullptr ELSE stack'[i + 1]
  <2>1. CASE i = 1
    <3>1. next'[stack'[i]] = IF stack = <<>> THEN nullptr ELSE stack[1]
      BY <1>1, <1>2, <1>3, <2>1 DEF StackInvariant, ListIsStack
    <3>2. stack = <<>> <=> Len(stack) = 0
      BY <1>3, EmptySeq
    <3> QED BY <1>3, <2>1, <3>1, <3>2
  <2>2. CASE i # 1
    <3>1. i - 1 \in 1 .. Len(stack) /\ stack'[i] = stack[i - 1]
      BY <1>3, <2>2
    <3>2. next[stack[i - 1]] = IF i - 1 = Len(stack) THEN nullptr ELSE stack[(i - 1) + 1]
      BY <3>1 DEF StackInvariant, ListIsStack
    <3>3. i - 1 # Len(stack) => stack'[i + 1] = stack[i]
      BY <1>3, <2>2
    <3> QED BY <1>1, <1>3, <3>1, <3>2, <3>3
  <2> QED BY <2>1, <2>2
<1>7. ASSUME NEW i \in 1 .. Len(stack'), NEW j \in 1 .. Len(stack'), i # j
      PROVE  stack'[i] # stack'[j]
  <2>1. CASE i = 1 \/ j = 1
    BY <1>3, <1>4, <1>7, <2>1
  <2>2. CASE i # 1 /\ j # 1
    <3>1. /\ i - 1 \in 1 .. Len(stack) /\ j - 1 \in 1 .. Len(stack) /\ i - 1 # j - 1
          /\ stack'[i] = stack[i - 1] /\ stack'[j] = stack[j - 1]
      BY <1>3, <1>7, <2>2
    <3> QED BY <3>1 DEF StackInvariant, ListIsStack
  <2> QED BY <2>1, <2>2
<1>8. StackNodes' = StackNodes \cup {n}
  <2>1. ASSUME NEW i \in 1 .. Len(stack') PROVE stack'[i] \in StackNodes \cup {n}
    BY <1>3, Owners
  <2>2. \A i \in 1 .. Len(stack) : i + 1 \in 1 .. Len(stack') /\ stack'[i + 1] = stack[i]
    BY <1>3
  <2>3. 1 \in 1 .. Len(stack') /\ stack'[1] = n
    BY <1>3
  <2>4. StackNodes \cup {n} \subseteq StackNodes'
    BY <2>2, <2>3 DEF StackNodes
  <2>5. StackNodes' \subseteq StackNodes \cup {n}
    BY <2>1 DEF StackNodes
  <2> QED BY <2>4, <2>5
<1> QED BY <1>3, <1>5, <1>6, <1>7, <1>8 DEF ListIsStack

LEMMA PoppedList ==
  ASSUME StackInvariant, ReadIsCurrent, NEW t \in Threads, PopSucceeds(t)
  PROVE  /\ ListIsStack' /\ StackNodes' = StackNodes \ {old_top[t].node}
         /\ old_top[t].node \in StackNodes
<1>1. /\ top = old_top[t] /\ top' = new_top[t] /\ next' = next /\ stack' = Tail(stack)
      /\ top.node # nullptr /\ new_top[t].node = next[top.node]
  BY DEF PopSucceeds, CAS, ReadIsCurrent, StackInvariant, TypeOK
<1>2. stack # <<>> /\ top.node = stack[1] /\ top.node \in StackNodes
  BY <1>1, Owners
<1>3. /\ stack \in Seq(Nodes) /\ stack' \in Seq(Nodes)
      /\ Len(stack) \in Nat \ {0} /\ Len(stack') = Len(stack) - 1
      /\ \A i \in 1 .. Len(stack') : stack'[i] = stack[i + 1]
  BY <1>1, <1>2, EmptySeq, HeadTailProperties DEF StackInvariant, TypeOK
<1>4. stack' = <<>> <=> Len(stack) = 1
  BY <1>3, EmptySeq
<1>5. top'.node = IF stack' = <<>> THEN nullptr ELSE stack'[1]
  <2>1. top'.node = IF 1 = Len(stack) THEN nullptr ELSE stack[1 + 1]
    <3>1. 1 \in 1 .. Len(stack)
      BY <1>3
    <3>2. next[stack[1]] = IF 1 = Len(stack) THEN nullptr ELSE stack[1 + 1]
      BY <3>1 DEF StackInvariant, ListIsStack
    <3> QED BY <1>1, <1>2, <3>2
  <2> QED BY <1>3, <1>4, <2>1
<1>6. ASSUME NEW i \in 1 .. Len(stack')
      PROVE  next'[stack'[i]] = IF i = Len(stack') THEN nullptr ELSE stack'[i + 1]
  <2>1. i + 1 \in 1 .. Len(stack) /\ stack'[i] = stack[i + 1]
    BY <1>3
  <2>2. next[stack[i + 1]] = IF i + 1 = Len(stack) THEN nullptr ELSE stack[(i + 1) + 1]
    BY <2>1 DEF StackInvariant, ListIsStack
  <2>3. i + 1 # Len(stack) => stack'[i + 1] = stack[(i + 1) + 1]
    BY <1>3
  <2>4. i = Len(stack') <=> i + 1 = Len(stack)
    BY <1>3
  <2>5. next'[stack'[i]] = next[stack[i + 1]]
    BY <1>1, <2>1
  <2> QED BY <2>2, <2>3, <2>4, <2>5
<1>7. ASSUME NEW i \in 1 .. Len(stack'), NEW j \in 1 .. Len(stack'), i # j
      PROVE  stack'[i] # stack'[j]
  <2>1. i + 1 \in 1 .. Len(stack) /\ j + 1 \in 1 .. Len(stack) /\ i + 1 # j + 1
    BY <1>3, <1>7
  <2> QED BY <1>3, <2>1 DEF StackInvariant, ListIsStack
<1>8. StackNodes' = StackNodes \ {stack[1]}
  <2>1. \A i \in 1 .. Len(stack') :
          i + 1 \in 1 .. Len(stack) /\ stack'[i] = stack[i + 1] /\ stack[i + 1] # stack[1]
    BY <1>3 DEF StackInvariant, ListIsStack
  <2>2. \A i \in 1 .. Len(stack) : i # 1 => i - 1 \in 1 .. Len(stack') /\ stack'[i - 1] = stack[i]
    BY <1>3
  <2> QED BY <2>1, <2>2 DEF StackNodes
<1> QED BY <1>1, <1>2, <1>5, <1>6, <1>7, <1>8 DEF ListIsStack

\* A step that moves no node from one owner to another.
LEMMA OwnersUntouched ==
  ASSUME OneOwner, UNCHANGED <<allocated, stack>>, Pushing' = Pushing, Taking' = Taking,
         \A t \in Pushing : new_top'[t].node = new_top[t].node,
         \A t \in Taking : old_top'[t].node = old_top[t].node
  PROVE  OneOwner'
<1>1. StackNodes' = StackNodes
  BY DEF StackNodes
<1>2. PrivateNodes' = PrivateNodes /\ TakenNodes' = TakenNodes
  BY DEF PrivateNodes, TakenNodes
<1> QED BY <1>1, <1>2 DEF OneOwner

\* push: a new node is the thread's until it is published.
LEMMA PushKeepsListAndOwners ==
  ASSUME StackInvariant, LinkIsSet, NEW t \in Threads,
         \/ \E k \in Keys : PushAlloc(t, k)
         \/ PushLoad(t) \/ PushLink(t) \/ PushSucceeds(t) \/ PushRetries(t)
  PROVE  ListIsStack' /\ OneOwner'
<1> USE DEF Goto
<1>1. ASSUME NEW k \in Keys, PushAlloc(t, k) PROVE ListIsStack' /\ OneOwner'
  <2>1. PICK n \in Nodes \ allocated :
          /\ allocated' = allocated \cup {n}
          /\ next' = [next EXCEPT ![n] = nullptr]
          /\ new_top' = [new_top EXCEPT ![t].node = n]
    BY <1>1 DEF PushAlloc
  <2>2. ListIsStack'
    BY <1>1, <2>1, Owners, ListUntouched DEF PushAlloc, StackInvariant, TypeOK
  <2>11. /\ pc[t] = "idle" /\ pc' = [pc EXCEPT ![t] = "push load"] /\ UNCHANGED <<stack, old_top>>
        /\ pc \in [Threads -> Labels]
    BY <1>1 DEF PushAlloc, StackInvariant, TypeOK
  <2>3. t \notin Pushing /\ Pushing' = Pushing \cup {t} /\ Taking' = Taking
    BY <2>11 DEF Pushing, Taking
  <2>4. new_top'[t].node = n /\ \A u \in Pushing : new_top'[u] = new_top[u]
    BY <2>1, <2>3, SetNodeTypes, Owners DEF StackInvariant, Pushing, Pointers
  <2>5. StackNodes' = StackNodes /\ TakenNodes' = TakenNodes
    BY <2>11, <2>3 DEF StackNodes, TakenNodes
  <2>6. PrivateNodes' = PrivateNodes \cup {n}
    BY <2>3, <2>4 DEF PrivateNodes
  <2>7. n \notin StackNodes /\ n \notin PrivateNodes /\ n \notin TakenNodes
    BY <2>1 DEF StackInvariant, OneOwner
  <2>8. \A u, v \in Pushing' : u # v => new_top'[u].node # new_top'[v].node
    BY <2>1, <2>3, <2>4, Owners DEF StackInvariant, OneOwner
  <2>9. \A u, v \in Taking' : u # v => old_top'[u].node # old_top'[v].node
    BY <1>1, <2>3 DEF PushAlloc, StackInvariant, OneOwner
  <2>10. OneOwner'
    BY <2>1, <2>5, <2>6, <2>7, <2>8, <2>9 DEF StackInvariant, OneOwner
  <2> QED BY <2>2, <2>10
<1>2. CASE PushLoad(t) \/ PushRetries(t)
  <2>1. ListIsStack'
    BY <1>2, ListUntouched DEF PushLoad, PushRetries, CASFails
  <2>2. Pushing' = Pushing /\ Taking' = Taking /\ t \notin Taking
    BY <1>2 DEF PushLoad, PushRetries, Pushing, Taking, StackInvariant, TypeOK
  <2>3. \A u \in Taking : old_top'[u] = old_top[u]
    BY <1>2, <2>2 DEF PushLoad, PushRetries, CASFails, StackInvariant, TypeOK, Taking
  <2> QED BY <1>2, <2>1, <2>2, <2>3, OwnersUntouched DEF PushLoad, PushRetries, StackInvariant
<1>3. CASE PushLink(t)
  <2>1. t \in Pushing /\ new_top[t].node \in Nodes \ StackNodes
    BY <1>3, Owners DEF PushLink, Pushing
  <2>2. ListIsStack'
    BY <1>3, <2>1, Owners, ListUntouched DEF PushLink, StackInvariant, TypeOK
  <2>3. Pushing' = Pushing /\ Taking' = Taking
    BY <1>3 DEF PushLink, Pushing, Taking, StackInvariant, TypeOK
  <2>4. \A u \in Pushing : new_top'[u].node = new_top[u].node
    <3>1. FetchTag(t, new_top[t].node) /\ new_top[t].node \in Pointers
      BY <1>3, <2>1 DEF PushLink, Pointers
    <3> QED BY <3>1, FetchTagTypes DEF StackInvariant, Pushing
  <2> QED BY <1>3, <2>2, <2>3, <2>4, OwnersUntouched DEF PushLink, StackInvariant
<1>4. CASE PushSucceeds(t)
  <2>1. ListIsStack' /\ StackNodes' = StackNodes \cup {new_top[t].node}
    BY <1>4, PushedList
  <2>2. t \in Pushing /\ Pushing' = Pushing \ {t} /\ Taking' = Taking
    BY <1>4 DEF PushSucceeds, Pushing, Taking, StackInvariant, TypeOK
  <2>3. UNCHANGED <<allocated, new_top, old_top>>
    BY <1>4 DEF PushSucceeds, CAS
  <2>4. TakenNodes' = TakenNodes
    BY <2>2, <2>3 DEF TakenNodes
  <2>5. PrivateNodes' = PrivateNodes \ {new_top[t].node} /\ new_top[t].node \in PrivateNodes
    BY <2>2, <2>3 DEF PrivateNodes, StackInvariant, OneOwner
  <2>6. OneOwner'
    BY <2>1, <2>2, <2>3, <2>4, <2>5 DEF StackInvariant, OneOwner
  <2> QED BY <2>1, <2>6
<1> QED BY <1>1, <1>2, <1>3, <1>4

\* pop: the node that is unlinked is the thread's until it is deleted.
LEMMA PopKeepsListAndOwners ==
  ASSUME StackInvariant, ReadIsCurrent, NEW t \in Threads,
         \/ PopLoad(t) \/ PopEmpty(t) \/ PopReadNext(t) \/ PopTag(t)
         \/ PopSucceeds(t) \/ PopRetries(t) \/ PopTake(t)
  PROVE  ListIsStack' /\ OneOwner'
<1> USE DEF Goto
<1>1. CASE PopLoad(t) \/ PopEmpty(t) \/ PopRetries(t)
  <2>1. ListIsStack'
    BY <1>1, ListUntouched DEF PopLoad, PopEmpty, PopRetries, CASFails
  <2>2. Pushing' = Pushing /\ Taking' = Taking /\ t \notin Taking
    BY <1>1 DEF PopLoad, PopEmpty, PopRetries, Pushing, Taking, StackInvariant, TypeOK
  <2>3. \A u \in Taking : old_top'[u] = old_top[u]
    BY <1>1, <2>2 DEF PopLoad, PopEmpty, PopRetries, CASFails, StackInvariant, TypeOK, Taking
  <2> QED
    BY <1>1, <2>1, <2>2, <2>3, OwnersUntouched DEF PopLoad, PopEmpty, PopRetries, StackInvariant
<1>2. CASE PopReadNext(t) \/ PopTag(t)
  <2>1. ListIsStack'
    BY <1>2, ListUntouched DEF PopReadNext, PopTag
  <2>2. Pushing' = Pushing /\ Taking' = Taking /\ t \notin Pushing
    BY <1>2 DEF PopReadNext, PopTag, Pushing, Taking, StackInvariant, TypeOK
  <2>3. \A u \in Pushing : new_top'[u] = new_top[u]
    BY <1>2, <2>2 DEF PopReadNext, PopTag, FetchTag, StackInvariant, TypeOK, Pushing
  <2> QED BY <1>2, <2>1, <2>2, <2>3, OwnersUntouched DEF PopReadNext, PopTag, StackInvariant
<1>3. CASE PopSucceeds(t)
  <2>1. /\ ListIsStack' /\ StackNodes' = StackNodes \ {old_top[t].node}
        /\ old_top[t].node \in StackNodes
    BY <1>3, PoppedList
  <2>2. t \notin Taking /\ Taking' = Taking \cup {t} /\ Pushing' = Pushing
    BY <1>3 DEF PopSucceeds, Pushing, Taking, StackInvariant, TypeOK
  <2>3. UNCHANGED <<allocated, new_top, old_top>>
    BY <1>3 DEF PopSucceeds, CAS
  <2>4. PrivateNodes' = PrivateNodes /\ TakenNodes' = TakenNodes \cup {old_top[t].node}
    BY <2>2, <2>3 DEF PrivateNodes, TakenNodes
  <2>5. \A u, v \in Taking' : u # v => old_top'[u].node # old_top'[v].node
    BY <2>1, <2>2, <2>3, Owners DEF StackInvariant, OneOwner
  <2>6. OneOwner'
    BY <2>1, <2>2, <2>3, <2>4, <2>5 DEF StackInvariant, OneOwner
  <2> QED BY <2>1, <2>6
<1>4. CASE PopTake(t)
  <2>1. ListIsStack'
    BY <1>4, ListUntouched DEF PopTake
  <2>2. t \in Taking /\ Taking' = Taking \ {t} /\ Pushing' = Pushing
    BY <1>4 DEF PopTake, Pushing, Taking, StackInvariant, TypeOK
  <2>3. UNCHANGED <<stack, new_top, old_top>> /\ allocated' = allocated \ {old_top[t].node}
    BY <1>4 DEF PopTake
  <2>4. StackNodes' = StackNodes /\ PrivateNodes' = PrivateNodes
    BY <2>2, <2>3 DEF StackNodes, PrivateNodes
  <2>5. TakenNodes' = TakenNodes \ {old_top[t].node} /\ old_top[t].node \in TakenNodes
    BY <2>2, <2>3 DEF TakenNodes, StackInvariant, OneOwner
  <2>6. OneOwner'
    BY <2>2, <2>3, <2>4, <2>5 DEF StackInvariant, OneOwner
  <2> QED BY <2>1, <2>6
<1> QED BY <1>1, <1>2, <1>3, <1>4
-----------------------------------------------------------------------------
(* Tags.                                                                     *)

\* A step that hands out no tag and moves no tagged pointer.
LEMMA TagsUntouched ==
  ASSUME TagsAreFresh, UNCHANGED <<top, tag_counter, old_top>>, Swapping' \subseteq Swapping,
         \A t \in Swapping' : new_top'[t] = new_top[t]
  PROVE  TagsAreFresh'
BY DEF TagsAreFresh

\* A thread that is not, or no longer, about to swap loads top.
LEMMA LoadKeepsTags ==
  ASSUME TypeOK, TagsAreFresh, NEW t \in Threads, UNCHANGED <<top, tag_counter, new_top>>,
         Swapping' \subseteq Swapping,
         old_top'[t] = top, \A u \in Threads \ {t} : old_top'[u] = old_top[u]
  PROVE  TagsAreFresh'
<1>1. \A u \in Threads : old_top'[u] = top \/ old_top'[u] = old_top[u]
  OBVIOUS
<1> QED BY <1>1 DEF TagsAreFresh

\* A thread fetches a tag, and what it will store differs from the first top.
LEMMA FetchKeepsTags ==
  ASSUME TypeOK, TagsAreFresh, NEW t \in Threads, UNCHANGED <<top, old_top>>,
         t \notin Swapping, Swapping' = Swapping \cup {t},
         tag_counter' = tag_counter + 1, new_top'[t].tag = tag_counter, new_top'[t] # InitTop,
         \A u \in Threads \ {t} : new_top'[u] = new_top[u]
  PROVE  TagsAreFresh'
<1>1. /\ tag_counter \in Nat /\ top.tag \in Nat
      /\ \A u \in Threads : old_top[u].tag \in Nat /\ new_top[u].tag \in Nat
  BY DEF TypeOK, TaggedPointer
<1>2. \A u \in Swapping : u \in Threads \ {t}
  BY DEF Swapping
<1>3. top = InitTop \/ top.tag < tag_counter'
  BY <1>1 DEF TagsAreFresh
<1>4. \A u \in Threads : old_top[u] = InitTop \/ old_top[u].tag < tag_counter'
  BY <1>1 DEF TagsAreFresh
<1>5. new_top'[t].tag < tag_counter' /\ new_top'[t] # top
  BY <1>1 DEF TagsAreFresh
<1>6. \A u \in Threads : new_top'[t] # old_top[u]
  BY <1>1 DEF TagsAreFresh
<1>7. \A u \in Swapping :
        /\ new_top'[u] = new_top[u] /\ new_top[u].tag < tag_counter'
        /\ new_top'[u].tag # new_top'[t].tag
  BY <1>1, <1>2 DEF TagsAreFresh
<1> QED BY <1>3, <1>4, <1>5, <1>6, <1>7 DEF TagsAreFresh

\* A successful compare-and-swap: what is now top is new to all others.
LEMMA SwapKeepsTags ==
  ASSUME TypeOK, TagsAreFresh, NEW t \in Swapping, UNCHANGED <<tag_counter, old_top, new_top>>,
         top' = new_top[t], Swapping' = Swapping \ {t}
  PROVE  TagsAreFresh' /\ \A u \in Threads : old_top[u] # top'
<1>1. \A u \in Swapping' : u \in Swapping /\ new_top[u] # new_top[t]
  BY DEF TagsAreFresh
<1> QED BY <1>1 DEF TagsAreFresh

LEMMA PushKeepsTags ==
  ASSUME TypeOK, TagsAreFresh, NEW t \in Threads,
         \/ \E k \in Keys : PushAlloc(t, k)
         \/ PushLoad(t) \/ PushLink(t) \/ PushSucceeds(t) \/ PushRetries(t)
  PROVE  TagsAreFresh' /\ (PushSucceeds(t) => \A u \in Threads : old_top[u] # top')
<1> USE DEF Goto
<1>0. pc \in [Threads -> Labels]
  BY DEF TypeOK
<1>1. ASSUME NEW k \in Keys, PushAlloc(t, k) PROVE TagsAreFresh' /\ ~PushSucceeds(t)
  <2>1. t \notin Swapping /\ Swapping' = Swapping
    BY <1>0, <1>1 DEF PushAlloc, Swapping
  <2>2. \A u \in Swapping : new_top'[u] = new_top[u]
    BY <1>1, <2>1 DEF PushAlloc, TypeOK, Swapping
  <2> QED BY <1>1, <2>1, <2>2, TagsUntouched DEF PushAlloc, PushSucceeds
<1>2. CASE PushLoad(t)
  <2>1. Swapping' = Swapping
    BY <1>0, <1>2 DEF PushLoad, Swapping
  <2>2. old_top'[t] = top /\ \A u \in Threads \ {t} : old_top'[u] = old_top[u]
    BY <1>2 DEF PushLoad, TypeOK
  <2> QED BY <1>2, <2>1, <2>2, LoadKeepsTags DEF PushLoad, PushSucceeds
<1>3. CASE PushLink(t)
  <2>1. t \notin Swapping /\ Swapping' = Swapping \cup {t}
    BY <1>0, <1>3 DEF PushLink, Swapping
  <2>2. new_top[t].node # nullptr /\ new_top[t].node \in Pointers
    BY <1>3 DEF PushLink, TypeOK, Pushing, TaggedPointer
  <2>3. /\ tag_counter' = tag_counter + 1 /\ new_top'[t].tag = tag_counter
        /\ new_top'[t].node = new_top[t].node /\ \A u \in Threads \ {t} : new_top'[u] = new_top[u]
    BY <1>3, <2>2, FetchTagTypes DEF PushLink
  <2>4. new_top'[t] # InitTop
    BY <2>2, <2>3 DEF InitTop
  <2> QED BY <1>3, <2>1, <2>3, <2>4, FetchKeepsTags DEF PushLink, PushSucceeds
<1>4. CASE PushSucceeds(t)
  <2>1. t \in Swapping /\ Swapping' = Swapping \ {t}
    BY <1>0, <1>4 DEF PushSucceeds, Swapping
  <2> QED BY <1>4, <2>1, SwapKeepsTags DEF PushSucceeds, CAS
<1>5. CASE PushRetries(t)
  <2>1. Swapping' \subseteq Swapping
    BY <1>0, <1>5 DEF PushRetries, Swapping
  <2>2. pc'[t] = "push link"
    BY <1>0, <1>5 DEF PushRetries
  <2> QED BY <1>0, <1>5, <2>1, <2>2, CASFailsTypes, LoadKeepsTags DEF PushRetries, PushSucceeds
<1> QED BY <1>1, <1>2, <1>3, <1>4, <1>5

LEMMA PopKeepsTags ==
  ASSUME TypeOK, TagsAreFresh, NEW t \in Threads,
         \/ PopLoad(t) \/ PopEmpty(t) \/ PopReadNext(t) \/ PopTag(t)
         \/ PopSucceeds(t) \/ PopRetries(t) \/ PopTake(t)
  PROVE  TagsAreFresh' /\ (PopSucceeds(t) => \A u \in Threads : old_top[u] # top')
<1> USE DEF Goto
<1>0. pc \in [Threads -> Labels]
  BY DEF TypeOK
<1>1. CASE PopLoad(t)
  <2>1. Swapping' = Swapping
    BY <1>0, <1>1 DEF PopLoad, Swapping
  <2>2. old_top'[t] = top /\ \A u \in Threads \ {t} : old_top'[u] = old_top[u]
    BY <1>1 DEF PopLoad, TypeOK
  <2> QED BY <1>1, <2>1, <2>2, LoadKeepsTags DEF PopLoad, PopSucceeds
<1>2. CASE PopEmpty(t) \/ PopTake(t)
  <2>1. Swapping' = Swapping
    BY <1>0, <1>2 DEF PopEmpty, PopTake, Swapping
  <2> QED BY <1>2, <2>1, TagsUntouched DEF PopEmpty, PopTake, PopSucceeds
<1>3. CASE PopReadNext(t)
  <2>1. t \notin Swapping /\ Swapping' = Swapping
    BY <1>0, <1>3 DEF PopReadNext, Swapping
  <2>2. \A u \in Swapping : new_top'[u] = new_top[u]
    BY <1>3, <2>1 DEF PopReadNext, TypeOK, Swapping
  <2> QED BY <1>3, <2>1, <2>2, TagsUntouched DEF PopReadNext, PopSucceeds
<1>4. CASE PopTag(t)
  <2>1. t \notin Swapping /\ Swapping' = Swapping \cup {t}
    BY <1>0, <1>4 DEF PopTag, Swapping
  <2>2. new_top[t].node \in Pointers /\ tag_counter \in Nat /\ old_top[t].tag \in Nat
    BY DEF TypeOK, TaggedPointer
  <2>3. /\ tag_counter' = tag_counter + 1 /\ new_top'[t].tag = tag_counter
        /\ \A u \in Threads \ {t} : new_top'[u] = new_top[u]
    BY <1>4, <2>2, FetchTagTypes DEF PopTag
  <2>4. old_top[t] # InitTop
    <3>1. old_top[t].node # nullptr
      BY <1>4 DEF PopTag, TypeOK
    <3> QED BY <3>1 DEF InitTop
  <2>5. tag_counter > 0
    BY <2>2, <2>4 DEF TagsAreFresh
  <2>6. new_top'[t] # InitTop
    BY <2>2, <2>3, <2>5 DEF InitTop
  <2> QED BY <1>4, <2>1, <2>3, <2>6, FetchKeepsTags DEF PopTag, PopSucceeds
<1>5. CASE PopSucceeds(t)
  <2>1. t \in Swapping /\ Swapping' = Swapping \ {t}
    BY <1>0, <1>5 DEF PopSucceeds, Swapping
  <2> QED BY <1>5, <2>1, SwapKeepsTags DEF PopSucceeds, CAS
<1>6. CASE PopRetries(t)
  <2>1. Swapping' \subseteq Swapping
    BY <1>0, <1>6 DEF PopRetries, Swapping
  <2>2. pc'[t] = "pop check"
    BY <1>0, <1>6 DEF PopRetries
  <2> QED BY <1>0, <1>6, <2>1, <2>2, CASFailsTypes, LoadKeepsTags DEF PopRetries, PopSucceeds
<1> QED BY <1>1, <1>2, <1>3, <1>4, <1>5, <1>6
-----------------------------------------------------------------------------
(* What a thread has read stays right.                                       *)

\* Which fields of the heap new Node(k) and new_node->next = ... write.
LEMMA AllocWrites ==
  ASSUME TypeOK, NEW t \in Threads, NEW k \in Keys, PushAlloc(t, k)
  PROVE  \E n \in Nodes \ allocated :
           /\ allocated' = allocated \cup {n} /\ key'[n] = k
           /\ \A m \in allocated : key'[m] = key[m] /\ next'[m] = next[m]
<1>1. PICK n \in Nodes \ allocated :
        /\ allocated' = allocated \cup {n}
        /\ key' = [key EXCEPT ![n] = k] /\ next' = [next EXCEPT ![n] = nullptr]
  BY DEF PushAlloc
<1>2. /\ allocated \subseteq Nodes
      /\ key \in [Nodes -> Keys \cup {0}] /\ next \in [Nodes -> Pointers]
  BY DEF TypeOK
<1>3. key'[n] = k
  BY <1>1, <1>2
<1>4. \A m \in allocated : m \in Nodes /\ m # n
  BY <1>1, <1>2
<1>5. \A m \in allocated : key'[m] = key[m] /\ next'[m] = next[m]
  BY <1>1, <1>2, <1>4
<1> QED BY <1>1, <1>3, <1>5

LEMMA LinkWrites ==
  ASSUME TypeOK, NEW t \in Threads, PushLink(t), new_top[t].node \in Nodes
  PROVE  /\ next'[new_top[t].node] = old_top[t].node
         /\ \A m \in Nodes \ {new_top[t].node} : next'[m] = next[m]
<1>1. next \in [Nodes -> Pointers]
  BY DEF TypeOK
<1>2. next' = [next EXCEPT ![new_top[t].node] = old_top[t].node]
  BY DEF PushLink
<1> QED BY <1>1, <1>2

\* The next pointer of a node on the stack is only written before the node is
\* pushed, and top cannot become again what a pop has loaded.
LEMMA PushKeepsRead ==
  ASSUME Invariant, NEW t \in Threads,
         \/ \E k \in Keys : PushAlloc(t, k)
         \/ PushLoad(t) \/ PushLink(t) \/ PushSucceeds(t) \/ PushRetries(t)
  PROVE  ReadIsCurrent'
<1> SUFFICES ASSUME NEW u \in Threads, pc'[u] \in {"pop tag", "pop cas"}, old_top'[u] = top'
             PROVE  new_top'[u].node = next'[top'.node]
  BY DEF ReadIsCurrent
<1> USE DEF Goto
<1>1. /\ StackInvariant /\ TypeOK /\ TagsAreFresh
      /\ pc \in [Threads -> Labels] /\ new_top \in [Threads -> TaggedPointer]
      /\ old_top \in [Threads -> TaggedPointer] /\ next \in [Nodes -> Pointers]
  BY DEF Invariant, StackInvariant, TypeOK
<1>2. u # t /\ pc[u] = pc'[u] /\ old_top'[u] = old_top[u]
  BY <1>1 DEF PushAlloc, PushLoad, PushLink, PushSucceeds, PushRetries, CAS, CASFails
<1>3. ~PushSucceeds(t)
  BY <1>1, <1>2, PushKeepsTags
<1>4. top' = top
  BY <1>3 DEF PushAlloc, PushLoad, PushLink, PushRetries, CASFails
<1>5. top.node # nullptr /\ top.node \in StackNodes /\ StackNodes \subseteq allocated
  <2>1. top.node # nullptr
    BY <1>1, <1>2, <1>4 DEF TypeOK
  <2> QED BY <1>1, <2>1, Owners
<1>6. new_top[u].node = next[top.node]
  BY <1>2, <1>4 DEF Invariant, ReadIsCurrent
<1>7. new_top'[u] = new_top[u]
  BY <1>1, <1>2, <1>3 DEF PushAlloc, PushLoad, PushLink, PushRetries, FetchTag
<1>8. next'[top.node] = next[top.node]
  <2>1. ASSUME NEW k \in Keys, PushAlloc(t, k) PROVE next'[top.node] = next[top.node]
    BY <1>1, <1>5, <2>1, AllocWrites
  <2>2. CASE PushLink(t)
    <3>1. new_top[t].node \in Nodes \ StackNodes /\ top.node \in Nodes
      BY <1>1, <1>5, <2>2, Owners DEF PushLink, Pushing
    <3> QED BY <1>1, <1>5, <2>2, <3>1, LinkWrites
  <2> QED BY <1>3, <2>1, <2>2 DEF PushLoad, PushRetries
<1> QED BY <1>4, <1>6, <1>7, <1>8

LEMMA PopKeepsRead ==
  ASSUME Invariant, NEW t \in Threads,
         \/ PopLoad(t) \/ PopEmpty(t) \/ PopReadNext(t) \/ PopTag(t)
         \/ PopSucceeds(t) \/ PopRetries(t) \/ PopTake(t)
  PROVE  ReadIsCurrent'
<1> SUFFICES ASSUME NEW u \in Threads, pc'[u] \in {"pop tag", "pop cas"}, old_top'[u] = top'
             PROVE  new_top'[u].node = next'[top'.node]
  BY DEF ReadIsCurrent
<1> USE DEF Goto
<1>1. /\ StackInvariant /\ TypeOK /\ TagsAreFresh
      /\ pc \in [Threads -> Labels] /\ new_top \in [Threads -> TaggedPointer]
      /\ old_top \in [Threads -> TaggedPointer] /\ next \in [Nodes -> Pointers]
  BY DEF Invariant, StackInvariant, TypeOK
<1>2. old_top'[u] = old_top[u]
  BY <1>1 DEF PopLoad, PopEmpty, PopReadNext, PopTag, PopSucceeds, PopRetries, PopTake, CAS, CASFails
<1>3. ~PopSucceeds(t)
  BY <1>1, <1>2, PopKeepsTags
<1>4. top' = top /\ next' = next
  BY <1>3 DEF PopLoad, PopEmpty, PopReadNext, PopTag, PopRetries, PopTake, CASFails
<1>5. CASE u = t /\ PopReadNext(t)
  <2>1. top.node # nullptr /\ top.node \in allocated
    BY <1>1, <1>2, <1>4, <1>5, Owners DEF PopReadNext
  <2>2. new_top'[t].node = next[top.node]
    <3>1. new_top' = [new_top EXCEPT ![t].node = next[top.node]]
      BY <1>2, <1>4, <1>5, <2>1 DEF PopReadNext, NextOf
    <3>2. next[top.node] \in Pointers
      BY <1>1, <2>1 DEF TypeOK
    <3> QED BY <1>1, <3>1, <3>2, SetNodeTypes
  <2> QED BY <1>4, <1>5, <2>2
<1>6. CASE u = t /\ PopTag(t)
  <2>1. new_top[t].node \in Pointers
    BY <1>1 DEF TaggedPointer
  <2>2. new_top'[t].node = new_top[t].node
    BY <1>1, <1>6, <2>1, FetchTagTypes DEF PopTag
  <2>3. new_top[t].node = next[top.node]
    BY <1>2, <1>4, <1>6 DEF Invariant, ReadIsCurrent, PopTag
  <2> QED BY <1>4, <1>6, <2>2, <2>3
<1>7. CASE u # t
  <2>1. pc'[u] = pc[u] /\ new_top'[u] = new_top[u]
    BY <1>1, <1>3, <1>7 DEF PopLoad, PopEmpty, PopReadNext, PopTag, PopRetries, PopTake, FetchTag
  <2> QED BY <1>2, <1>4, <2>1 DEF Invariant, ReadIsCurrent
<1> QED BY <1>1, <1>3, <1>5, <1>6, <1>7 DEF PopLoad, PopEmpty, PopRetries, PopTake

\* Nobody else writes the node that a push is about to publish.
LEMMA NextLinkIsSet == Invariant /\ Next => LinkIsSet'
<1> SUFFICES ASSUME Invariant, Next, NEW u \in Threads, pc'[u] = "push cas"
             PROVE  next'[new_top'[u].node] = old_top'[u].node
  BY DEF LinkIsSet
<1> USE DEF Goto
<1>1. /\ StackInvariant /\ TypeOK
      /\ pc \in [Threads -> Labels] /\ new_top \in [Threads -> TaggedPointer]
      /\ old_top \in [Threads -> TaggedPointer] /\ next \in [Nodes -> Pointers]
  BY DEF Invariant, StackInvariant, TypeOK
<1>2. ASSUME NEW t \in Threads, u # t, UNCHANGED next, pc'[u] = pc[u],
             new_top'[u] = new_top[u], old_top'[u] = old_top[u]
      PROVE  next'[new_top'[u].node] = old_top'[u].node
  BY <1>2 DEF Invariant, LinkIsSet
<1>3. ASSUME NEW t \in Threads, NEW k \in Keys, PushAlloc(t, k)
      PROVE  next'[new_top'[u].node] = old_top'[u].node
  <2>1. u # t /\ pc[u] = pc'[u] /\ old_top'[u] = old_top[u] /\ new_top'[u] = new_top[u]
    BY <1>1, <1>3 DEF PushAlloc
  <2>2. new_top[u].node \in allocated
    BY <1>1, <2>1, Owners DEF Pushing
  <2>3. next'[new_top[u].node] = next[new_top[u].node]
    BY <1>1, <1>3, <2>2, AllocWrites
  <2> QED BY <2>1, <2>3 DEF Invariant, LinkIsSet
<1>4. ASSUME NEW t \in Threads, PushLink(t)
      PROVE  next'[new_top'[u].node] = old_top'[u].node
  <2>1. t \in Pushing /\ new_top[t].node \in Nodes /\ new_top[t].node \in Pointers
    BY <1>1, <1>4, Owners DEF PushLink, Pushing, Pointers
  <2>2. new_top'[t].node = new_top[t].node /\ \A v \in Threads \ {t} : new_top'[v] = new_top[v]
    BY <1>1, <1>4, <2>1, FetchTagTypes DEF PushLink
  <2>3. CASE u = t
    BY <1>1, <1>4, <2>1, <2>2, <2>3 DEF PushLink
  <2>4. CASE u # t
    <3>1. pc[u] = "push cas" /\ u \in Pushing
      BY <1>1, <1>4, <2>4 DEF PushLink, Pushing
    <3>2. new_top[u].node # new_top[t].node
      BY <1>1, <2>1, <2>4, <3>1 DEF StackInvariant, OneOwner
    <3> QED BY <1>1, <1>4, <2>1, <2>2, <2>4, <3>1, <3>2, Owners DEF PushLink, Invariant, LinkIsSet
  <2> QED BY <2>3, <2>4
<1>5. ASSUME NEW t \in Threads, PushLoad(t) \/ PushSucceeds(t) \/ PushRetries(t)
      PROVE  next'[new_top'[u].node] = old_top'[u].node
  BY <1>1, <1>2, <1>5 DEF PushLoad, PushSucceeds, PushRetries, CAS, CASFails
<1>6. ASSUME NEW t \in Threads,
             \/ PopLoad(t) \/ PopEmpty(t) \/ PopReadNext(t) \/ PopTag(t)
             \/ PopSucceeds(t) \/ PopRetries(t) \/ PopTake(t)
      PROVE  next'[new_top'[u].node] = old_top'[u].node
  BY <1>1, <1>2, <1>6
     DEF PopLoad, PopEmpty, PopReadNext, PopTag, PopSucceeds, PopRetries, PopTake, CAS, CASFails, FetchTag
<1> QED BY <1>3, <1>4, <1>5, <1>6 DEF Next, Proceed

LEMMA NextNodesCarryKeys == Invariant /\ Next => NodesCarryKeys'
<1> SUFFICES ASSUME Invariant, Next PROVE NodesCarryKeys'
  OBVIOUS
<1>1. NodesCarryKeys /\ key \in [Nodes -> Keys \cup {0}]
  BY DEF Invariant, StackInvariant, TypeOK
<1>2. ASSUME NEW t \in Threads, NEW k \in Keys, PushAlloc(t, k) PROVE NodesCarryKeys'
  <2>1. TypeOK
    BY DEF Invariant, StackInvariant
  <2> QED BY <1>1, <1>2, <2>1, AllocWrites DEF NodesCarryKeys
<1>3. ASSUME NEW t \in Threads, PopLoad(t) \/ Proceed(t)
      PROVE  key' = key /\ allocated' \subseteq allocated
  BY <1>3
     DEF Proceed, PushLoad, PushLink, PushSucceeds, PushRetries,
         PopLoad, PopEmpty, PopReadNext, PopTag, PopSucceeds, PopRetries, PopTake
<1> QED BY <1>1, <1>2, <1>3 DEF Next, NodesCarryKeys
-----------------------------------------------------------------------------
(* The theorems.                                                             *)

LEMMA InitInvariant == Init => Invariant
<1> SUFFICES ASSUME Init PROVE Invariant
  OBVIOUS
<1>1. Pushing = {} /\ Taking = {} /\ Swapping = {} /\ StackNodes = {}
  <2>1. \A t \in Threads : pc[t] = "idle"
    BY DEF Init
  <2>2. Len(stack) = 0
    BY EmptySeq DEF Init
  <2>3. Pushing = {} /\ Taking = {} /\ Swapping = {}
    BY <2>1 DEF Pushing, Taking, Swapping
  <2>4. 1 .. Len(stack) = {}
    BY <2>2
  <2>5. StackNodes = {}
    BY <2>4 DEF StackNodes
  <2> QED BY <2>3, <2>5
<1>2. OneOwner
  BY <1>1 DEF Init, OneOwner, PrivateNodes, TakenNodes
<1>3. ListIsStack
  <2>1. Len(<<>>) = 0
    BY EmptySeq
  <2> QED BY <2>1 DEF Init, InitTop, ListIsStack
<1>4. TagsAreFresh /\ ReadIsCurrent /\ LinkIsSet /\ NodesCarryKeys
  BY <1>1 DEF Init, TagsAreFresh, ReadIsCurrent, LinkIsSet, NodesCarryKeys
<1> QED BY <1>2, <1>3, <1>4, InitTypeOK DEF Invariant, StackInvariant

LEMMA NextInvariant == Invariant /\ [Next]_vars => Invariant'
<1> SUFFICES ASSUME Invariant, [Next]_vars PROVE Invariant'
  OBVIOUS
<1>1. CASE UNCHANGED vars
  <2> USE DEF vars, Invariant, StackInvariant
  <2>1. TypeOK'
    BY <1>1 DEF TypeOK, Pushing
  <2>2. Pushing' = Pushing /\ Taking' = Taking /\ Swapping' = Swapping
    BY <1>1 DEF Pushing, Taking, Swapping
  <2>3. ListIsStack' /\ OneOwner'
    BY <1>1, <2>2, OwnersUntouched DEF ListIsStack
  <2>4. TagsAreFresh' /\ ReadIsCurrent' /\ LinkIsSet' /\ NodesCarryKeys'
    BY <1>1, <2>2 DEF TagsAreFresh, ReadIsCurrent, LinkIsSet, NodesCarryKeys
  <2> QED BY <2>1, <2>3, <2>4
<1>2. CASE Next
  <2>1. StackInvariant' /\ TagsAreFresh' /\ ReadIsCurrent'
    <3> USE DEF Invariant, StackInvariant
    <3>1. ASSUME NEW t \in Threads,
                 \/ \E k \in Keys : PushAlloc(t, k)
                 \/ PushLoad(t) \/ PushLink(t) \/ PushSucceeds(t) \/ PushRetries(t)
          PROVE  StackInvariant' /\ TagsAreFresh' /\ ReadIsCurrent'
      BY <3>1, PushTypeOK, PushKeepsListAndOwners, PushKeepsTags, PushKeepsRead
    <3>2. ASSUME NEW t \in Threads,
                 \/ PopLoad(t) \/ PopEmpty(t) \/ PopReadNext(t) \/ PopTag(t)
                 \/ PopSucceeds(t) \/ PopRetries(t) \/ PopTake(t)
          PROVE  StackInvariant' /\ TagsAreFresh' /\ ReadIsCurrent'
      BY <3>2, PopTypeOK, PopKeepsListAndOwners, PopKeepsTags, PopKeepsRead
    <3> QED BY <1>2, <3>1, <3>2 DEF Next, Proceed
  <2> QED BY <1>2, <2>1, NextLinkIsSet, NextNodesCarryKeys DEF Invariant
<1> QED BY <1>1, <1>2

LEMMA InvariantHolds == Spec => []Invariant
BY InitInvariant, NextInvariant, PTL DEF Spec

\* Whatever the interleaving of pushes and pops, the linked list at top is the
\* stack, and every node has exactly one owner: nothing is lost, leaked or
\* deleted twice.
THEOREM MemoryIsInOrder == Spec => []StackInvariant
<1>1. Invariant => StackInvariant
  BY DEF Invariant
<1> QED BY <1>1, InvariantHolds, PTL

\* The tag makes ABA impossible: a pop whose compare-and-swap is going to
\* succeed holds the right next pointer, although nodes are deleted and their
\* addresses allocated again while it sleeps.
THEOREM TagsPreventABA == Spec => []NoABA
<1>1. Invariant => NoABA
  BY DEF Invariant, ReadIsCurrent, NoABA
<1> QED BY <1>1, InvariantHolds, PTL
-----------------------------------------------------------------------------
(* The stack implements the atomic stack.                                    *)

AtomicState == <<ItemsOnStack, [t \in Threads |-> Result(t)]>>

\* What is on the abstract stack, element by element.
ItemsFollowStack ==
  /\ ItemsOnStack \in Seq(Keys) /\ Len(ItemsOnStack) = Len(stack)
  /\ \A n \in 1 .. Len(stack) : ItemsOnStack[n] = key[stack[n]]
  /\ ItemsOnStack = <<>> <=> stack = <<>>

LEMMA ItemsProperties == Invariant => ItemsFollowStack
<1> SUFFICES ASSUME Invariant PROVE ItemsFollowStack
  OBVIOUS
<1> USE DEF Invariant
<1>1. Len(stack) \in Nat
  BY Owners
<1>2. \A n \in 1 .. Len(stack) : key[stack[n]] \in Keys
  BY Owners DEF NodesCarryKeys
<1>3. ItemsOnStack \in [1 .. Len(stack) -> Keys]
  BY <1>2 DEF ItemsOnStack
<1>4. ItemsOnStack \in Seq(Keys) /\ Len(ItemsOnStack) = Len(stack)
  BY <1>1, <1>3, IsASeq, LenProperties
<1>5. stack \in Seq(Nodes)
  BY DEF StackInvariant, TypeOK
<1> QED BY <1>4, <1>5, EmptySeq DEF ItemsOnStack, ItemsFollowStack

LEMMA ItemsPropertiesNext == Invariant' => ItemsFollowStack'
BY ItemsProperties, PTL

\* A step that leaves the stack and the keys on it alone.
LEMMA ItemsUntouched ==
  ASSUME StackInvariant, UNCHANGED stack, \A n \in StackNodes : key'[n] = key[n]
  PROVE  UNCHANGED ItemsOnStack
<1>1. \A n \in 1 .. Len(stack) : key'[stack'[n]] = key[stack[n]]
  BY Owners
<1> QED BY <1>1 DEF ItemsOnStack

\* A push takes effect when its compare-and-swap succeeds.
LEMMA PushTakesEffect ==
  ASSUME Invariant, Invariant', NEW t \in Threads, PushSucceeds(t)
  PROVE  Atomic!Next
<1> DEFINE n == new_top[t].node
           k == key[n]
<1>1. t \in Pushing /\ UNCHANGED <<key, ret, old_top>> /\ stack' = <<n>> \o stack
  BY DEF PushSucceeds, CAS, Pushing
<1>2. n \in allocated /\ n \in Nodes /\ k \in Keys /\ stack \in Seq(Nodes)
  BY <1>1, Owners DEF Invariant, NodesCarryKeys, StackInvariant, TypeOK
<1>3. /\ Len(stack) \in Nat /\ Len(stack') = Len(stack) + 1 /\ stack'[1] = n
      /\ \A i \in 2 .. Len(stack) + 1 : stack'[i] = stack[i - 1]
  <2> HIDE DEF n
  <2> QED BY <1>1, <1>2, ConsProperties
<1>4. /\ ItemsOnStack' \in Seq(Keys) /\ Len(ItemsOnStack') = Len(stack')
      /\ \A i \in 1 .. Len(stack') : ItemsOnStack'[i] = key[stack'[i]]
  BY <1>1, ItemsPropertiesNext DEF ItemsFollowStack
<1>5. /\ ItemsOnStack \in Seq(Keys) /\ Len(ItemsOnStack) = Len(stack)
      /\ \A i \in 1 .. Len(stack) : ItemsOnStack[i] = key[stack[i]]
  BY ItemsProperties DEF ItemsFollowStack
<1> HIDE DEF k
<1>6. ItemsOnStack' = <<k>> \o ItemsOnStack
  <2> DEFINE pushed == <<k>> \o ItemsOnStack
  <2>1. /\ pushed \in Seq(Keys) /\ Len(pushed) = Len(stack) + 1 /\ pushed[1] = k
        /\ \A i \in 2 .. Len(stack) + 1 : pushed[i] = ItemsOnStack[i - 1]
    BY <1>2, <1>5, ConsProperties
  <2> HIDE DEF pushed
  <2>2. ItemsOnStack'[1] = k
    BY <1>3, <1>4 DEF k
  <2>3. ASSUME NEW i \in 2 .. Len(stack) + 1 PROVE ItemsOnStack'[i] = pushed[i]
    <3>1. i - 1 \in 1 .. Len(stack) /\ i \in 1 .. Len(stack')
      BY <1>3
    <3>2. stack'[i] = stack[i - 1]
      BY <1>3
    <3> QED BY <1>4, <1>5, <2>1, <3>1, <3>2
  <2>4. \A i \in 1 .. Len(ItemsOnStack') : ItemsOnStack'[i] = pushed[i]
    <3>1. \A i \in 1 .. Len(stack) + 1 : i = 1 \/ i \in 2 .. Len(stack) + 1
      BY <1>3
    <3> QED BY <1>3, <1>4, <2>1, <2>2, <2>3, <3>1
  <2>5. ItemsOnStack' = pushed
    BY <1>3, <1>4, <2>1, <2>4, SeqEqual
  <2> QED BY <2>5 DEF pushed
<1>7. \A u \in Threads : Result(u)' = Result(u)
  <2>1. pc \in [Threads -> Labels] /\ pc[t] = "push cas" /\ pc' = [pc EXCEPT ![t] = "idle"]
    BY DEF Invariant, StackInvariant, TypeOK, PushSucceeds, Goto
  <2> QED BY <1>1, <2>1 DEF Result
<1> QED BY <1>2, <1>6, <1>7 DEF Atomic!Next, Atomic!Push

\* A pop takes effect when its compare-and-swap succeeds.
LEMMA PopTakesEffect ==
  ASSUME Invariant, Invariant', NEW t \in Threads, PopSucceeds(t)
  PROVE  Atomic!Next
<1>1. /\ UNCHANGED <<key, ret, old_top>> /\ stack' = Tail(stack)
      /\ top = old_top[t] /\ top.node # nullptr
  BY DEF PopSucceeds, CAS, Invariant, StackInvariant, TypeOK
<1>2. stack \in Seq(Nodes) /\ stack # <<>> /\ top.node = stack[1]
  BY <1>1, Owners DEF Invariant, StackInvariant, TypeOK
<1>3. /\ Len(stack) \in Nat \ {0} /\ Len(stack') = Len(stack) - 1
      /\ \A i \in 1 .. Len(stack) - 1 : stack'[i] = stack[i + 1]
  BY <1>1, <1>2, HeadTailProperties, EmptySeq, LenProperties
<1>4. /\ ItemsOnStack' \in Seq(Keys) /\ Len(ItemsOnStack') = Len(stack')
      /\ \A i \in 1 .. Len(stack') : ItemsOnStack'[i] = key[stack'[i]]
  BY <1>1, ItemsPropertiesNext DEF ItemsFollowStack
<1>5. /\ ItemsOnStack \in Seq(Keys) /\ Len(ItemsOnStack) = Len(stack) /\ ItemsOnStack # <<>>
      /\ \A i \in 1 .. Len(stack) : ItemsOnStack[i] = key[stack[i]]
  BY <1>2, ItemsProperties DEF ItemsFollowStack
<1>6. ItemsOnStack' = Tail(ItemsOnStack)
  <2>1. /\ Tail(ItemsOnStack) \in Seq(Keys) /\ Len(Tail(ItemsOnStack)) = Len(stack) - 1
        /\ \A i \in 1 .. Len(stack) - 1 : Tail(ItemsOnStack)[i] = ItemsOnStack[i + 1]
    BY <1>5, HeadTailProperties
  <2>2. \A i \in 1 .. Len(stack) - 1 : ItemsOnStack'[i] = Tail(ItemsOnStack)[i]
    BY <1>3, <1>4, <1>5, <2>1
  <2> QED BY <1>3, <1>4, <2>1, <2>2, SeqEqual
<1>7. Head(ItemsOnStack) = key[top.node]
  BY <1>2, <1>3, <1>5, HeadTailProperties
<1>8. /\ Result(t)' = key[top.node]
      /\ \A u \in Threads \ {t} : Result(u)' = Result(u)
  <2>1. pc \in [Threads -> Labels] /\ pc' = [pc EXCEPT ![t] = "pop take"]
    BY DEF Invariant, StackInvariant, TypeOK, PopSucceeds, Goto
  <2> QED BY <1>1, <2>1 DEF Result
<1>9. [u \in Threads |-> Result(u)]' = [[u \in Threads |-> Result(u)] EXCEPT ![t] = Head(ItemsOnStack)]
  BY <1>7, <1>8
<1> QED BY <1>5, <1>6, <1>9 DEF Atomic!Next, Atomic!Pop

\* A pop that loads top, for the first time or after a failed
\* compare-and-swap, takes effect if the stack is empty; otherwise nothing
\* has happened yet.
LEMMA EmptyPopTakesEffect ==
  ASSUME Invariant, NEW t \in Threads, PopLoad(t) \/ PopRetries(t)
  PROVE  Atomic!Next \/ UNCHANGED AtomicState
<1>1. UNCHANGED <<key, ret, stack>>
  BY DEF PopLoad, PopRetries
<1>2. /\ old_top'[t] = top /\ \A u \in Threads \ {t} : old_top'[u] = old_top[u]
      /\ pc[t] \in {"idle", "pop cas"} /\ pc'[t] = "pop check"
      /\ \A u \in Threads \ {t} : pc'[u] = pc[u]
  BY DEF PopLoad, PopRetries, CASFails, Goto, Invariant, StackInvariant, TypeOK
<1>3. UNCHANGED ItemsOnStack
  BY <1>1, ItemsUntouched DEF Invariant
<1>4. Result(t) = ret[t] /\ Result(t)' = IF top.node = nullptr THEN 0 ELSE ret[t]
  BY <1>1, <1>2 DEF Result
<1>5. \A u \in Threads \ {t} : Result(u)' = Result(u)
  BY <1>1, <1>2 DEF Result
<1>6. CASE top.node = nullptr
  <2>1. ItemsOnStack = <<>>
    BY <1>6, Owners, ItemsProperties DEF Invariant, ItemsFollowStack
  <2>2. [u \in Threads |-> Result(u)]' = [[u \in Threads |-> Result(u)] EXCEPT ![t] = 0]
    BY <1>4, <1>5, <1>6
  <2> QED BY <1>3, <2>1, <2>2 DEF Atomic!Next, Atomic!PopEmpty
<1>7. CASE top.node # nullptr
  BY <1>3, <1>4, <1>5, <1>7 DEF AtomicState
<1> QED BY <1>6, <1>7

\* Every other step is invisible.
LEMMA OtherStepsStutter ==
  ASSUME Invariant, NEW t \in Threads,
         \/ \E k \in Keys : PushAlloc(t, k)
         \/ PushLoad(t) \/ PushLink(t) \/ PushRetries(t)
         \/ PopEmpty(t) \/ PopReadNext(t) \/ PopTag(t) \/ PopTake(t)
  PROVE  UNCHANGED AtomicState
<1>1. UNCHANGED stack
  BY DEF PushAlloc, PushLoad, PushLink, PushRetries, PopEmpty, PopReadNext, PopTag, PopTake
<1>2. \A n \in allocated : key'[n] = key[n]
  <2>1. ASSUME NEW k \in Keys, PushAlloc(t, k) PROVE \A n \in allocated : key'[n] = key[n]
    BY <2>1, AllocWrites DEF Invariant, StackInvariant
  <2> QED BY <2>1 DEF PushLoad, PushLink, PushRetries, PopEmpty, PopReadNext, PopTag, PopTake
<1>3. UNCHANGED ItemsOnStack
  BY <1>1, <1>2, Owners, ItemsUntouched DEF Invariant
<1>4. ASSUME NEW u \in Threads \ {t} PROVE Result(u)' = Result(u)
  <2>1. pc'[u] = pc[u] /\ ret'[u] = ret[u] /\ old_top'[u] = old_top[u]
    BY DEF PushAlloc, PushLoad, PushLink, PushRetries, PopEmpty, PopReadNext, PopTag, PopTake,
           CASFails, Goto, Invariant, StackInvariant, TypeOK
  <2>2. pc[u] = "pop take" => key'[old_top[u].node] = key[old_top[u].node]
    BY <1>2, Owners DEF Taking, Invariant
  <2> QED BY <2>1, <2>2 DEF Result
<1>5. Result(t)' = Result(t)
  <2> USE DEF Goto, Invariant, StackInvariant, TypeOK
  <2>1. CASE \/ \E k \in Keys : PushAlloc(t, k)
             \/ PushLoad(t) \/ PushLink(t) \/ PushRetries(t) \/ PopTag(t)
    <3>1. /\ pc[t] \in {"idle", "push load", "push link", "push cas", "pop tag"}
          /\ pc'[t] \in {"push load", "push link", "push cas", "pop cas"}
          /\ ret' = ret
      BY <2>1 DEF PushAlloc, PushLoad, PushLink, PushRetries, PopTag
    <3> QED BY <3>1 DEF Result
  <2>2. CASE PopEmpty(t)
    <3>1. pc[t] = "pop check" /\ old_top[t].node = nullptr /\ pc'[t] = "idle" /\ ret'[t] = 0
      BY <2>2 DEF PopEmpty
    <3> QED BY <3>1 DEF Result
  <2>3. CASE PopReadNext(t)
    <3>1. /\ pc[t] = "pop check" /\ old_top[t].node # nullptr
          /\ pc'[t] = "pop tag" /\ ret' = ret
      BY <2>3 DEF PopReadNext
    <3> QED BY <3>1 DEF Result
  <2>4. CASE PopTake(t)
    <3>1. pc[t] = "pop take" /\ pc'[t] = "idle" /\ ret'[t] = key[old_top[t].node]
      BY <2>4 DEF PopTake
    <3> QED BY <3>1 DEF Result
  <2> QED BY <2>1, <2>2, <2>3, <2>4
<1> QED BY <1>3, <1>4, <1>5 DEF AtomicState

LEMMA InitImplementsAtomicStack == Init => Atomic!Init
<1> SUFFICES ASSUME Init PROVE Atomic!Init
  OBVIOUS
<1>1. ItemsOnStack = <<>>
  BY InitInvariant, ItemsProperties DEF Init, ItemsFollowStack
<1>2. \A t \in Threads : Result(t) = 0
  BY DEF Init, Result
<1> QED BY <1>1, <1>2 DEF Atomic!Init

LEMMA NextImplementsAtomicStack ==
  Invariant /\ Invariant' /\ [Next]_vars => [Atomic!Next]_(Atomic!vars)
<1> SUFFICES ASSUME Invariant, Invariant', [Next]_vars
             PROVE  Atomic!Next \/ UNCHANGED AtomicState
  BY DEF Atomic!vars, AtomicState
<1>1. CASE UNCHANGED vars
  BY <1>1 DEF vars, AtomicState, ItemsOnStack, Result
<1>2. CASE Next
  BY <1>2, PushTakesEffect, PopTakesEffect, EmptyPopTakesEffect, OtherStepsStutter
     DEF Next, Proceed
<1> QED BY <1>1, <1>2

\* Every push and every pop takes effect at one instant, in the order in which
\* the compare-and-swaps succeed: the lock-free stack is linearizable, and a
\* pop that reports an empty stack met an empty stack.
THEOREM StackIsAtomic == Spec => ImplementsAtomicStack
BY InitImplementsAtomicStack, NextImplementsAtomicStack, InvariantHolds, PTL
   DEF Spec, ImplementsAtomicStack, Atomic!Spec
=============================================================================
