---------------------------- MODULE LockFreeStack ----------------------------
(***************************************************************************)
(* Lock-free-stack/main.cpp: a Treiber stack whose top is a (node, tag)    *)
(* pair changed by compare-and-swap.                                       *)
(*                                                                         *)
(* One step is one access to memory that other threads can reach: a load,  *)
(* a fetch_add or a compare_exchange of an atomic, a read of a node that   *)
(* may be shared, new, delete.  Thread-local work is part of the step next *)
(* to it.  An address that was deleted may be handed out again by new.     *)
(*                                                                         *)
(* stack is a history variable: the nodes on the stack, top first.         *)
(***************************************************************************)
EXTENDS Integers, Sequences, FiniteSets

CONSTANTS Threads,
          Nodes,       \* the addresses new can return
          nullptr,
          Keys,        \* the ints that are pushed
          MaxTag,      \* model bound: no fetch_add beyond this tag
          MaxSpurious  \* model bound: how often compare_exchange_weak fails for no reason

ASSUME StackAssumption ==
  /\ nullptr \notin Nodes
  /\ Keys \subseteq Int
  /\ MaxTag \in Nat /\ MaxSpurious \in Nat

VARIABLES top, tag_counter,    \* the two atomics
          allocated, key, next, \* the heap: which addresses are nodes, and their fields
          pc,                   \* where each thread stands in push or pop
          old_top, new_top,     \* its local variables
          ret,                  \* what its last pop returned
          stack,                \* history: the nodes on the stack
          spurious              \* how many compare_exchange_weak failed spuriously

vars == <<top, tag_counter, allocated, key, next, pc, old_top, new_top, ret, stack, spurious>>

Pointers       == Nodes \cup {nullptr}
TaggedPointer  == [node : Pointers, tag : Nat]
InitTop        == [node |-> nullptr, tag |-> 0]
Labels == {"idle", "push load", "push link", "push cas",
           "pop check", "pop tag", "pop cas", "pop take"}

Goto(t, label) == pc' = [pc EXCEPT ![t] = label]

\* tag_counter.fetch_add(1), its old value stored in new_top[t].tag.
FetchTag_Constant(t, node) ==
  /\ tag_counter < MaxTag
  /\ new_top' = [new_top EXCEPT ![t] = [node |-> node, tag |-> 0]]
  /\ tag_counter' = tag_counter + 1

FetchTag(t, node) ==
  /\ tag_counter < MaxTag
  /\ new_top' = [new_top EXCEPT ![t] = [node |-> node, tag |-> tag_counter]]
  /\ tag_counter' = tag_counter + 1

\* compare_exchange_weak: on success top becomes new_top; on failure old_top
\* becomes what top holds.  The weak form may also fail when top = old_top.
CAS(t) ==
  /\ top = old_top[t]
  /\ top' = new_top[t]
  /\ UNCHANGED <<old_top, spurious>>

CASFails(t) ==
  /\ \/ top # old_top[t] /\ UNCHANGED spurious
     \/ top = old_top[t] /\ spurious < MaxSpurious /\ spurious' = spurious + 1
  /\ old_top' = [old_top EXCEPT ![t] = top]
  /\ UNCHANGED top
-----------------------------------------------------------------------------
Init ==
  /\ top = InitTop
  /\ tag_counter = 0
  /\ allocated = {}
  /\ key \in [Nodes -> {0}] /\ next \in [Nodes -> {nullptr}]
  /\ pc = [t \in Threads |-> "idle"]
  /\ old_top = [t \in Threads |-> InitTop]
  /\ new_top = [t \in Threads |-> InitTop]
  /\ ret = [t \in Threads |-> 0]
  /\ stack = <<>>
  /\ spurious = 0

\* push(k): Node *new_node = new Node(k); new_top.node keeps it.
PushAlloc(t, k) ==
  /\ pc[t] = "idle"
  /\ \E n \in Nodes \ allocated :
       /\ allocated' = allocated \cup {n}
       /\ key' = [key EXCEPT ![n] = k]
       /\ next' = [next EXCEPT ![n] = nullptr]
       /\ new_top' = [new_top EXCEPT ![t].node = n]
  /\ Goto(t, "push load")
  /\ UNCHANGED <<top, tag_counter, old_top, ret, stack, spurious>>

PushLoad(t) ==
  /\ pc[t] = "push load"
  /\ old_top' = [old_top EXCEPT ![t] = top]
  /\ Goto(t, "push link")
  /\ UNCHANGED <<top, tag_counter, allocated, key, next, new_top, ret, stack, spurious>>

\* new_node->next = old_top.node (nobody else can reach the node yet), and a new tag.
PushLink_Once(t) ==
  /\ pc[t] = "push link"
  /\ next' = [next EXCEPT ![new_top[t].node] = IF @ = nullptr THEN old_top[t].node ELSE @]
  /\ FetchTag(t, new_top[t].node)
  /\ Goto(t, "push cas")
  /\ UNCHANGED <<top, allocated, key, old_top, ret, stack, spurious>>

PushLink(t) ==
  /\ pc[t] = "push link"
  /\ next' = [next EXCEPT ![new_top[t].node] = old_top[t].node]
  /\ FetchTag(t, new_top[t].node)
  /\ Goto(t, "push cas")
  /\ UNCHANGED <<top, allocated, key, old_top, ret, stack, spurious>>

PushSucceeds(t) ==
  /\ pc[t] = "push cas"
  /\ CAS(t)
  /\ stack' = <<new_top[t].node>> \o stack
  /\ Goto(t, "idle")
  /\ UNCHANGED <<tag_counter, allocated, key, next, new_top, ret>>

PushRetries(t) ==
  /\ pc[t] = "push cas"
  /\ CASFails(t)
  /\ Goto(t, "push link")
  /\ UNCHANGED <<tag_counter, allocated, key, next, new_top, ret, stack>>

\* pop() loads top twice; the second value is thrown away.
PopLoad(t) ==
  /\ pc[t] = "idle"
  /\ old_top' = [old_top EXCEPT ![t] = top]
  /\ Goto(t, "pop check")
  /\ UNCHANGED <<top, tag_counter, allocated, key, next, new_top, ret, stack, spurious>>

PopEmpty(t) ==
  /\ pc[t] = "pop check"
  /\ old_top[t].node = nullptr
  /\ ret' = [ret EXCEPT ![t] = 0]
  /\ Goto(t, "idle")
  /\ UNCHANGED <<top, tag_counter, allocated, key, next, old_top, new_top, stack, spurious>>

\* old_top.node->next.  Another thread may have deleted the node since top
\* was loaded: then the read is undefined and any pointer may come back.
NextOf(n) == IF n \in allocated THEN {next[n]} ELSE Pointers

PopReadNext_NullUnchecked(t) ==
  /\ pc[t] = "pop check"
  /\ \E n \in NextOf(old_top[t].node) : new_top' = [new_top EXCEPT ![t].node = n]
  /\ Goto(t, "pop tag")
  /\ UNCHANGED <<top, tag_counter, allocated, key, next, old_top, ret, stack, spurious>>

PopReadNext(t) ==
  /\ pc[t] = "pop check"
  /\ old_top[t].node # nullptr
  /\ \E n \in NextOf(old_top[t].node) : new_top' = [new_top EXCEPT ![t].node = n]
  /\ Goto(t, "pop tag")
  /\ UNCHANGED <<top, tag_counter, allocated, key, next, old_top, ret, stack, spurious>>

PopTag(t) ==
  /\ pc[t] = "pop tag"
  /\ FetchTag(t, new_top[t].node)
  /\ Goto(t, "pop cas")
  /\ UNCHANGED <<top, allocated, key, next, old_top, ret, stack, spurious>>

PopSucceeds(t) ==
  /\ pc[t] = "pop cas"
  /\ CAS(t)
  /\ stack' = Tail(stack)
  /\ Goto(t, "pop take")
  /\ UNCHANGED <<tag_counter, allocated, key, next, new_top, ret>>

PopRetries_SkipsReload(t) ==
  /\ pc[t] = "pop cas"
  /\ CASFails(t)
  /\ Goto(t, "pop tag")
  /\ UNCHANGED <<tag_counter, allocated, key, next, new_top, ret, stack>>

PopRetries(t) ==
  /\ pc[t] = "pop cas"
  /\ CASFails(t)
  /\ Goto(t, "pop check")
  /\ UNCHANGED <<tag_counter, allocated, key, next, new_top, ret, stack>>

\* Read the key of the node that was unlinked, delete the node, return the key.
PopTake_Leaks(t) ==
  /\ pc[t] = "pop take"
  /\ ret' = [ret EXCEPT ![t] = key[old_top[t].node]]
  /\ Goto(t, "idle")
  /\ UNCHANGED <<top, tag_counter, allocated, key, next, old_top, new_top, stack, spurious>>

PopTake(t) ==
  /\ pc[t] = "pop take"
  /\ ret' = [ret EXCEPT ![t] = key[old_top[t].node]]
  /\ allocated' = allocated \ {old_top[t].node}
  /\ Goto(t, "idle")
  /\ UNCHANGED <<top, tag_counter, key, next, old_top, new_top, stack, spurious>>
-----------------------------------------------------------------------------
\* The steps of a thread inside a call.
Proceed(t) ==
  \/ PushLoad(t) \/ PushLink(t) \/ PushSucceeds(t) \/ PushRetries(t)
  \/ PopEmpty(t) \/ PopReadNext(t) \/ PopTag(t) \/ PopSucceeds(t) \/ PopRetries(t) \/ PopTake(t)

Next ==
  \E t \in Threads :
    \/ \E k \in Keys : PushAlloc(t, k)
    \/ PopLoad(t)
    \/ Proceed(t)

Spec == Init /\ [][Next]_vars
-----------------------------------------------------------------------------
StackNodes   == {stack[n] : n \in 1 .. Len(stack)}
Pushing      == {t \in Threads : pc[t] \in {"push load", "push link", "push cas"}}
PrivateNodes == {new_top[t].node : t \in Pushing}
Taking       == {t \in Threads : pc[t] = "pop take"}
TakenNodes   == {old_top[t].node : t \in Taking}

\* Types; a thread past the emptiness check of pop holds a node, and every
\* tag that is still visible was handed out before.
TypeOK ==
  /\ top \in TaggedPointer /\ tag_counter \in Nat
  /\ allocated \subseteq Nodes
  /\ key \in [Nodes -> Keys \cup {0}]
  /\ next \in [Nodes -> Pointers]
  /\ pc \in [Threads -> Labels]
  /\ old_top \in [Threads -> TaggedPointer]
  /\ new_top \in [Threads -> TaggedPointer]
  /\ ret \in [Threads -> Keys \cup {0}]
  /\ stack \in Seq(Nodes)
  /\ spurious \in Nat
  /\ \A t \in Threads :
       /\ pc[t] \in {"pop tag", "pop cas", "pop take"} => old_top[t].node # nullptr
       /\ t \in Pushing => new_top[t].node # nullptr

\* The linked list that starts at top is the stack: no interleaving of
\* compare-and-swaps loses a node, links it twice or cuts the list.
ListIsStack ==
  /\ top.node = IF stack = <<>> THEN nullptr ELSE stack[1]
  /\ \A n \in 1 .. Len(stack) :
       next[stack[n]] = IF n = Len(stack) THEN nullptr ELSE stack[n + 1]
  /\ \A m, n \in 1 .. Len(stack) : m # n => stack[m] # stack[n]

\* Every allocated node has exactly one owner: the stack, the push that has
\* not published it yet, or the pop that will delete it.  So delete is never
\* called twice for a node, never for a node still on the stack, and no node leaks.
OneOwner ==
  /\ allocated = StackNodes \cup PrivateNodes \cup TakenNodes
  /\ StackNodes \cap (PrivateNodes \cup TakenNodes) = {}
  /\ PrivateNodes \cap TakenNodes = {}
  /\ \A t, u \in Pushing : t # u => new_top[t].node # new_top[u].node
  /\ \A t, u \in Taking : t # u => old_top[t].node # old_top[u].node

\* Whatever the interleaving, memory is in order: types, list and owners.
StackInvariant == TypeOK /\ ListIsStack /\ OneOwner

\* No ABA: if the compare-and-swap of a pop is going to succeed, the next
\* pointer it read some time ago is still the right one, even when nodes
\* were deleted and their addresses reused in between.
NoABA ==
  \A t \in Threads :
    pc[t] = "pop cas" /\ old_top[t] = top => new_top[t].node = next[top.node]

\* The stack implements the atomic stack.  A pop takes effect when its
\* compare-and-swap succeeds or, on an empty stack, when it loads top.
ItemsOnStack == [n \in 1 .. Len(stack) |-> key[stack[n]]]
Result(t) ==
  CASE pc[t] = "pop take" -> key[old_top[t].node]
    [] pc[t] = "pop check" /\ old_top[t].node = nullptr -> 0
    [] OTHER -> ret[t]
Atomic == INSTANCE AtomicStack WITH items <- ItemsOnStack, got <- [t \in Threads |-> Result(t)]
ImplementsAtomicStack == Atomic!Spec

\* pop only dereferences nodes that have not been deleted.
NoReadAfterDelete ==
  \A t \in Threads :
    pc[t] = "pop check" /\ old_top[t].node # nullptr => old_top[t].node \in allocated
=============================================================================
