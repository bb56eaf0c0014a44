------------------------------ MODULE HashMap ------------------------------
(* The intrusive hash map: an array of slots, each the head of a chain of   *)
(* nodes that the client embeds in its own entries.  The code finds a node  *)
(* by walking the incoming pointers (HNode **from), so memory is modelled   *)
(* as the pointers it holds: ptr[p] for slot p is hmap.map[p], ptr[e] for   *)
(* node e is e->next.                                                       *)
EXTENDS Integers, Sequences, SequencesExt, FiniteSetsExt
CONSTANTS
  n,            \* number of slots
  Nodes, Keys,
  KeyOf(_),     \* the key of the entry a node is embedded in
  HashOf(_),    \* the hcode the client computes for a key
  None          \* the null pointer

(* The assertion of the constructor: hcode & mask is then hcode % n. *)
SizeAssumption == n \in Nat \ {0} /\ \E e \in 0 .. n : n = 2^e
(* eq compares the keys, and equal keys have equal hash codes. *)
HashAssumption ==
  /\ \A k \in Keys : HashOf(k) \in Nat
  /\ \A e \in Nodes : KeyOf(e) \in Keys

Slots == 0 .. n - 1
(* A slot is no node, and the null pointer is neither. *)
NodesAssumption == Nodes \cap Slots = {} /\ None \notin Nodes \cup Slots
hcode(e) == HashOf(KeyOf(e))
SlotOf(h) == h % n

VARIABLES
  ptr,
  size,
  call,       \* the public operation under way, "idle", or "destroyed"
  key,        \* its argument
  from,       \* the walk of lookup_: the incoming pointer it looks at
  answer,     \* what the latest lookup or remove returned
  inserted    \* history: nodes in the map, most recently inserted first

vars == <<ptr, size, call, key, from, answer, inserted>>

Init ==
  /\ ptr = [a \in Slots \union Nodes |-> None]
  /\ size = 0
  /\ call = "idle"
  /\ key = None
  /\ from = None
  /\ answer = None
  /\ inserted = <<>>

(* The slot is written before the node is linked to what it held. *)
Insert_SlotFirst(e) ==
  LET pos == SlotOf(hcode(e)) IN
  /\ call = "idle"
  /\ ~Contains(inserted, e)
  /\ ptr' = [ptr EXCEPT ![e] = e, ![pos] = e]
  /\ size' = size + 1
  /\ inserted' = <<e>> \o inserted
  /\ UNCHANGED <<call, key, from, answer>>

(* A client owns the node it inserts and inserts it once at a time. *)
Insert(e) ==
  LET pos == SlotOf(hcode(e)) IN
  /\ call = "idle"
  /\ ~Contains(inserted, e)
  /\ ptr' = [ptr EXCEPT ![e] = ptr[pos], ![pos] = e]
  /\ size' = size + 1
  /\ inserted' = <<e>> \o inserted
  /\ UNCHANGED <<call, key, from, answer>>

(* lookup and remove both enter lookup_, at the slot of the key. *)
Enter(op, k) ==
  /\ call = "idle"
  /\ call' = op
  /\ key' = k
  /\ from' = SlotOf(HashOf(k))
  /\ UNCHANGED <<ptr, size, answer, inserted>>

(* The hash codes are compared and the keys are not. *)
Matches_HashOnly(cur) == hcode(cur) = HashOf(key)

Matches(cur) == hcode(cur) = HashOf(key) /\ KeyOf(cur) = key

Walking == call \in {"lookup", "remove"}

(* from = &cur->next *)
WalkOn ==
  /\ Walking
  /\ ptr[from] # None
  /\ ~Matches(ptr[from])
  /\ from' = ptr[from]
  /\ UNCHANGED <<ptr, size, call, key, answer, inserted>>

(* remove counts down without asking whether there was a node. *)
NotFound_CountsDown ==
  /\ Walking
  /\ ptr[from] = None
  /\ answer' = None
  /\ call' = "idle"
  /\ size' = IF call = "remove" THEN size - 1 ELSE size
  /\ UNCHANGED <<ptr, key, from, inserted>>

(* lookup_ returns NULL: so do lookup and remove. *)
NotFound ==
  /\ Walking
  /\ ptr[from] = None
  /\ answer' = None
  /\ call' = "idle"
  /\ UNCHANGED <<ptr, size, key, from, inserted>>

LookupReturns ==
  /\ call = "lookup"
  /\ ptr[from] # None
  /\ Matches(ptr[from])
  /\ answer' = ptr[from]
  /\ call' = "idle"
  /\ UNCHANGED <<ptr, size, key, from, inserted>>

(* The history after the removal of e. *)
Without(e) ==
  LET places == {i \in 1 .. Len(inserted) : inserted[i] = e}
  IN IF places = {} THEN inserted ELSE RemoveAt(inserted, Min(places))

(* The slot is overwritten wherever the walk stopped. *)
RemoveReturns_AtSlot ==
  LET e == ptr[from] IN
  /\ call = "remove"
  /\ e # None
  /\ Matches(e)
  /\ ptr' = [ptr EXCEPT ![SlotOf(HashOf(key))] = ptr[e]]
  /\ size' = size - 1
  /\ answer' = e
  /\ call' = "idle"
  /\ inserted' = Without(e)
  /\ UNCHANGED <<key, from>>

(* remove through detach_: the incoming pointer skips the node. *)
RemoveReturns ==
  LET e == ptr[from] IN
  /\ call = "remove"
  /\ e # None
  /\ Matches(e)
  /\ ptr' = [ptr EXCEPT ![from] = ptr[e]]
  /\ size' = size - 1
  /\ answer' = e
  /\ call' = "idle"
  /\ inserted' = Without(e)
  /\ UNCHANGED <<key, from>>

(* The destructor: clear frees the array, the nodes stay with the client. *)
Destroy ==
  /\ call = "idle"
  /\ call' = "destroyed"
  /\ UNCHANGED <<ptr, size, key, from, answer, inserted>>

Next ==
  \/ \E e \in Nodes : Insert(e)
  \/ \E k \in Keys : Enter("lookup", k) \/ Enter("remove", k)
  \/ WalkOn
  \/ NotFound
  \/ LookupReturns
  \/ RemoveReturns
  \/ Destroy

Steps == WalkOn \/ NotFound \/ LookupReturns \/ RemoveReturns

Spec == Init /\ [][Next]_vars
(* The thread inside lookup_ runs on. *)
FairSpec == Spec /\ WF_vars(Steps)
-----------------------------------------------------------------------------
(* Pointers lead to slots and nodes only, and size never drops below 0.     *)
TypeOK ==
  /\ ptr \in [Slots \union Nodes -> Nodes \union {None}]
  /\ size \in Nat
  /\ call \in {"idle", "lookup", "remove", "destroyed"}
  /\ key \in Keys \union {None}
  /\ from \in Slots \union Nodes \union {None}
  /\ answer \in Nodes \union {None}
  /\ inserted \in Seq(Nodes)

(* The next node of slot p in the history s, behind its place i. *)
NextIn(s, p, i) ==
  LET later == {j \in i + 1 .. Len(s) : SlotOf(hcode(s[j])) = p}
  IN IF later = {} THEN None ELSE s[Min(later)]

(* Each chain holds exactly the nodes of the map whose code falls into its  *)
(* slot, most recently inserted first, ends in a null pointer, and size is  *)
(* the number of nodes of all chains: no insertion or removal, at the head  *)
(* or in the middle, loses or repeats a node or leaves one in a wrong slot. *)
ChainsAreBuckets ==
  /\ size = Len(inserted)
  /\ \A p \in Slots : ptr[p] = NextIn(inserted, p, 0)
  /\ \A i \in 1 .. Len(inserted) :
       ptr[inserted[i]] = NextIn(inserted, SlotOf(hcode(inserted[i])), i)

(* Every chain is one bucket of the map, and the call in progress is on it. *)
MapInvariant == TypeOK /\ ChainsAreBuckets

(* Lookups and removals answer as a map in which a later entry shadows an   *)
(* earlier one with the same key, hash collisions notwithstanding.          *)
Promised == INSTANCE ShadowMap WITH table <- inserted, asked <- key
ImplementsShadowMap == Promised!Spec

(* Every lookup and removal comes to an end: no chain becomes circular. *)
CallsReturn == Walking ~> call = "idle"
=============================================================================
