----------------------------- MODULE ShadowMap -----------------------------
(* What a hash map that accepts equal keys promises: a key means the entry  *)
(* inserted under it most recently among those still in the map, and        *)
(* removing that entry uncovers the one below.                              *)
EXTENDS Naturals, Sequences, SequencesExt, FiniteSetsExt
CONSTANTS Nodes, Keys, KeyOf(_), None
VARIABLES
  table,    \* the entries of the map, most recently inserted first
  call,     \* the operation under way: "lookup", "remove", "idle" or "destroyed"
  asked,    \* the key of the latest lookup or remove
  answer    \* what the latest completed lookup or remove returned

vars == <<table, call, asked, answer>>

\* Where the entries with key k are.
Places(k) == {i \in 1 .. Len(table) : KeyOf(table[i]) = k}
Found(k)  == IF Places(k) = {} THEN None ELSE table[Min(Places(k))]

Init == table = <<>> /\ call = "idle" /\ asked = None /\ answer = None

Insert(e) ==
  /\ call = "idle" /\ ~Contains(table, e)
  /\ table' = <<e>> \o table
  /\ UNCHANGED <<call, asked, answer>>

Ask(op, k) ==
  /\ call = "idle"
  /\ call' = op /\ asked' = k
  /\ UNCHANGED <<table, answer>>

Return == call' = "idle" /\ answer' = Found(asked) /\ UNCHANGED asked

\* A lookup takes nothing out; a removal takes out what it finds.
Lookup == call = "lookup" /\ Return /\ UNCHANGED table
Erase ==
  /\ call = "remove" /\ Return
  /\ table' = IF Places(asked) = {} THEN table ELSE RemoveAt(table, Min(Places(asked)))

Destroy == call = "idle" /\ call' = "destroyed" /\ UNCHANGED <<table, asked, answer>>

Next ==
  \/ \E e \in Nodes : Insert(e)
  \/ \E k \in Keys : Ask("lookup", k) \/ Ask("remove", k)
  \/ Lookup
  \/ Erase
  \/ Destroy

Spec == Init /\ [][Next]_vars
=============================================================================
