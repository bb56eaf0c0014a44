-------------------------- MODULE GrowableSequence --------------------------
(* What a vector promises: a sequence that grows and shrinks at its end and *)
(* takes insertions anywhere, whatever happens to its storage.              *)
EXTENDS SequencesExt, Integers
CONSTANTS Values, OutOfRange
VARIABLES
  contents,  \* the elements
  answer     \* the latest access by index, and what it returned

vars == <<contents, answer>>

Init == contents = <<>> /\ answer = [index |-> 0, value |-> OutOfRange]

Inserts ==
  \E v \in Values, k \in 1 .. Len(contents) + 1 : contents' = InsertAt(contents, k, v)
Assigns  == \E v \in Values, k \in 1 .. Len(contents) : contents' = [contents EXCEPT ![k] = v]
Shortens == contents' \in {<<>>, SubSeq(contents, 1, Len(contents) - 1)}

\* The answer names the index asked for; indices start at 0.
Access ==
  answer'.value = IF answer'.index \in 0 .. Len(contents) - 1
                  THEN contents[answer'.index + 1] ELSE OutOfRange

Next ==
  \/ (Inserts \/ Assigns \/ Shortens) /\ UNCHANGED answer
  \/ Access /\ UNCHANGED contents

Spec == Init /\ [][Next]_vars
=============================================================================
