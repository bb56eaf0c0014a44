---------------------------- MODULE MCSequential ----------------------------
(* Model-checking instance of the single-threaded components: the entries of *)
(* the hash map and the shapes of the matrices.                              *)
EXTENDS Sequential

CONSTANTS e1, e2, e3, e4

\* Two entries share a key, a third has another key with the same hash code,
\* and the codes of all four fall into one slot of two.
FourNodes == {e1, e2, e3, e4}
ThreeKeys == {"a", "b", "c"}
FourKeyOf(e) == IF e \in {e1, e2} THEN "a" ELSE IF e = e3 THEN "b" ELSE "c"
ThreeHashOf(k) == IF k = "c" THEN 6 ELSE 4

ThreeShapes == {<<1, 1>>, <<1, 2>>, <<2, 2>>}
=============================================================================
