------------------------------- MODULE MyVector -------------------------------
(* my_vector/main.cpp: my::vector of a T that needs neither construction    *)
(* nor destruction, as the int of main(): a cell of the storage holds a     *)
(* value or what the memory contained before.                               *)
EXTENDS Integers, Sequences
CONSTANTS Values, Garbage, OutOfRange, MaxCapacity
VARIABLES
  data,       \* the block of storage, a sequence of cells; <<>> for nullptr
  _size, _capacity,
  answer      \* the latest index asked for, and what operator[] returned or threw

vars == <<data, _size, _capacity, answer>>

\* The bound on the capacity, which size_t is in the code.
VectorAssumption == MaxCapacity \in Nat

Init == data = <<>> /\ _size = 0 /\ _capacity = 0 /\ answer = [index |-> 0, value |-> OutOfRange]

\* A new block of c cells with the elements moved over; the old one is freed.
Moved(c) == [k \in 1 .. c |-> IF k <= _size THEN data[k] ELSE Garbage]

resize(c) == data' = Moved(c) /\ _capacity' = c

\* Room for one more element, and the block it goes to.
Full     == _size = _capacity
Doubled  == IF _capacity = 0 THEN 1 ELSE 2 * _capacity
Room     == IF Full THEN Moved(Doubled) ELSE data
HasRoom  == Len(Room) <= MaxCapacity
GrowWith(cells) == data' = cells /\ _capacity' = Len(cells) /\ _size' = _size + 1 /\ UNCHANGED answer

push_back(v)    == HasRoom /\ GrowWith([Room EXCEPT ![_size + 1] = v])
emplace_back(v) == HasRoom /\ GrowWith([Room EXCEPT ![_size + 1] = v])

\* The loop runs upwards and copies the first element over all others.
emplace_Upwards(index, v) ==
  /\ HasRoom /\ index \in 0 .. _size
  /\ GrowWith([k \in DOMAIN Room |->
       IF k = index + 1 THEN v
       ELSE IF k \in index + 2 .. _size + 1 THEN Room[index + 1] ELSE Room[k]])

\* Elements from index on move up, the last one first; then v is constructed.
emplace(index, v) ==
  /\ HasRoom /\ index \in 0 .. _size
  /\ GrowWith([k \in DOMAIN Room |->
       IF k = index + 1 THEN v
       ELSE IF k \in index + 2 .. _size + 1 THEN Room[k - 1] ELSE Room[k]])

reserve(c) ==
  /\ c > _capacity
  /\ resize(c)
  /\ UNCHANGED <<_size, answer>>

pop_back == _size > 0 /\ _size' = _size - 1 /\ UNCHANGED <<data, _capacity, answer>>
clear    == _size' = 0 /\ UNCHANGED <<data, _capacity, answer>>

shrink_to_fit ==
  /\ _capacity # _size
  /\ resize(_size)
  /\ UNCHANGED <<_size, answer>>

\* operator[]: reading, and assigning through the reference it returns.
At(index) ==
  /\ answer' = [index |-> index, value |-> IF index >= _size THEN OutOfRange ELSE data[index + 1]]
  /\ UNCHANGED <<data, _size, _capacity>>

Assign(index, v) ==
  /\ index < _size
  /\ data' = [data EXCEPT ![index + 1] = v]
  /\ UNCHANGED <<_size, _capacity, answer>>

Next ==
  \/ \E v \in Values : push_back(v) \/ emplace_back(v)
  \/ \E v \in Values, index \in 0 .. _size : emplace(index, v) \/ Assign(index, v)
  \/ \E c \in 1 .. MaxCapacity : reserve(c)
  \/ \E index \in 0 .. MaxCapacity : At(index)
  \/ pop_back \/ clear \/ shrink_to_fit

Spec == Init /\ [][Next]_vars
-----------------------------------------------------------------------------
\* The elements are a growable sequence: growing, reserving and shrinking move
\* them to other blocks without losing or overtaking one, and no access returns
\* what lies behind the elements or what the memory contained before.
Promised == INSTANCE GrowableSequence WITH contents <- SubSeq(data, 1, _size)
ImplementsSequence == Promised!Spec
=============================================================================
