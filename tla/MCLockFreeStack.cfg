\* Open system: two threads push and pop; keys that tell nodes apart, three
\* addresses, and enough tags for a pop to sleep while its node is popped,
\* deleted, allocated again and pushed above another node.
CONSTANTS
  Threads = {t1, t2}
  Nodes = {n1, n2, n3}
  nullptr = nullptr
  Keys = {1, 2}
  MaxTag = 6
  MaxSpurious = 1
SPECIFICATION Spec
SYMMETRY Symmetry
INVARIANTS StackInvariant NoABA
PROPERTIES ImplementsAtomicStack
CHECK_DEADLOCK FALSE
