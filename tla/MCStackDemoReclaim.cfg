\* Expected to fail: pop reads next of a node another pop has deleted.
CONSTANTS
  Producer = p
  Consumers = {c1, c2}
  ITEMS_PER_CONSUMER = 1
  Nodes = {n1, n2}
  nullptr = nullptr
  MaxTag = 40
  MaxSpurious = 0
SPECIFICATION Spec
INVARIANTS NoReadAfterDelete
