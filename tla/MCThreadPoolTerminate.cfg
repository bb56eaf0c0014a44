\* Expected to fail: a task that enqueues during the destructor ends the program.
CONSTANTS
  Workers = {w1, w2}
  Owner = owner
  NoTask = none
  x1 = x1
  x2 = x2
  x3 = x3
  x4 = x4
  Tasks = {x1, x2, x4}
  Spawns <- OneSpawns
SPECIFICATION Spec
INVARIANTS GracefulShutdown
CHECK_DEADLOCK FALSE
