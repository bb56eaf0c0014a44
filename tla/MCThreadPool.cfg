\* Three workers, three tasks of the owner, one of which enqueues a fourth.
CONSTANTS
  Workers = {w1, w2, w3}
  Owner = owner
  NoTask = none
  x1 = x1
  x2 = x2
  x3 = x3
  x4 = x4
  Tasks = {x1, x2, x3, x4}
  Spawns <- OneSpawns
SPECIFICATION FairSpec
INVARIANTS PoolInvariant NoMissedWakeup DestructorDrains
PROPERTIES DestructorReturns AcceptedTasksRun
CHECK_DEADLOCK FALSE
