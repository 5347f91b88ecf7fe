SPECIFICATION Spec
CONSTANTS
  QUANTUM = 2
  Priorities = {1, 2}
  Bursts = {0, 1, 2, 5}
  MaxTasks = 3
INVARIANTS
  TypeOK
  EachGetsItsBurst
  ShortestWaitsLeast
PROPERTIES
  IsReadyQueue
  Terminates
