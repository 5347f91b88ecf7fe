SPECIFICATION Spec
CONSTANTS
  NUMBER_OF_THREADS = 2
  QUEUE_SIZE = 4
  Submissions = 3
  NULL = NULL
  Junk = Junk
INVARIANT ShutsDown
