\* The three futex mutexes (09-01, 09-01-01, 09-01-02), each with three
\* threads doing two lock()/drop(guard) cycles and a spin bound of 2.
\* The threads stop after their last cycle, so deadlock is not checked.
CONSTANTS
  t1 = t1
  t2 = t2
  t3 = t3
  Threads <- MCThreads
  Variants <- MCVariants
  Rounds = 2
  SpinLimit = 2
SPECIFICATION Spec
INVARIANT TypeOK
PROPERTY AllDone
PROPERTY ImplementsMutexSpec
CHECK_DEADLOCK FALSE
