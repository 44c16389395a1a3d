\* Three threads: the counters, get_mut exclusivity, payload and block
\* lifetime, and the refinement of ArcSpec.  usize is 3 bits wide.
CONSTANTS
  t1 = t1
  t2 = t2
  t3 = t3
  Threads <- MCThreads
  UsizeMax = 7
  MaxHandles = 4
SPECIFICATION Spec
INVARIANT TypeOK
INVARIANT CountsMatch
INVARIANT ReleasedOnce
PROPERTY ImplementsArcSpec
CHECK_DEADLOCK FALSE
