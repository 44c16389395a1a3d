\* The 06-01 / 06-01-02 Arc with three threads and many Arc<T>s:
\* get_mut exclusivity, the lifetime of T and of the block, and refinement
\* of ArcSpec with its fairness.  usize is 4 bits wide (usize::MAX = 15)
\* and nine Arc<T>s may be attempted, so clone's abort-on-overflow check
\* (old count 8 > 15 / 2) is reached.  No symmetry reduction: it is
\* unsound for the liveness part of the refinement.
CONSTANTS
  t1 = t1
  t2 = t2
  t3 = t3
  Threads <- MCThreads
  UsizeMax = 15
  MaxHandles = 9
SPECIFICATION Spec
INVARIANT TypeOK
INVARIANT DroppedOnceAfterLastArc
PROPERTY ImplementsArcSpec
CHECK_DEADLOCK FALSE
