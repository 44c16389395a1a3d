\* The 06-03 Arc/Weak with a 2-bit usize (usize::MAX = 3) and two threads:
\* the abort-on-overflow checks of the clones, downgrade's assert and the
\* wrap of fetch_add are reached.
CONSTANTS
  t1 = t1
  t2 = t2
  t3 = t3
  Threads <- MCThreads2
  UsizeMax = 3
  MaxHandles = 5
SPECIFICATION Spec
INVARIANT CountsMatch
PROPERTY ImplementsArcSpec
CHECK_DEADLOCK FALSE
