\* The 06-02 Arc/Weak with a 2-bit usize (usize::MAX = 3) and two threads:
\* the abort-on-overflow checks of Weak's clone (used by Arc::clone and
\* upgrade) and the wrap of fetch_add are reached.  Upgrade's assert needs
\* usize::MAX concurrent upgrades past alloc's abort, out of reach with two
\* threads.
CONSTANTS
  t1 = t1
  t2 = t2
  t3 = t3
  Threads <- MCThreads2
  UsizeMax = 3
  MaxHandles = 5
SPECIFICATION Spec
INVARIANT CountsMatch
CHECK_DEADLOCK FALSE
