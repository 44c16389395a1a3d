\* Spec 4.2 gives downgrade clone's abort-on-overflow policy; the code of
\* Arc::downgrade only asserts n < usize::MAX - 1.  Two threads, usize of
\* 3 bits (usize::MAX = 7, abort bound 3), up to six handles.
CONSTANTS
  t1 = t1
  t2 = t2
  t3 = t3
  Threads <- MCThreads2
  UsizeMax = 7
  MaxHandles = 6
SPECIFICATION Spec
INVARIANT AllocWithinAbortBound
CHECK_DEADLOCK FALSE
