\* Does a started Arc::downgrade always return under weak fairness per
\* thread?  Two threads, one of which can call get_mut repeatedly.
CONSTANTS
  t1 = t1
  t2 = t2
  t3 = t3
  Threads <- MCThreads2
  UsizeMax = 7
  MaxHandles = 3
SPECIFICATION Spec
PROPERTY DowngradeReturns
CHECK_DEADLOCK FALSE
