\* The four spin-lock programs; 04-03 and 03-05-01 with three scoped threads
\* (in 04-03 a third one pushing 4 and 5).  The program ends once all threads
\* are done, so deadlock is not checked.
CONSTANTS
  Variants <- MCVariants
  Workers <- MCWorkers
  Pushes <- MCPushes
SPECIFICATION Spec
INVARIANT TypeOK
INVARIANT MainAssertHolds
PROPERTY Terminates
PROPERTY ImplementsMutexSpec
CHECK_DEADLOCK FALSE
