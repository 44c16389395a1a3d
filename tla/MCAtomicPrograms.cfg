\* The ID allocators, lazy initialisation, the SeqCst example, the
\* background-worker programs, the Mutex/Condvar and park queues, the
\* memory-ordering examples, the statistics, the Arc and channel orderings and the futex demo, one chosen
\* per behaviour.  Every program
\* ends (or, for 02-01-01, may wait for input for ever), so deadlock is
\* not checked.
SPECIFICATION Spec
INVARIANT TypeOK
INVARIANT UniqueIds
INVARIANT AllAgree
INVARIANT BoxesAccounted
INVARIANT AtMostOnePush
INVARIANT FenceDataVisible
INVARIANT CounterExact
INVARIANT SpawnAssertHolds
INVARIANT PrintsPossibleOutput
INVARIANT SnapshotConsistent
INVARIANT ArcNoDataRace
INVARIANT SlotAccessOrdered
PROPERTY Terminates
PROPERTY AllReceived
CHECK_DEADLOCK FALSE
