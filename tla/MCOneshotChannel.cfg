\* 05-03 (both versions), 05-04, 05-05 and 05-06: main receiving, its
\* sender thread, and, where send and receive take &self (05-03), one more
\* sender and one more receiver.  The program ends once main has dropped
\* the channel, so deadlock is not checked.
CONSTANTS
  main = main
  s1 = s1
  s2 = s2
  r1 = r1
  NoMessage = NoMessage
  Variants <- MCSafeVariants
  Receiver = main
  Sender = s1
  ExtraSenders = {s2}
  ExtraReceivers = {r1}
SPECIFICATION Spec
INVARIANT TypeOK
INVARIANT NoDataRace
INVARIANT SlotConsumedAtMostOnce
PROPERTY ImplementsOneshotSpec
PROPERTY ReceiverReturns
CHECK_DEADLOCK FALSE
