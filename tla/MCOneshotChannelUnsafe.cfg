\* 05-02's main: one sending and one receiving thread on the unsafe
\* channel, then the drop of the last Arc<Channel>.
CONSTANTS
  main = main
  s1 = s1
  s2 = s2
  r1 = r1
  NoMessage = NoMessage
  Variants <- MCUnsafeVariants
  Receiver = main
  Sender = s1
  ExtraSenders = {}
  ExtraReceivers = {}
SPECIFICATION Spec
INVARIANT SlotConsumedAtMostOnce
CHECK_DEADLOCK FALSE
