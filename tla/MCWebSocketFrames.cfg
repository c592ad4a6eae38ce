SPECIFICATION Spec
CONSTANTS
  Frames <- MCFrames
  MaxFrames = 3
  XorByte <- MCXor
INVARIANTS MessagesDelivered NothingKept ClosesWithPage
PROPERTIES ImplementsChannel LoopEnds
CHECK_DEADLOCK FALSE
