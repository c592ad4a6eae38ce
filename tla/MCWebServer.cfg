SPECIFICATION Spec
CONSTANTS
  c1 = c1
  c2 = c2
  Conns = {c1, c2}
  Plans <- MCPlans
  FileLen = 3
  SendMbuf = 2
  SocketCap = 1
  MaxPulses = 1
INVARIANTS TypeOK RepliesThenFrames ClosedAfterReply
PROPERTIES RequestsAnswered DisplayCatchesUp LeftIsForgotten
CHECK_DEADLOCK FALSE
