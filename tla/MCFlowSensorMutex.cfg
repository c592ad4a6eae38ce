SPECIFICATION Spec
CONSTANTS
  Half = 1
  MaxPulseTick = 1
  MaxEdges = 2
INVARIANT MutexExists
