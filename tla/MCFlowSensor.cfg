SPECIFICATION Spec
CONSTANTS
  Half = 3
  MaxPulseTick = 2
  MaxEdges = 3
INVARIANTS TypeOK PulseConservation OneStrayPerPour PeriodGuarded PeriodAccurate
