SPECIFICATION FairTapSpec
CONSTANTS
  Half = 1
  MaxPulseTick = 1
  MaxEdges = 2
INVARIANTS TapTypeOK BilledOnce ShownHeldOrBilled
PROPERTIES StopsUnlessHeldUp CallReturns PeriodResetUnlessOvertaken
