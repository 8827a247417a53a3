SPECIFICATION FairSpec
CONSTANTS
  u1 = u1
  u2 = u2
  none = none
  Units = {u1, u2}
  NoUnit = none
  MaxAttempts = 2
  MaxParallel = 2
  MaxCrashes = 0
PROPERTIES
  StopEnds
