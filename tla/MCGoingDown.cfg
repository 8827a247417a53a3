SPECIFICATION Spec
CONSTANTS
  u1 = u1
  u2 = u2
  none = none
  Units = {u1, u2}
  NoUnit = none
  MaxAttempts = 2
  MaxParallel = 1
  MaxCrashes = 1
PROPERTIES
  GoingDownLeavesAttempt
