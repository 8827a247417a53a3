SPECIFICATION Spec
CONSTANTS
  u1 = u1
  none = none
  Units = {u1}
  NoUnit = none
  MaxAttempts = 2
  MaxParallel = 1
  MaxBegins = 1
  MaxUpdates = 1
  MaxCrashes = 0
  MaxBusy = 0
INVARIANTS
  EndedStaysEnded
