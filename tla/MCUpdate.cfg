SPECIFICATION Spec
CONSTANTS
  u1 = u1
  u2 = u2
  none = none
  Units = {u1, u2}
  NoUnit = none
  MaxAttempts = 4
  MaxParallel = 1
  MaxBegins = 2
  MaxUpdates = 1
  MaxCrashes = 1
  MaxBusy = 1
SYMMETRY Symmetry
INVARIANTS
  TypeOK
  TakenUpOnce
  OneRunPerUnit
  NotOverNewerWork
  TrialIsNotForNothing
