SPECIFICATION FairSpec
CONSTANTS
  u1 = u1
  none = none
  Units = {u1}
  NoUnit = none
  MaxAttempts = 4
  MaxParallel = 1
  MaxBegins = 1
  MaxUpdates = 2
  MaxCrashes = 1
  MaxBusy = 1
PROPERTIES
  PendingEnds
  SuspendsAnswered
