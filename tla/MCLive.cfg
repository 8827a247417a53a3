\* Attempts: two units, two attempts, one slot, one crash.
\* Pull requests: one of one unit, two heads, one trouble, and no board open.
SPECIFICATION LiveSpec
CONSTANTS
  u1 = u1
  u2 = u2
  none = none
  Units = {u1, u2}
  NoUnit = none
  MaxAttempts = 2
  MaxParallel = 1
  MaxCrashes = 1
  PullUnits = {u1}
  MaxHead = 2
  MaxAsked = 1
  MaxPr = 1
  MaxTroubles = 1
PROPERTIES
  KeepsUnitLock
  EveryAttemptEnds
  MergeIsRecorded
  CiCatchesUp
CHECK_DEADLOCK FALSE
