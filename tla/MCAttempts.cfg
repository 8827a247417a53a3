SPECIFICATION Spec
CONSTANTS
  u1 = u1
  u2 = u2
  none = none
  Units = {u1, u2}
  NoUnit = none
  MaxAttempts = 3
  MaxParallel = 2
  MaxCrashes = 1
SYMMETRY Symmetry
INVARIANTS
  TypeOK
  RowsMatchTasks
  NoIllegalMove
  HeldIsWorkedOn
  StopShows
PROPERTIES
  StopNeverHalfway
  AdmissionInOrder
  WakeFollows
