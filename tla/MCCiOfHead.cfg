CONSTANTS
  Units = {u1}
  MaxHead = 2
  MaxAsked = 0
  MaxPr = 1
  MaxTroubles = 1
SPECIFICATION Spec
INVARIANTS
  CiIsOfItsHead
CHECK_DEADLOCK FALSE
