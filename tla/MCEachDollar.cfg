\* A run that meets its ceiling, is raised, is paused by an update, and goes on.
CONSTANTS
  MaxSaid = 1
  MaxUsd = 2
  MaxRuns = 3
  MaxRev = 1
SPECIFICATION Spec
INVARIANT EachDollarOnce
CHECK_DEADLOCK FALSE
