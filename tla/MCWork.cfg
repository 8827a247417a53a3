\* Runs: two pieces of what a session says, one dollar, three runs, one change of the unit's files.
\* Pull requests: one unit, two heads of its branch, two pull requests, and a push or one failure.
\* Releases: one version to come, four commits of `main`, two of its branch and one pull request.
CONSTANTS
  Units = {u1}
  MaxHead = 2
  MaxAsked = 1
  MaxPr = 2
  MaxTroubles = 1
  MaxVersion = 2
  MaxMain = 4
  MaxHeads = 2
  MaxPulls = 1
  MaxSaid = 2
  MaxUsd = 1
  MaxRuns = 3
  MaxRev = 2
SPECIFICATION WorkSpec
INVARIANTS
  WorkTypeOK
  RedIsReal
PROPERTIES
  DoneIsSound
  Withheld
  MergedWasReady
  ReleasedIsMade
CHECK_DEADLOCK FALSE
