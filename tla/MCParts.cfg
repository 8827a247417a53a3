SPECIFICATION PartsSpec
CONSTANTS
  Findings = {f1}
  Marks <- MarksV
  Patches = {1, 2}
  Limit = 1
  MaxCommits = 2
  MaxRounds = 2
  MaxMoves = 1
  Units = {u1}
  MaxTries = 2
  Places = 1
  MaxWakes = 2
  MaxStarts = 4
  Agents = {"lead", "follow"}
  Leader <- LeaderV
  Delayed = {}
  LeifCalls = {l1, l2}
  Daily = 1
  MaxRuns = 3
  Callers = {c1, c2, c3}
  Reuse = 2
  MaxTime = 4
  Askers = {a1, a2}
  MaxChanges = 3
  MaxFails = 1
  MaxPublic = 3
  Locals <- LocalsV
  MaxTrunk = 1
  MaxMade = 2
INVARIANTS PartsTypeOK
  MergedWasReviewed NamedIsOpen SomeoneCanMove
  WakeIsServed RetriesBounded EndHandedOnce LeifWithinDay BoardIsCurrent
  HandedIsSound WayBack LocalWorkKept
PROPERTIES CeilingHolds KeepsPromise NothingPushedBack
CHECK_DEADLOCK FALSE
