SPECIFICATION Spec
CONSTANTS
  DayLength = 4
  RailStart = 1
  RailLength = 2
  NoTime = NoTime
  Requests = {r1, r2}
  Ids = {e1, e2, e3}
  NoEntry = NoEntry
  Bodies <- PostedEntries
  Edits <- PatchBodies
  Keep = Keep
  Weeks = {7, 14}
  MaxEdits = 2
SYMMETRY PlanSymmetry
INVARIANTS
  ShowsOnItsDays TimelineReadable
CHECK_DEADLOCK FALSE
