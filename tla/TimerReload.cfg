SPECIFICATION Spec
CONSTANTS
  Labels = {}
  NoLabel = NoLabel
  Grace = 0
  Tabs = {a}
  Guest = FALSE
  DefaultSettings <- ManualSettings
  AccountSettings <- OnlyAuto
  MaxTime = 3
  MaxStarts = 2
  MaxOpens = 2
  MaxSegments = 2
  MaxBackSteps = 1
INVARIANTS
  SavedSegmentsSound SavedOnce CycleMatchesSaves ReloadRestoresScreen OneAlertPerEnding TimeCountedOnce
  CompletedRanOut
CHECK_DEADLOCK FALSE
