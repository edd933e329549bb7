SPECIFICATION FairTitleSpec
CONSTANTS
  Labels = {}
  NoLabel = NoLabel
  Grace = 1
  Tabs = {a}
  Guest = TRUE
  DefaultSettings <- ManualSettings
  AccountSettings <- NoSettings
  MaxTime = 4
  MaxStarts = 2
  MaxOpens = 2
  MaxSegments = 1
  MaxBackSteps = 1
  FlashTime = 1
INVARIANTS
  GuestNeverStranded TitleNeverFrozen
PROPERTIES
  CycleMovesWithItsBlock TimeUpIsNoticed
CHECK_DEADLOCK FALSE
