SPECIFICATION Spec
CONSTANTS
  a = a  t1 = t1  t2 = t2
  Ids = {a}
  Tags = {t1, t2}
  Recorded <- RecordedBlocks
  Days <- ThreeDays
  DayLength = 2
  WeekLength = 2
  Today = 1
  NoBlock = NoBlock
  Keep = Keep
  MaxLoads = 3
  MaxMounts = 2
  MaxLosses = 1
  MaxElsewhere = 1
INVARIANTS
  LoadingIsLive
  TotalsAgree
  ShowsOwnEdits
PROPERTY
  EditsKeepDays
CHECK_DEADLOCK FALSE
