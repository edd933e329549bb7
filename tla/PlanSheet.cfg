SPECIFICATION ScreenSpec
CONSTANTS
  EntryIds = {a, b}
  NoId = NoId
  LastDay = 3
  WeekLength = 2
  Today = 0
  FormDays = {0, 2}
  MaxLoads = 3
  MaxSheets = 2
  MaxMishaps = 1
SYMMETRY EntrySymmetry
INVARIANTS
  PlanShowsStored SheetStoresOnce
CHECK_DEADLOCK FALSE
