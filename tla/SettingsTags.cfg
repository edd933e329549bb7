SPECIFICATION Spec
CONSTANTS
  focus = focus  sound = sound  off = off  on = on
  t1 = t1  t2 = t2  n1 = n1  n2 = n2  c1 = c1  c2 = c2
  Fields = {focus, sound}
  Values = {off, on}
  DefaultSettings <- AllOff
  NoRow = NoRow
  InitialRows <- NewOrChanged
  TagIds = {t1, t2}
  Names = {n1, n2}
  Colors = {c1, c2}
  NoId = NoId
  NoTag = NoTag
  InitialTags <- OneTag
  MaxMounts = 2
  MaxSaves = 2
  MaxMishaps = 1
  MaxTagWrites = 2
  MaxTagMishaps = 1
  MaxFaults = 1
INVARIANTS
  ShowsWhatIsSaved
  ListsWhatIsStored
PROPERTIES
  SavesKeepApart
  EditsChangeWhatWasTyped
CHECK_DEADLOCK FALSE
