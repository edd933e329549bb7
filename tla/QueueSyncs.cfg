SPECIFICATION FairSpec
CONSTANTS
  Tabs = {a, b}
  Ids = {b1}
  Copies = {tagged, broken}
  TaggedCopies = {tagged}
  BrokenCopies = {broken}
  NoCopy = NoCopy
  MaxSaves = 2
  MaxLosses = 1
  MaxOutages = 1
  MaxExpiries = 1
  MaxSignIns = 1
  MaxCloses = 0
PROPERTIES
  EventuallySynced
CHECK_DEADLOCK FALSE
