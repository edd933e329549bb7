SPECIFICATION Spec
CONSTANTS
  Tabs = {a, b}
  Ids = {b1, b2}
  Copies = {tagged, broken}
  TaggedCopies = {tagged}
  BrokenCopies = {broken}
  NoCopy = NoCopy
  MaxSaves = 2
  MaxLosses = 1
  MaxOutages = 0
  MaxExpiries = 1
  MaxSignIns = 1
  MaxCloses = 1
SYMMETRY TabSymmetry
INVARIANTS
  NoRewriteLost DropsAreReported
PROPERTIES
  NeverDoublePosts DrainsWhatWasSavedMeanwhile ImplementsDelivery
CHECK_DEADLOCK FALSE
