SPECIFICATION Spec
CONSTANTS
  Tabs = {a, b}
  Accounts = {alice, bob}
  Nobody = Nobody
  Blocks = {b1}
  NoBlock = NoBlock
  NotStarted = NotStarted
  MaxSignIns = 2
  MaxLosses = 1
  MaxRevocations = 1
  MaxMeFailures = 0
  MaxResets = 1
SYMMETRY FenceSymmetry
INVARIANTS
  FenceHolds NoBlockVanishes
CHECK_DEADLOCK FALSE
