SPECIFICATION Spec
CONSTANTS
  Tabs = {a}
  Accounts = {alice, bob}
  Nobody = Nobody
  Blocks = {b1, b2}
  NoBlock = NoBlock
  NotStarted = NotStarted
  MaxSignIns = 2
  MaxLosses = 0
  MaxRevocations = 0
  MaxMeFailures = 0
  MaxResets = 0
SYMMETRY FenceSymmetry
INVARIANTS
  SavedUnderItsAccount
CHECK_DEADLOCK FALSE
