SPECIFICATION Spec
CONSTANTS
  Requests = {r1, r2}
  Ids = {b}
  Labels = {x, y}
  AllTags = {t}
  Recordings <- PostedLists
  Edits <- PatchBodies
  Keep = Keep
  NoTag = NoTag
  NoBlock = NoBlock
  MaxCreates = 2
SYMMETRY RecordsSymmetry
INVARIANTS
  IntervalsStaySound BucketFollowsStart
PROPERTIES
  RecordedOnce PausesAreKept EditsKeepApart
CHECK_DEADLOCK FALSE
