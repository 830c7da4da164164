SPECIFICATION Spec
CONSTANTS
  Run = {r}
  Device = {1, 2}
  PerKind = 1
  MaxAttempts = 3
  Setting <- MCAlone
  Maker <- MCMaker
  None = None
  Absent = Absent
  NoHash = NoHash
  Slots = 2
  MaxRevision = 8
  MaxRev = 2
INVARIANT AttemptsBounded
CHECK_DEADLOCK FALSE
