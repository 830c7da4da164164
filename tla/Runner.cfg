SPECIFICATION FairSpec
CONSTANTS
  Run = {r}
  Device = {1, 2}
  PerKind = 1
  MaxAttempts = 2
  Setting <- MCSetting
  Maker <- MCMaker
  None = None
  Absent = Absent
  NoHash = NoHash
  Slots = 2
  MaxRevision = 6
  MaxRev = 5
INVARIANT TypeOK OneExecution
PROPERTY CopiesClimb CancelIsTold RunsEnd EndsRing
CHECK_DEADLOCK FALSE
