SPECIFICATION Spec
CONSTANTS
  da = da
  db = db
  a = a
  b = b
  Device <- MCDevice
  Mark <- MCMark
  Author <- MCAuthor
  NoHash = NoHash
  Absent = Absent
  MaxEvents = 2
  MaxRev = 5
  MaxFaults = 0
INVARIANT NeitherSideWins
CHECK_DEADLOCK FALSE
