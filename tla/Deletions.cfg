SPECIFICATION MCFairSpec
CONSTANTS
  da = da
  db = db
  a = a
  b = b
  Device <- MCDevice
  Mark <- MCMark
  Author <- MCAuthor
  NoHash = NoHash
  Absent = Absent
  MaxEvents = 2
  MaxRev = 5
  MaxFaults = 1
INVARIANT TypeOK NothingUnjournalled
PROPERTY DeadStaysDead RevivedReachesAll
CHECK_DEADLOCK FALSE
