SPECIFICATION Spec
CONSTANTS
  da = da
  db = db
  a1 = a1
  a2 = a2
  b1 = b1
  Device <- MCDevice
  Rec <- MCRec
  Author <- MCAuthor
  Deletable <- MCDeletable
  Size <- Cardinality
  NoHash = NoHash
  Absent = Absent
  MaxRev = 5
  MaxFaults = 1
INVARIANT TypeOK LossOnlyByRace DeletionsHold
CHECK_DEADLOCK FALSE
