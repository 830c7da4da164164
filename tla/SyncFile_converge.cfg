SPECIFICATION FairSpec
CONSTANTS
  da = da
  db = db
  a1 = a1
  a2 = a2
  b1 = b1
  Device <- MCDevice
  Rec <- MCRec2
  Author <- MCAuthor2
  Deletable <- MCDeletable
  Size <- Cardinality
  NoHash = NoHash
  Absent = Absent
  MaxRev = 9
  MaxFaults = 1
PROPERTY DeceivedOnlyBySize Convergence
CHECK_DEADLOCK FALSE
