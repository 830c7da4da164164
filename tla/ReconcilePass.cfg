SPECIFICATION Spec
CONSTANTS
  Hash = {h1, h2, m}
  Merged = m
  NoHash = NoHash
  Absent = Absent
  MaxRev = 2
INVARIANT Settles
PROPERTY DownloadCoversOnlySynced
CHECK_DEADLOCK FALSE
