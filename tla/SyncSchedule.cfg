SPECIFICATION FairSpec
CONSTANTS
  Path = {p, q, r}
  Width = 2
  MaxConsecutive = 1
  PullTicks = 1
  ResumeTicks = 0
  MaxBooks = 2
  MaxEdits = 3
  MaxFaults = 3
INVARIANT TypeOK AnnouncedIsRemembered DeadLinkStops OneOnTheRemote
PROPERTY CleanPassMirrors SweepCatchesUp
