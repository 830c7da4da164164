SPECIFICATION FairSpec
CONSTANTS
  Starting = {a, None}
  Account = {a, b}
  None = None
  Empty = Empty
  Shared = Shared
  Named = {FALSE}
  MaxEngines = 2
  MaxClicks = 2
  MaxFaults = 1
PROPERTY DeadTokenIsShown
CHECK_DEADLOCK FALSE
