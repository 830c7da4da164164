SPECIFICATION FairSpec
CONSTANTS
  Account = {a, b}
  None = None
  Empty = Empty
  Shared = Shared
  Starting = {a, None}
  Named = {TRUE, FALSE}
  MaxEngines = 2
  MaxClicks = 2
  MaxFaults = 1
INVARIANT TypeOK OneEngineTicks TicksSignedIn ActsAsShown SignOutIsQuiet
PROPERTY MergeKnowsItsDrive PurgeStaysHome DeadTokenDropsOut SignedInSyncs
CHECK_DEADLOCK FALSE
