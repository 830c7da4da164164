SPECIFICATION FairSpec
CONSTANTS
  Device = {1, 2}
  MaxClock = 2
  MaxActs = 1
  MaxFaults = 1
  MaxEvents = 1
  MaxCalls = 1
  Mortal = {1, 2}
PROPERTY OneWorks
