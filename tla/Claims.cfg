SPECIFICATION Spec
CONSTANTS
  Device = {1, 2}
  MaxClock = 2
  MaxActs = 2
  MaxFaults = 1
  MaxEvents = 2
  MaxCalls = 1
  Mortal = {1}
INVARIANT TypeOK GivesUp IncumbentStays
PROPERTY BackOfTheQueue
