\* The mode the access point was set up for.
CONSTANTS
  Delay = 3
  MaxAsks = 1
  MaxPresses = 1
  MaxCuts = 0
  MaxFailedWrites = 0
SPECIFICATION BootSpec
INVARIANTS BootModeAgrees
