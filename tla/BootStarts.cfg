\* Starts, presses, power cuts and failed writes of BootSelector.
CONSTANTS
  Delay = 3
  MaxAsks = 2
  MaxPresses = 3
  MaxCuts = 2
  MaxFailedWrites = 2
SPECIFICATION BootSpec
INVARIANTS IInv PressReportedOnce WriteModeHasCause AskDecides
PROPERTIES RestartComes AskServed
