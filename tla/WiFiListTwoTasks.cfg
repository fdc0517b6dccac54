\* The web task and the sketch, with restarts in the middle of saves.
CONSTANTS
  N = 2
  Networks = {n1, n2}
  None = None
  Web = web
  Tasks = {web, sketch}
  MaxCuts = 1
  MaxFaults = 0
SPECIFICATION Spec
SYMMETRY NetworkSymmetry
INVARIANTS IInv NoSurvivorLost
PROPERTIES SavedAsListed
