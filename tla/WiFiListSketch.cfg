\* The sketch alone, with a restart in a save and a failed write: gaps, unnamed networks, 3 slots.
CONSTANTS
  N = 3
  Networks = {n1, n2}
  None = None
  Web = web
  Tasks = {sketch}
  MaxCuts = 1
  MaxFaults = 1
SPECIFICATION Spec
SYMMETRY NetworkSymmetry
INVARIANTS TornBounded
PROPERTIES KeepsNetworkList
