\* The page's delete form.
CONSTANTS
  N = 3
  Networks = {n1, n2}
  None = None
  Web = web
  Tasks = {web}
  MaxCuts = 0
  MaxFaults = 0
SPECIFICATION Spec
PROPERTIES DeletesOnlyChecked
