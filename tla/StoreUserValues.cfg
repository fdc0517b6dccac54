\* The same, for the user values.
CONSTANTS
  K = 1
  LateKeys = {moduleID}
  ModuleID = moduleID
  DefaultModuleID = v1
  PlainKeys = {user}
  Values = {v1}
  Default = Default
  None = None
  Web = web
  Tasks = {web, sketch}
  MaxFaults = 0
SPECIFICATION Spec
INVARIANTS UserValuesReturnKnown
