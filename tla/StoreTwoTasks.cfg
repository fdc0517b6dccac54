\* The web task with its pages and the sketch, on the same keys.
CONSTANTS
  K = 1
  LateKeys = {moduleID}
  ModuleID = moduleID
  DefaultModuleID = v1
  PlainKeys = {}
  Values = {v1}
  Default = Default
  None = None
  Web = web
  Tasks = {web, sketch}
  MaxFaults = 1
SPECIFICATION Spec
INVARIANTS IInv SettingsReturnKnown QuietAgrees PageSaved PageShows
