\* A short file that is not a firmware: nothing else goes wrong.
CONSTANTS
  SECTOR = 4
  SIZE = 8
  CHUNK = 2
  Files <- ShortFiles
  Hazards = {}
  MaxUploads = 1
  MaxHazards = 0
SPECIFICATION Spec
INVARIANTS PartialNotBootable
