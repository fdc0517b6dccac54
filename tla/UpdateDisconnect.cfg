\* A client that goes away in the middle of an upload, and a second upload.
CONSTANTS
  SECTOR = 4
  SIZE = 8
  CHUNK = 2
  Files <- GoodFiles
  Hazards = {"disconnect"}
  MaxUploads = 2
  MaxHazards = 1
SPECIFICATION Spec
INVARIANTS PartialNotBootable
