\* Everything that can go wrong: Flash errors and clients that go away.
CONSTANTS
  SECTOR = 4
  SIZE = 8
  CHUNK = 2
  Files <- AllFiles
  Hazards = {"power", "alloc", "erase", "program", "enable", "activate", "disconnect"}
  MaxUploads = 3
  MaxHazards = 2
SPECIFICATION Spec
INVARIANTS UpdateInv NeverBricked PartialHasCause RunsComplete ReadyForNext
PROPERTIES RunningUntouched
