CONSTANTS
  FrameCounts = {2, 3}  Hiding = {1}  updateInterval = 32  Gap = 16  LongGap = 240
  ticksPerFrame = 2  ticksPerTransition = 2  MaxCalls = 3  MaxSleeps = 1
  MaxScans = 2  Found = {0, 2}
  SavedLists <- MCSavedLists  Airs <- MCAirs  GoodAir <- MCGoodAir  Limits <- MCLimits
  MaxFaults = 1  MaxEvents = 3
  WAIT = 1  CLOCK = 13  ANSWER = 1  Delays = {2}  RunTime = 1  MaxReply = 2
  Hosts = {1, 2}  MaxInbox = 2  MaxSent = 3
  Resolvers = {"a", "b"}  MaxLookups = 4
  MaxClients = 3  Backlog = 2  Nested = 2  Delay = 3
  Forms <- MCForms  Boundary <- MCBoundary  BUFLEN = 2
SPECIFICATION ProgressSpec
INVARIANTS UiInv ConnectInv
PROPERTIES FramesCorrect ScanCorrect MainTaskCorrect NamesCorrect WebCorrect FilesCorrect
CHECK_DEADLOCK FALSE
