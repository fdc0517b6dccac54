CONSTANTS
  MaxConsole = 2  Foreign = Foreign  MaxLines = 3  MaxInputs = 2
  DISPLAY_WIDTH = 5  Pages = 2  Xs <- MCXs  Ys <- MCYs
  Sizes = {0, 1, 3, 9, 17}  Radii = {1, 2, 3, 5, 11}
  Image <- MCImage  ImageWidth = 3  ImageHeight = 10  Backdrops <- MCBackdrops  MaxDraws = 1
  LogSizes <- MCLogSizes  Letters = {"a", "b"}  MaxWritten = 7
  Wide = {"w", "i"}  CharWidth <- MCCharWidth  MaxWidths = {0, 4, 6, 8}  MaxText = 6
  Characters <- MCCharacters  GlyphWidth <- MCGlyphWidth  lineHeight = 3  firstChar = 32
  SCREEN_WIDTH = 12  SCREEN_HEIGHT = 10  CURSOR = 8  Positions <- MCPositions  Texts <- MCTexts
  PanelWidth = 3  PanelPages = 2  Patterns = {0, 1}  MaxPaints = 2  MaxDisplays = 2
  Columns = 4  PageCount = 2  CHUNK = 2  NIBBLE = 4  Contrasts = {5}
  MaxStrokes = 2  MaxOrders = 1  MaxInits = 2
  MaxPrints = 6
  Levels = 8  RedMost = 4  LedColors = {7}  Brightnesses = {0, 2, 7}  numLEDs = 2  MaxSetLeds = 2
  ByteLevels = 8  StripTypes <- MCStripTypes  StripLengths = {1, 2}  StripPins = {0, 1}
  Shades = {0, 7}  StripLevels = {0, 4, 7}  MaxStripCalls = 4  MaxStripFaults = 1
  I2C_BUFFER_LENGTH = 2  ReadSizes = {1, 3}  MaxBytes = 3  MaxRequests = 3  WirePins = {4}
  Namespaces = {"n", "m"}  Keys = {"k"}  Items <- MCItems  NoItem = NoItem
  MaxChanges = 2  MaxRestarts = 1
  StaConfs <- MCStaConfs  ApConfs <- MCApConfs  Octets = {4, 250}  MaxRadioCalls = 2  MaxErrors = 1
  Handlers = {"f", "g"}  NetEvents = {"e", "d"}  AllEvents = "MAX"  MaxAdds = 3  MaxDispatches = 2
  Pins = {0, 12}  EthAddresses = {0, 1, 2}  Leased = 2  MaxEthCalls = 3  MaxEthFaults = 1
  ServiceNames = {"http", "ftp"}  Ports = {80}  TextValues = {2}  ServiceLists <- MCServiceLists
  MaxMdnsCalls = 5  MaxMdnsFaults = 1
  Uris = {"/a", "/b"}  Methods = {"HTTP_ANY", "HTTP_POST", "HTTP_PUT"}  HandlerKinds <- MCHandlerKinds  Asks <- MCAsks
  MaxHandlers = 3  MaxAsked = 1
  UNIT = 2  HeaderKeys = {"K"}  Lengths = {0, 3}  RequestLines <- MCRequestLines
  MaxAnswers = 2  MaxHandlerCalls = 2  MaxCuts = 1
  Alphabet <- MCAlphabet  FieldSets <- MCFieldSets  Bodies <- MCBodies
  Objects = {1, 2, 3}  MaxSockets = 2  MaxRetry = 3  WriteSizes = {1, 4}  MaxWrites = 1
  MaxClientsWaiting = 2  MaxConnections = 4  MaxListens = 2  MaxServerFaults = 2
  BUFSIZE = 2  Peers = {"a", "b"}  Group = "g"  None = None  DatagramSizes = {0, 3}
  MaxOpens = 1  MaxPackets = 1  MaxBytesOut = 3  MaxReceived = 2  MaxSendFaults = 1
  SECTOR = 2  SIZE = 4  FLASH = 9  Streams <- MCStreams
  MaxStreams = 2  MaxUpdateCalls = 4  MaxUpdateFaults = 1
SPECIFICATION ServicesSpec
INVARIANTS ConsoleInv StringsInv ScreenInv BusInv FlashInv RadioInv RequestInv JoinInv SocketsInv
PROPERTIES ShownAsAsked
CHECK_DEADLOCK FALSE
