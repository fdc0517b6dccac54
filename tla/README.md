# Formal model of NefryLibrary

NefryLibrary is the Arduino library of the Nefry BT board (ESP32). It gives a
sketch saved Wi-Fi networks and a store of settings in Flash, a web server with
configuration pages, a console and the upload of sketches, a display, and the
drivers these stand on. This directory holds TLA+ modules of that logic, the TLC
runs that check them and TLAPS proofs of what the runs check.

## 1. Inventory

The board runs several FreeRTOS tasks: the main task (`nefry_init`, then the
sketch and `nefry_loop`), the web task (`NefryWebServer.run` and `NefryWeb.run`,
about every 10 ms), the switch task (`pollingSW`), LED and display tasks, and the
task that delivers network events. The board core that starts them is not in the
repository. Hardly any state of the library is protected by a lock. Whatever a page does
happens in the web task.

| Part | Source | State | Hard behaviour | Modules |
|---|---|---|---|---|
| Saved Wi-Fi list | NefryWiFi.cpp, NefryDataStore.cpp | five networks; ten keys in Flash | a save is ten commits; two tasks; restarts in a save | `NefryWiFiList`, `NetworkList` |
| Sketch upload | NefryUpdate.cpp, Updater.cpp | UpdateClass; two partitions; which one starts | power cuts, Flash errors, clients that leave | `FirmwareUpdate` |
| Updates from a stream | Updater.cpp, Update.h | the same, with size and MD5 | streams that are short, long or late; rollBack | `UpdateStream` |
| Data store, value pages | NefryDataStore.cpp, NefryConfig.cpp | caches, their flags, NVS | two tasks; flags set before the read | `NefryDataStore` |
| Start and restart | Nefry.cpp, NefryWebServer.cpp, NefryWeb.cpp | boot mode, switch, BootSelector, restart timer | presses at any time; cuts | `NefryBoot` |
| Main loop | Nefry.cpp | rounds, the report, ndelay | millis() wraps; a silent server | `NefryLoop` |
| Web console | NefryConsole.cpp | ring of lines, two counters, an input | two printing tasks at the ring's limit | `NefryConsole` |
| Frame user interface | OLEDDisplayUi.cpp | frames, transition, a clock of 8 bits | calls of the sketch inside a transition; a slow caller | `OLEDDisplayUi` |
| Display | OLEDDisplay.cpp, drivers, NefryDisplay.cpp | frame buffer, copy of the panel, log, dialog | drawing beside a transfer; masks at page borders | `OLEDDrawing`, `OLEDWriting`, `SSD1306Wire`, `OLEDPanels`, `NefryDisplay` |
| LED strip | Adafruit_NeoPixel.cpp, Nefry.cpp | scaled colours, brightness, length, pin | rescaling beside setLed of another task | `Adafruit_NeoPixel` |
| I2C bus | Wire.cpp | queues and buffers | queued transmissions point into buffers | `TwoWire` |
| Preferences | Preferences.cpp | NVS below it | a put fails at the commit; a get asks twice | `Preferences` |
| Wi-Fi radio | WiFiGeneric.cpp, WiFiSTA.cpp, WiFiAP.cpp | mode, interfaces, addresses, SmartConfig | failing driver calls; the event task beside a call | `WiFiRadio` |
| Network events | WiFiGeneric.cpp | list of callbacks | callbacks that change the list | `WiFiEvents` |
| Wi-Fi connection | NefryWiFi.cpp, WiFiMulti.cpp, WiFiScan.cpp, WiFiGeneric.cpp | attempts, status, scan flags, look-ups | events race with callers; shared flags | `NefryConnect`, `WiFiScan`, `HostByName` |
| Ethernet, mDNS | ETH.cpp, ESPmDNS.cpp | pins, addresses; services, results | calls that fail half-way | `ETHClass`, `MDNSResponder` |
| Captive-portal DNS | DNSServer.cpp | the header of the last request | lost, empty and strange datagrams; no memory | `DnsServer` |
| Web server | ESP32WebServer.cpp, Parsing.cpp, detail/ | client, handlers, headers, arguments, upload | nested handleClient; what one request leaves for the next; browsers that pause or leave in an upload | `WebServer`, `RequestHandlers`, `WebResponse`, `WebArguments`, `UploadForm`, `UploadPromise` |
| TCP and UDP | WiFiClient.cpp, WiFiServer.cpp, WiFiUdp.cpp | shared handles, sockets, packets | copies; writes in pieces; failing calls | `WiFiClient`, `WiFiServer`, `WiFiUdp` |

How the parts interact: pages (web task) and sketch (main task) call the same
setters; the Wi-Fi list and the data store write NVS keys through Preferences; pages that
changed something arm the restart timer of the web server, and `nefry_init` reads
everything back from Flash at the next start; the upload restarts the board
itself. `NefryConnect` uses scans, whose own concurrency is in `WiFiScan`; the
upload's chunks, of which `FirmwareUpdate` takes any, come from `UploadForm`. `WebServer` has of
the reader of a form what the web task depends on: whether it returns (`Returns`).

## 2. Modules

Each module keeps the names of the source; its header says which functions it
stands for and what is external. `PROJECT.json` maps every definition to its
lines. One action is one access to state that two tasks share, one operation of Flash or
of a driver that may fail, or one call of the library where nothing can come
between. Operators called a mutant in their comment are faulty variants of the
definition after them; no specification uses them: they show that the properties
notice such a fault. History variables, named in the comments, record what a property
has to compare with (the bytes written, the calls made); no action reads one but
to write another.

**NefryWiFiList.** `list[i]` is `_nefryssid[i]` and `_nefrypwd[i]`; `connectSSID` and
`connectPass` are the keys in Flash. An edit in memory (with the calls it makes)
is one action; `saveWifi` is one action per key. `PutFails` is a write whose error
`saveWifi` ignores. `Boot` is `dataCache` after a restart, which can come at
every point. `origin` and `sync` are history: the slot an entry came from, and
whether edits ran beside a save. `/delete_wifi` reads `arg(i)`, as the code does.
`NetworkList` is what the list promises, an abstract first-in first-out list that is
stored and reloaded; `ListOf` and `Listed` are the mapping.

**FirmwareUpdate.** The group `updater` is UpdateClass, `parts` the two partitions.
A unit of data remembers the file and the position it came from, so that a mixture can be told from an image;
the first stands for the magic byte too, which `_writeBuffer` holds
back and `_enablePartition` writes. A Flash operation is one action, and the power
can go between two. `mishaps` is history: which of two flaws (section 6) a run has
met. `PartialNotBootable` is the promise as a reader would state it, which those two break;
`PartialHasCause`, `RunsComplete` and `ReadyForNext` say that nothing else does.

**NefryDataStore.** A get is `Get` (the flag), `Read`, `Fill`, `Return`; user values
are flagged in between, before the read, ModuleID and BootSelector after it, others
not at all. A set is `Set`, `SetFlag`, `Put`, which may fail. /config and
/set_config loop over the user values; the fields a page sends are those an
earlier page was served with (`form`). `failed` and `contested` keys are history: the
properties of cache and pages are stated for keys that met neither.

**NefryBoot.** `initStep` is the position of `nefry_init`; `pollingSW` is two actions
because it reads the pin twice. `Run` and `Serve` are one run of the web task without
and with a request. A start ends in a `Restart`.

**MCServices** composes the parts that offer something to a sketch: `NefryConsole`,
the display's five modules, LEDs, I2C, `Preferences`, `UpdateStream`, `WiFiRadio`,
`WiFiEvents`, `ETHClass`, `MDNSResponder`, the web server's handlers, headers and
arguments, and the three modules of sockets. **MCProgress** composes those that
wait for something: `OLEDDisplayUi`, `WiFiScan`, `NefryConnect`, `NefryLoop`,
`DnsServer`, `HostByName`, `WebServer`, `UploadForm`. The parts of a composition share no
state (where one calls another, the caller's module has what it needs of it), so every
property is a property of one part, and the state space of the composition would be a
product that adds nothing: `component` picks the part that moves, and the others
stay in an initial state. That is every state of every part. Parts that have several
initial states have one only while another is explored.

## 3. Runs

Every run is `tlc -config X.cfg M` for the module M named in the second column, and
ends within five minutes.

| Run | Module, cfg | What it shows |
|---|---|---|
| wifi_list_two_tasks | MCNefryWiFiList, WiFiListTwoTasks | pages and sketch edit and save one list, with a restart at any write: the inductive invariant `IInv`; no network that was saved and is still listed is lost (`NoSurvivorLost`); a save that ran alone leaves Flash equal to the list (`SavedAsListed`) |
| wifi_list_sketch | MCNefryWiFiList, WiFiListSketch | the sketch on three slots with gaps, unnamed networks, a restart and a failed write: it implements `NetworkList` (`KeepsNetworkList`); each such mishap tears at most one SSID from its password (`TornBounded`) |
| wifi_list_delete | MCNefryWiFiList, WiFiListDelete | violation of `DeletesOnlyChecked`, section 6 |
| update_faults | MCFirmwareUpdate, UpdateFaults | three uploads of good, short, long, empty and foreign files, and two of: power cut, failed allocation, erase, program, enable, activation, client that leaves. The partition the board runs from is never written (`RunningUntouched`), it can always start (`NeverBricked`), an incomplete image is bootable for two known reasons only (`PartialHasCause`), an update that claims success runs a complete image (`RunsComplete`), a failed upload does not block the next (`ReadyForNext`); `UpdateInv` is the inductive invariant |
| update_short_file, update_disconnect | MCFirmwareUpdate | violations of `PartialNotBootable`, one for each of the two reasons |
| store_two_tasks | NefryDataStore, StoreTwoTasks | a get returns a value that was stored (`SettingsReturnKnown`); cache and Flash agree on a key nobody disturbed (`QuietAgrees`); a page shows (`PageShows`) and saves (`PageSaved`) what it should; `IInv` |
| store_user_values | NefryDataStore, StoreUserValues | violation of `UserValuesReturnKnown` |
| boot_starts | NefryBoot, BootStarts | a press is reported once (`PressReportedOnce`), write mode has a press or a stored request as its cause (`WriteModeHasCause`) and a stored request decides (`AskDecides`); a restart that was asked for comes (`RestartComes`), a request for write mode is served or lost to a cut (`AskServed`); `IInv` |
| boot_mode | NefryBoot, BootMode | violation of `BootModeAgrees` |
| services | MCServices, Services | the parts a sketch calls, below |
| progress | MCProgress, Progress | the parts that wait for something, below |

The properties of the two compositions are conjunctions of the parts':

| Property | Parts | What must hold |
|---|---|---|
| `ConsoleInv` | NefryConsole | the page shows the newest lines in order and loses only the oldest; an input reaches the sketch once |
| `ScreenInv` | `DrawingInv`, `LogInv`, `TextInv`, `DialogInv`, `PanelInv`, `PanelsInv` | shapes hit the pixels of their geometry and no others; the log is the end of what was written, each character in the row of its line; the rows of a text leave out only what they are broken at, and fit; the dialog shows the latest lines; what is drawn beside a transfer comes with the next; every driver leaves on its panel what the buffer holds, obeys the commands and sends chunks the bus can carry |
| `StringsInv` | OLEDWriting | a string's characters are drawn whole, in order, where its alignment puts them |
| `BusInv` | `StripInv`, `ColorsInv`, `WireInv` | colours survive a change of brightness within its rounding and what is read back is what was set; I2C's queue points at data that is still there |
| `FlashInv` | `PreferencesInv`, `UpdateStreamInv` | a put that reported success survives a restart, a get is whole or its default; an update is activated only when complete and of the right MD5 |
| `RadioInv` | WiFiRadio | interfaces, networks, addresses and SmartConfig as the calls asked, whichever fails |
| `RequestInv` | `HandlersInv`, `ResponseInv`, `ArgsInv` | a request comes to the first handler that fits, a response is well framed, an argument is what the browser encoded |
| `JoinInv` | `EventsInv`, `EthInv`, `MdnsInv` | no registration is told of an event twice and, when none was removed, none is left out; Ethernet starts with the wiring and address of the calls that succeeded; mDNS announces what was asked and gives the last query's results |
| `SocketsInv` | `ClientInv`, `ServerInv`, `UdpInv` | a socket is open as long as an object holds it and no longer; what is written arrives as a prefix; every client is handed out once and in order; packets go out whole and are read in order |
| `ShownAsAsked` | Adafruit_NeoPixel | an LED shows what an undisturbed setLed asked for: green and blue exactly, red as 150 parts in 255 of it (Nefry.cpp:308), but for what the roundings lose (`RedKept`) |
| `UiInv`, `FramesCorrect` | OLEDDisplayUi | frames exist, direction and ticks; a transition ends, on its goal, the indicator follows, no frame is left out for ever |
| `ConnectInv` | NefryConnect | gives up at the third failure and not before, picks the strongest saved network, and is connected when it says so |
| `MainTaskCorrect` | `Reconnects`, `LoopCorrect` | it gets back to a saved network in range; the loop goes on, a delay ends and not too early, a report is sent once |
| `ScanCorrect` | WiFiScan | a scan that was started is under way, its records are there, it ends - but for the races of two callers, and of the event with a caller (WiFiScan.cpp:83, 108), which the histories `contended`, `early` and `outrun` take out |
| `NamesCorrect` | `DnsCorrect`, `HostCorrect` | the portal answers what it was asked, until a datagram is not read (`Deaf`); look-ups end, and with an answer to them when they do not overlap |
| `WebCorrect` | WebServer | an answer belongs to its request; everybody is answered and the restart comes, unless an upload keeps the web task for ever (`TaskHeld`) |
| `FilesCorrect` | `NothingLost`, `UploadCorrect` | the callback gets the file byte by byte, the reader implements `UploadPromise`, and comes to an end; what keeps it for ever is named (`UploadEnds`) |

Each property has at least one mutant of a mapped definition that breaks it, in a
composition one for each of its conjuncts.

**Bounds.** They are the constants named `Max...` and the sizes. A Wi-Fi list of two
slots (three for the sketch alone) has every case of `sortWifi`: full, empty, a gap before and behind
an entry. A sector is two chunks as in the code (4096 and 2048 bytes), a partition two sectors, so that
an image ends before, at and behind every border; three uploads are one that fails, one on what it
left, and one on the other partition. One user value (K = 1) stands for twenty, as no two keys
share state but in the page's loop, whose bounds the proofs have for every K. The
console's ring has two places, so that three lines fill it and go round, a page shows two of them in their order, and an
input can follow another one that was read or not. `CLOCK` = 13 and `updateInterval` = 32
make the clocks of 32 and 8 bits wrap in a run, the point of those parts. Buffers of 2 to 4
units (`BUFSIZE`, `I2C_BUFFER_LENGTH`, `BUFLEN`, `CHUNK`) are filled, overfilled and refilled. Displays of
one or two pages and 3 to 12 columns have shapes that begin before, in and behind a page and leave the screen on
every side; from a radius of 11 on a circle is visibly flattened. A text is broken at widths from 0, where every character
ends a row, to more than it has. Counters of calls, faults, packets and clients allow each hazard to happen at least
once in the middle of the others (`MaxLookups` = 4 also makes `LookupsEnd` finite: each task can start
a look-up at every answer of the other for as long as that lasts).
The theorems of section 5 hold for every bound.

**Deadlock** is checked but in the two compositions: their bounded parts stop when the
last call is made, while a part that should go on has a liveness property.

## 4. Fairness

Weak fairness is assumed only of what the board's scheduler or the world goes on
doing, never of a press, a fault, a client or a call of the sketch:

* `NefryBoot`: the start goes on (`InitStep`, one task, no waiting), and the web task
  calls `NefryWebServer.run` about every 10 ms (`Run`). That is an assumption about the requests: an upload that
  keeps the task (section 6) holds this restart up as well, which `WebServer` models.
* `MCProgress`, each only while its part is explored: `update()` is called in the
  loop (`Update`); an event task runs and a started scan ends (`ScanEvents`, `ScanTask`), as does the
  task that waits for it; the main task goes round (`MainTask`, `LoopTask`) and the clock with it (`LoopTick`);
  the station reports success or failure (`Radio`) and the event task calls back
  (`eventCallback`); `processNextRequest` is called in the loop; the resolver answers or
  times out (`wifi_dns_found_callback`) and the waiting task is woken (`Lookup`); the web task runs
  (`WebTask`), the reader of a form gets bytes or times out (`ParseForm`). Nothing says that a browser goes on
  sending or leaves: `RestartComes` and `EverybodyAnswered` of `WebServer` hold unless an upload keeps the task from some
  time on for ever (`<>[]TaskHeld`).

`Reconnects` holds under the condition it states: the air stays good and nobody
interferes. `LoopGoesOn` assumes 2^32 ms far longer than a round of the loop, and a
unit of the clock long against a round.

## 5. Proofs

Eight modules hold theorems that TLAPS proves for every value of the constants, that is
without the bounds of section 3. Each follows one pattern: a safety property is seldom inductive, so
an inductive invariant states what the code relies on silently between two steps. TLC checks it
first; the proof has one lemma per action, and the last step is
temporal logic alone.

| Module | Theorem | Property | Inductive invariant |
|---|---|---|---|
| NefryWiFiList_proofs | `TypeCorrect`, `InductiveInvariant`, `NeverLosesSurvivor` | `IInv`, `NoSurvivorLost` | `IInv`: the string a save is about to write is the listed one, an entry is never behind the Flash slot it came from, and between saves that slot still holds it |
| | `WritesListed`, `SavesList` | `SavedAsListed` | the same, with an action property for what a save has written so far |
| | `TornIsBounded` | `TornBounded` | `TornIInv` (one task): the torn pairs of the list and of Flash as it will be when the pending password is written are one for each mishap |
| | `ImplementsNetworkList` | `KeepsNetworkList` | `TypeOK` is enough: every action is a step of `NetworkList` or changes nothing |
| NefryDataStore_proofs | `InductiveInvariant`, `SettingsAreKnown` | `IInv`, `SettingsReturnKnown` | `IInv`: a cached setting was stored once, whatever two tasks do |
| | `QuietInvariant`, `CacheAgrees`, `FormIsSaved`, `FormShowsFlash` | `QuietAgrees`, `PageSaved`, `PageShows` | `QuietIInv` (`Exclusive`, `CallInStep`, `QuietAgrees`, `PageInStep`, `PageShows`): how far the call of each task has got, key by key and field by field |
| Progress_proofs | `UpdateStructure`, `UpdateInvariant` | `UpdateInv` | `Structure` (`Framed`, `Aligned`, `InTurn`): what was erased and programmed is a prefix of the partition, in whole sectors and chunks, one step of one call at a time; then that the prefix is copied from the file |
| | `UpdateRunningUntouched`, `UpdateNeverBricked`, `UpdateReadyForNext`, `UpdatePartialHasCause`, `UpdateRunsComplete` | the five properties of the run | the two, and for each what the steps of the boot loader find |
| | `InductiveInvariant`, `PressesCount` | `IInv`, `PressReportedOnce` | `IInv`: presses read and presses on their way are no more than releases |
| | `AskIsDecided`, `WriteModeCaused` | `AskDecides`, `WriteModeHasCause` | `AskIInv`: a request is in Flash until a start has cleared it; `CauseIInv`: the steps that lead to write mode have a cause |
| | `UiInvariant`, `UiCorrect`, `GoalIsReached` | `UiInv` | `UiIInv` (`FramesKnown`, `DirectionKnown`, `GoalKnown`, `TicksInTime`) |
| | `ConnectInvariant`, `ConnectCorrect` | `ConnectInv` | `ConnectIInv`: the count is that of the failures, but for the one the main task has read it for (`CountKnown`); behind each news of an address the station has lost, another event is queued that says so (`AddressKnown`); `SearchKnown` |
| Device_proofs | `ConsoleInvariant`, `ConsoleCorrect` | `ConsoleInv` | `ConsoleIInv` (`CountersKnown`, `Unraced`, `InputKnown`, `ReadOnce`): where each line of the ring is from, and which the page has read |
| Network_proofs | `RadioInvariant`, `RadioCorrect` | `RadioInv` | `RadioIInv` (`CallsKnown`, `ReadyFirst`, `PromisesKnown`, `SmartStarting`): what the second task can have changed between the steps of a call |
| Services_proofs | `SocketsCorrect` | `SocketsInv` | `ClientInv`, inductive as it is; `ServerIInv`: the connections queue in the order they came (`InTurn`); `UdpIInv`: what a packet's remote end is (`UdpKnown`) |
| | `JoinCorrect` | `JoinInv` | `EventsIInv`: the ids in the list grow, those called lie before the place the dispatch has got to (`ToldInTurn`); `EthIInv`; `MdnsIInv`: the responder's services are those the sketch was told of (`Agree`) |
| | `FlashCorrect` | `FlashInv` | `PreferencesIInv`: a get between its calls has seen what is there, and something of the length it was told (`ReadingKnown`); `StreamIInv`: an update holds the next units of its stream (`FromStream`), has written those before them (`WrittenTo`), at the start of a sector (`InSectors`), and the MD5 to compare is that of some image (`TargetKnown`) |
| | `BusCorrect` | `BusInv` | `StripIInv`: while colours are scaled anew, those before the next LED keep the new brightness and the others the old one (`DimEnough`); `ColorsIInv`: each byte is within the brightness and those of a coloured LED are its colour's (`BytesKnown`, `ColoredKnown`); `WireIInv`: the bytes of each queued write lie below those of the next (`InBuffer`) |
| | `LedShown` | `ShownAsAsked` | `StripIInv`: what each step of an undisturbed call has left (`CallKnown`); for red, that two roundings down lose less than one level each (`RoundedTwice`) |
| | `RequestCorrect` | `RequestInv` | `HandlersIInv`: the handlers are linked in the order they were made, but for the one that is being added (`Chained`), and the walk of a request has passed those that do not take it (`Walked`); `ResponseIInv`: what is left over, what a response has promised and the bytes it means, between any two calls of a handler (`UnsentKnown`, `BetweenRequests`, `BytesMeant`); `ArgsIInv`: what was read, has arrived and is still coming is together what the browser sent |
| | `ScreenCorrect` | `ScreenInv` | `DrawingIInv`: a bit of the buffer is set where its pixel is lit, and a circle just drawn is the points of its radius around its centre; `LogIInv`: it has lines whenever it has room; `TextIInv`: the locals of the loop of `drawStringMaxWidth` after each turn (`TurnKnown`); `DialogIInv`: which lines have moved while `printDialog` moves them (`LinesKnown`), and which the drawing has taken (`CanvasKnown`); `PanelIInv`: up to where, and of which bytes, the copy is the frame buffer, and of which it is the panel (`BackKnown`); `PanelsIInv`: the controller awaits no byte of a command, and is a controller the drivers can be used with |
| Request_proofs | `EncodeDecoded`, `FormArrives` | (of `urlDecode` and `_parseArguments`) | no state: what the loops make of every text and of every form |
| Display_proofs | `LineNearest`, `CircleOnTheRing`, `DiscFull` | (of `drawLine`, `drawCircle` and `fillCircle`) | no state: what the loops come to for every length, slope and radius |

**The argument in the hardest places.** *Update:* that the running partition is never touched needs only
which partition a call works on; that a complete image is what was sent needs the place in
the file of every unit, by chunk while it is buffered and by sector once it is programmed. *Store:* the cache is
wrong between the flag and the fill, so the invariant says of every step of a get or set what it still has to put
right, and only for keys one task is in. *Events:* `removeEvent` goes on with its index after it
erased an element, so what it leaves is a recursive function. That the function exists, and that what it leaves
is in the order of the list and holds no entry the list did not repeat, is proved by the least
index where it would not (`LeastNatural`, `ErasingExists`, `ErasedKeeps`). *Updates from a stream:* `end(true)` ignores a
failure to write its last buffer, which is harmless only where an MD5 is compared: the units added before would have to be the
whole image, and then the buffer would be empty (`MD5IsOfImage`). *Strips:* what the code
gains by dividing by one less than it multiplies with is that a colour scaled from brightness a to b stays below b, whatever
the quotients lose on the way (`RescaledUnder`); that the packed colour holds its four channels is arithmetic in the base of
the byte (`Unpacks`), and needs that none of them carries.
*Saved list:* the k-th network of the abstract list is in the used slot with k - 1 used slots below it (`Before`, `ListingIs`); that such
a slot exists and is the only one is a pigeonhole argument (`BeforeAll`), and a sort only renumbers the slots and keeps their order
(`SortLists`). *Choice of a network:* the loop over a scan is a recursive function; that it holds a strongest of the networks it
has looked at is proved by the least place where it would not (`BestFound`).
*Requests:* the loops of `_collectHeader`, `sendContent_P`, `urlDecode` and `_parseArguments`, and those of the browser,
are recursive functions over their turns. That such a function exists, and that what holds at its start and is kept by every turn holds
at its end, is proved once, by the least turn that would fail (`LoopExists`, `EveryTurn`). Then the turn that follows the i-th
sign of a value reads that sign (`EncodeDecoded`), the i-th turn of `_parseArguments` reads the i-th field where the browser has put it
(`ArgumentPlaced`, `ParsedIs`), and a body that is put behind the query reads like more fields of one form (`ListingJoins`, `JoinedIs`). *Display:* a point of a row or column of a page is a bit of a byte, and the masks of a call are exactly
the bits of its part of the page (`MaskOfLine`, `MaskOfImage`). The error of a line after k steps along is known in closed form, and its sign says
which of two points is nearer (`ErrorKnown`, `StepsNearest`). The error of a circle is not the textbook's (section 6); it is a
polynomial of the point and the rounds before, which keeps x² + y² between (r - 2)² and (r + 1)² (`RoundKept`, `OnTheRing`). A full row of text
leaves a remainder that fits, or a word that no row would hold (`TurnKnown`). *Transfer:* `buffer_back` holds the frame
buffer where the comparison has been and the panel where the sending has not, but for what was drawn meanwhile.
*Drivers:* where a controller stands after j bytes is known: the window, row by row, is filled up to the j-th place, and the next byte goes there
(`WindowPlaced`, `RowBytePlaced`). That is independent of the chunks the bytes come in, so one lemma serves the bus, SPI
and Brzo (`DataArrives`); the box around the bytes that differ contains them (`BoundsAre`), and the others are on the panel already (`StreamShown`).

**Assumptions.** Each module names its own, and TLC evaluates them in every run. Most say only that
bounds are natural numbers and that a mark for "none" is no proper value. Those with content:
`SizeAssumption`, a sector is a whole number of chunks and a partition of sectors (4096, 2048, and
partitions of 64 KB pages); `UiAssumption`, 1 to 127 frames and an interval of 1 to 255 ms, as the code's
`uint8_t` and `int8_t` have them; `ConsoleAssumption`, a ring of at least one place; `ConnectAssumption`, the signals of a scan fit `int8_t`, as
the radio's records hold them; `RadioAssumption`, host
octets 1 to 254; `EthAssumption`, 0 is the address for "none" and no lease; `MdnsAssumption`, a
query's results are pairs of host and port, and the sketch does not take the names `arduino` and `workstation` for its own services;
`UdpAssumption`, a multicast group is no peer; `StreamAssumption`, a partition is a whole number of
sectors and the Flash ends below the bound of `size_t`; `ColorsAssumption`, the channels of an LED have bytes of their own, as in the 30 orders of
Adafruit_NeoPixel.h:54-89; `ArgsAssumption`, the names of fields have no `&` and no `=` (they are not encoded, and none of the pages has
one that would have to be), a body that is no form has no `&`, `%` or `+`, has `=` only if it starts with a bracket, and no field is called
`plain`; `KeysAssumption`, settings and user values are different keys and nothing stored is the empty mark. None
bounds a number of tasks' steps, calls, faults or restarts: `MaxCuts` and its like are any
natural number.

**What is only model-checked.** Liveness (`RestartComes`, `AskServed`, `FramesCorrect`,
`ScanCorrect`, `MainTaskCorrect`, `NamesCorrect`, `WebCorrect`, `FilesCorrect` and what they are made of), since
the prover has neither fairness nor `ENABLED`.
For lack of a proof: `StringsInv`. What `utf8ascii` and
`drawString` make of a string are folds, filters and a sort of sequences that run within
one step; the prover cannot use the induction they are defined by, and the pieces a string is cut into are of no
state that an invariant could speak of.

## 6. Differences found

Five runs are expected to find a violation:

* `DeletesOnlyChecked` (NefryWiFi.cpp:203): /delete_wifi takes the i-th argument for slot i,
  but a browser sends the checked boxes only; with k boxes checked, the first k networks go.
* `PartialNotBootable`, twice. A file whose only buffer fails or lacks the magic
  byte (Updater.cpp:258): `end(true)` ignores `_writeBuffer` and enables the partition. A client
  that leaves (NefryUpdate.cpp:61): the update stays running, and the next file goes behind the partial one.
* `UserValuesReturnKnown` (NefryDataStore.cpp:153): the flag is set before the read,
  and another task gets an empty value.
* `BootModeAgrees` (Nefry.cpp:57): the mode is decided twice, and the access point follows the first.

Seen while modelling, without a run of their own. The models contain them, and the properties
state what holds in spite of them:

* Pages: /set_config clears the user values its page did not show (NefryConfig.cpp:69);
  the Restart button of /module asks for `reset`, the page is `/Reset` (NefryConfig.cpp:135, NefryWeb.cpp:92).
* Start: `ndelay` ends early when `millis()` wraps (Nefry.cpp:203); `beginLed` shows a strip whose buffer is freed (Nefry.cpp:298).
* Connection: a status read right after `WiFi.begin` may be the last attempt's; an attempt still on its way after
  10 s counts as failed; a strongest network with a wrong password is chosen again and again;
  with an empty password the passphrase pointer is not initialised; `WiFiMulti::run` ignores what `getNetworkInfo` returns.
* Scans that overlap: the index test `i > _scanCount` lets one past the array through (WiFiScan.cpp).
* Look-ups: `hostByName` returns 1 for an asynchronous look-up that failed, `_dns_busy` is one
  flag for all tasks, and a late answer is written to a caller that has returned.
* Events: `removeEvent` skips the element behind one it erased; a callback that removes itself makes
  the next one miss the event.
* Radio: `softAPdisconnect(true)` inverts its result; the lease range of `softAPConfig` wraps for a last octet of 245 and
  more; `mode()` stores the mode before the radio starts, so a failed start is not retried; `enableSTA` and
  `enableAP` of two tasks lose an update; `smartConfigDone()` is false again after LINK_OVER; `config()` that fails half-way leaves
  the static flag with address 0.
* Ethernet: a refused `begin` moves the pins until the next; `config()` that fails half-way leaves
  `staticIP` stale. mDNS: every `begin()` registers its callback again; a query with empty parameters keeps old results.
* Updates from a stream: a stream longer than announced overruns the size (Updater.cpp:319); `write(T&)` called with nothing remaining
  erases a sector of the finished image (Update.h:122-138), unseen by the MD5; `writeStream` cannot continue after `write()`
  although Update.h:53 says it takes the remaining bytes, and gives up when nothing has arrived yet;
  an MD5 target survives `begin()`; after `rollBack`, `begin` overwrites the selected partition; `end(true)` whose last write fails turns a
  SPIFFS update's first byte into the magic byte.
* Preferences: `remove()` and `clear()` never commit; `getDouble` of a stored float mixes halves; `putString("")` returns what a failure does.
* Web server: a handler that sends nothing leaves its header lines to the next response; `sendContent_P` ignores short writes;
  `onFileUpload` after `on()` has no effect on it; a multipart PUT never reaches its upload function (`canUpload` asks for POST); HEAD is parsed as GET;
  names of arguments are not decoded, and bytes behind a POST body are read into it.
* Upload form: a near miss of the boundary that overlaps its beginning makes server and browser wait for each other (Parsing.cpp:507-516). Lines are
  read for one second each in loops that nothing but the right line ends (365-374, 410-416, 497-505): a browser that leaves between two
  files, or a header or last line that comes in pieces, keeps the reader for ever; a browser that stops in a file and stays keeps it as
  long (335-341). Either way the web task answers nobody and does not count down to a restart (NefryWebServer.cpp:26).
* DNS: an error reply echoes the query's header; an empty datagram, or one the server has no memory for (DNSServer.cpp:63-65), makes it deaf.
* Sockets: `operator=` of a client on itself closes it; `write` returns 0 after a failing `select` although bytes went out; `connected()` reads a stale
  `errno`; an accepted or a listening socket leaks when a later call fails; `end()` leaves `hasClient`'s
  connection, which `begin()` forgets; a UDP write past 1460 bytes becomes two datagrams whose first may fail unseen; `parsePacket` between `beginPacket` and `endPacket`
  redirects the packet.
* I2C: `rxQueued` is 0 at every `requestFrom` although Wire.cpp:178 says several may be pending; `available()` reports the size of a failed
  request; `endTransmission` without a begin flushes the queue.
* LEDs: `setLed` dims red alone, to 150 in 255; brightness 0 loses every colour; dim and raise may leave a colour brighter; `numBytes` has 16 bits.
* Display: `drawCircle` counts its error with the coordinates already moved on (OLEDDisplay.cpp:143), so that circles from a radius of 11 on
  lose more than a pixel between the axes: an earlier `CircleRound` allowed one, which TLC never refuted on small radii and the proof did.
  `minBoundY == ~0` compares a `uint8_t` with an int and is never true, so five of six drivers send commands for an
  unchanged buffer; `SH1106Brzo` opens a transaction in a transaction and `SSD1306Brzo` sends an empty last packet; an image that begins above the display loses rows; `fillCircle` leaves out the last pixel of each
  row; INVERSE shapes hit some pixels twice; katakana GA is drawn as the Euro sign; `cursorX` wraps at 256; empty lines count for CENTER_BOTH but are not
  drawn; the log's dropped line stays counted.
* Frames: the highlight is off by one for frame 0 from right to left; `switchToFrame` of the current one does not stop a
  transition; a caller every 256 ms never ticks; `setTargetFPS` overflows below 4.

## 7. Not modelled

What each part leaves out is noted with it in `PROJECT.json`. In short: HTML and the texts of pages
and errors, fonts and bit patterns of LEDs, circles of radius 0, WPS and IPv6, host names, the files of the static
handler, `WiFiClientSecure`, `Analytics`, sleep, the progress bar and overlays, and getters without state. Vendored
and generated code (fonts, the ESP-IDF below the drivers, lwip, NVS) is external: its calls may fail
wherever the code can see it, and its answers are free. What two tasks do to one `String` or
`std::vector` at once (NefryDataStore.h:58, the list of callbacks) is undefined behaviour with no outcome a model
could enumerate.

The models assume that a header's text in `WebResponse` is never cut short, that a strip's bytes
fit the 16 bits of `numBytes`, that 2^32 ms is far longer than a round of `nefry_loop`, and
that `SIZE_T` in `UpdateStream` stands for 2^32.

## 8. Plan

What is left to prove is `StringsInv`: its folds would be written as recursive functions, like the loops of requests,
and their turns treated as in `Request_proofs`.
