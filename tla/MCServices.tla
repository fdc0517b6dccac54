----------------------------- MODULE MCServices -----------------------------
(* TLC instance of what the library offers a sketch and its own tasks: the  *)
(* web console, the display from the text down to the bytes that go to the  *)
(* panel, the strip of LEDs, I2C, the preferences, the Wi-Fi radio and its  *)
(* events, Ethernet, mDNS, the handlers of the web server, what it answers  *)
(* and what it reads of arguments, TCP and UDP, and updates from a stream.  *)
(* These parts share no state: each is explored from its own initial state  *)
(* with the others left alone, which is every state of each of them.        *)
EXTENDS NefryConsole, OLEDDrawing, OLEDWriting, SSD1306Wire, OLEDPanels,
        NefryDisplay, Adafruit_NeoPixel, TwoWire, Preferences, WiFiRadio,
        WiFiEvents, ETHClass, MDNSResponder, RequestHandlers, WebResponse, WebArguments,
        WiFiClient, WiFiServer, WiFiUdp, UpdateStream

VARIABLE component   (* the part that is explored                            *)

(* Coordinates before, in and behind a display of 5 columns and 2 pages.    *)
MCXs == {-7, -1, 0, 3, 5}
MCYs == {-3, 0, 6, 9, 16}
(* An image whose last page is not full, and two pictures to draw on.       *)
MCImage     == {<<0, 0>>, <<1, 2>>, <<2, 6>>, <<1, 7>>, <<0, 8>>, <<2, 9>>, <<1, 5>>}
MCBackdrops == {{}, {1, 4, 5, 9, 10, 15}}
(* Lines and characters of the logs.                                        *)
MCLogSizes == {<<2, 2>>, <<2, 3>>, <<3, 1>>, <<1, 3>>}
(* A wide and a narrow letter; a blank or a hyphen is one pixel.            *)
MCCharWidth == [c \in TextChars |-> IF c = "w" THEN 3 ELSE IF c = "i" THEN 2 ELSE 1]

(* i, the degree sign, e with acute, the Euro sign, the hiragana A; the     *)
(* katakana GA, which ends like the Euro sign and is drawn as one; newline. *)
Char(bytes, code) == [utf8 |-> bytes, code |-> code]
MCCharacters ==
  {Char(<<105>>, 105), Char(<<194, 176>>, 176), Char(<<195, 169>>, 233), Char(<<226, 130, 172>>, 128),
   Char(<<227, 129, 130>>, 0), Char(<<227, 130, 172>>, 128), Char(<<10>>, 10)}
MCGlyphWidth == [c \in 1 .. 255 |-> IF c = 105 THEN 2 ELSE IF c = 128 THEN 5 ELSE 3]
MCPositions  == {<<4, 0>>, <<-3, 2>>, <<12, 7>>, <<5, 5>>}
(* All strings of up to three characters, and some of three lines: of one   *)
(* width, with a narrow or an empty line between.                           *)
MCThreeLines ==
  LET row == {<<Char(<<105>>, 105)>>, <<Char(<<194, 176>>, 176)>>, <<Char(<<105>>, 105), Char(<<195, 169>>, 233)>>}
      end == <<Char(<<10>>, 10)>>
  IN  {a \o end \o b \o end \o c : a \in row, b \in row \cup {<<>>}, c \in row}
MCTexts == UNION {[1 .. n -> MCCharacters] : n \in 1 .. 3} \cup MCThreeLines

(* GRB and BRG, both without white, and GRBW.                               *)
MCStripTypes == {[w |-> 1, r |-> 1, g |-> 0, b |-> 2], [w |-> 2, r |-> 2, g |-> 1, b |-> 0],
                 [w |-> 3, r |-> 1, g |-> 0, b |-> 2]}

(* A number, strings of 0 to 2 characters, a blob of 2 bytes.               *)
Item(type, data) == [type |-> type, data |-> data]
MCItems == {Item("int", <<1>>), Item("string", <<>>), Item("string", <<1>>), Item("string", <<1, 2>>),
            Item("blob", <<2, 3>>)}

(* One field with any value of up to three characters, and two fields, with *)
(* the same or different names.                                             *)
Values(n)   == UNION {[1 .. k -> {"a", " ", "&", "=", "%", "+"}] : k \in 0 .. n}
(* The characters of the forms, bodies and codes.                           *)
MCAlphabet == {"a", "b", "s", "p", "r", "n", "plain", " ", "&", "=", "%", "+", "?", "{", "[",
               "2", "3", "5", "6", "B", "D"}
MCFieldSets ==
  {<<[key |-> <<"s">>, value |-> v]>> : v \in Values(3)} \cup
  {<<[key |-> <<"s">>, value |-> v], [key |-> k, value |-> w]>> :
     v \in Values(1), w \in Values(2), k \in {<<"s">>, <<"p">>}}

(* Handlers of a page for any method and for PUT only.                      *)
MCHandlerKinds == {[uri |-> "/a", method |-> "HTTP_ANY"], [uri |-> "/a", method |-> "HTTP_PUT"]}
MCAsks  == {[method |-> m, uri |-> "/a", form |-> TRUE] : m \in {"HTTP_POST", "HTTP_PUT"}}

(* Bodies of a POST: none, a form of one field, or anything else.           *)
MCBodies ==
  {NoBody} \cup
  {[form |-> <<[key |-> <<"b">>, value |-> v]>>, text |-> <<>>] : v \in Values(1)} \cup
  {[form |-> <<>>, text |-> t] : t \in {<<"a">>, <<"a", "b">>, <<"{", "a", "=", "b">>, <<"[", "=">>}}

(* Header lines of requests: passwords, a header that is kept, one that is  *)
(* not, and a line without a colon before and behind them.                  *)
Pass(v) == [name |-> Authorization, value |-> v]
KeptKey(v) == [name |-> "K", value |-> v]
MCRequestLines ==
  {<<Pass(1), Pass(2)>>, <<Pass(2)>>, <<KeptKey(1), NoColon>>, <<NoColon, Pass(1)>>,
   <<[name |-> "Host", value |-> 1], KeptKey(2)>>, <<Pass(1), KeptKey(1)>>}

(* Networks to join that differ in their password, access points with and   *)
(* without one.                                                             *)
MCStaConfs == {[ssid |-> "a", password |-> p] : p \in {"p", "q"}}
MCApConfs  == {[ssid |-> "n", password |-> p] : p \in {"p", ""}}

(* What a query for a service may find.                                     *)
MCServiceLists ==
  {<<>>, <<[host |-> "x", port |-> 80]>>, <<[host |-> "y", port |-> 80], [host |-> "x", port |-> 81]>>}

(* A stream that gives the image, more than that, or no firmware.           *)
MCStreams ==
  {[len |-> 3, image |-> 3, firmware |-> TRUE], [len |-> 5, image |-> 3, firmware |-> TRUE],
   [len |-> 2, image |-> 2, firmware |-> FALSE]}

ServiceVars == <<consoleVars, drawVars, logVars, textVars, stringsVars, panelVars, panelsVars,
                 dialogVars, stripVars, colorVars, wireVars, preferencesVars, radioVars,
                 eventVars, ethVars, mdnsVars, handlerVars, responseVars, argVars, clientVars, serverVars,
                 udpVars, streamVars>>

ServicesInit ==
  /\ component \in {"console", "drawing", "log", "text", "strings", "panel", "drivers",
                    "dialog", "strip", "colors", "wire", "preferences", "radio", "events",
                    "ethernet", "mdns", "handlers", "response", "arguments", "client", "server", "udp", "update"}
  /\ ConsoleInit /\ DrawingInit /\ LogInit /\ TextInit /\ StringsInit /\ PanelInit /\ PanelsInit
  /\ DialogInit /\ StripInit /\ ColorsInit /\ WireInit /\ PreferencesInit /\ RadioInit /\ EventsInit
  /\ EthInit /\ MdnsInit /\ HandlersInit /\ ResponseInit /\ ArgsInit
  /\ ClientInit /\ ServerInit /\ UdpInit /\ StreamInit
  (* A part starts in one way only while another one is explored.           *)
  /\ component # "drivers" => driver = "SSD1306Wire"
  /\ component # "strip" => channel = "other"
  /\ component # "wire" => num = 0
  /\ component # "preferences" => namespace = "n"
  /\ component # "radio" => staConf = NoConf /\ apConf = AccessPoint(NoConf)
  /\ component # "response" => _currentHeaders = collectHeaders({})

(* The parts that are not explored stay as they are.                        *)
OthersStay ==
  /\ component = "console" \/ UNCHANGED consoleVars
  /\ component = "drawing" \/ UNCHANGED drawVars
  /\ component = "log" \/ UNCHANGED logVars
  /\ component = "text" \/ UNCHANGED textVars
  /\ component = "strings" \/ UNCHANGED stringsVars
  /\ component = "panel" \/ UNCHANGED panelVars
  /\ component = "drivers" \/ UNCHANGED panelsVars
  /\ component = "dialog" \/ UNCHANGED dialogVars
  /\ component = "strip" \/ UNCHANGED stripVars
  /\ component = "colors" \/ UNCHANGED colorVars
  /\ component = "wire" \/ UNCHANGED wireVars
  /\ component = "preferences" \/ UNCHANGED preferencesVars
  /\ component = "radio" \/ UNCHANGED radioVars
  /\ component = "events" \/ UNCHANGED eventVars
  /\ component = "ethernet" \/ UNCHANGED ethVars
  /\ component = "mdns" \/ UNCHANGED mdnsVars
  /\ component = "handlers" \/ UNCHANGED handlerVars
  /\ component = "response" \/ UNCHANGED responseVars
  /\ component = "arguments" \/ UNCHANGED argVars
  /\ component = "client" \/ UNCHANGED clientVars
  /\ component = "server" \/ UNCHANGED serverVars
  /\ component = "udp" \/ UNCHANGED udpVars
  /\ component = "update" \/ UNCHANGED streamVars

ServicesNext ==
  /\ UNCHANGED component
  /\ \/ component = "console" /\ ConsoleNext /\ OthersStay
     \/ component = "drawing" /\ DrawingNext /\ OthersStay
     \/ component = "log" /\ LogNext /\ OthersStay
     \/ component = "text" /\ TextNext /\ OthersStay
     \/ component = "strings" /\ StringsNext /\ OthersStay
     \/ component = "panel" /\ PanelNext /\ OthersStay
     \/ component = "drivers" /\ PanelsNext /\ OthersStay
     \/ component = "dialog" /\ DialogNext /\ OthersStay
     \/ component = "strip" /\ StripNext /\ OthersStay
     \/ component = "colors" /\ ColorsNext /\ OthersStay
     \/ component = "wire" /\ WireNext /\ OthersStay
     \/ component = "preferences" /\ PreferencesNext /\ OthersStay
     \/ component = "radio" /\ RadioNext /\ OthersStay
     \/ component = "events" /\ EventsNext /\ OthersStay
     \/ component = "ethernet" /\ EthNext /\ OthersStay
     \/ component = "mdns" /\ MdnsNext /\ OthersStay
     \/ component = "handlers" /\ HandlersNext /\ OthersStay
     \/ component = "response" /\ ResponseNext /\ OthersStay
     \/ component = "arguments" /\ ArgsNext /\ OthersStay
     \/ component = "client" /\ ClientNext /\ OthersStay
     \/ component = "server" /\ ServerNext /\ OthersStay
     \/ component = "udp" /\ UdpNext /\ OthersStay
     \/ component = "update" /\ StreamNext /\ OthersStay

ServicesSpec == ServicesInit /\ [][ServicesNext]_<<component, ServiceVars>>

(* What can be seen: shapes, the log and the rows of a text are drawn into *)
(* the frame buffer as they should, the dialog as its lines were printed,   *)
(* and the panel shows the buffer, whichever of the drivers sends it.       *)
ScreenInv == DrawingInv /\ LogInv /\ TextInv /\ DialogInv /\ PanelInv /\ PanelsInv

(* What is kept in Flash: preferences and the other application.            *)
FlashInv == PreferencesInv /\ UpdateStreamInv

(* The strips of LEDs and I2C.                                              *)
BusInv == StripInv /\ ColorsInv /\ WireInv

(* Which handler a request comes to, what the web server reads of its       *)
(* headers and arguments, and what it answers.                              *)
RequestInv == HandlersInv /\ ResponseInv /\ ArgsInv

(* The board is told of events, wired to a network, and found in it.        *)
JoinInv == EventsInv /\ EthInv /\ MdnsInv

(* What a sketch sends and receives: TCP as a client and a server, and UDP. *)
SocketsInv == ClientInv /\ ServerInv /\ UdpInv
=============================================================================
