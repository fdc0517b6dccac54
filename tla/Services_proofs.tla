--------------------------- MODULE Services_proofs ---------------------------
(***************************************************************************)
(* Proofs about the parts of MCServices together: what is checked there on  *)
(* small instances holds for every value of the constants.                  *)
(***************************************************************************)
EXTENDS MCServices, Network_proofs, Device_proofs, Display_proofs

(***************************************************************************)
(* The sockets together.  Every step of the composition leaves each of them *)
(* as it is or is a step of it.                                             *)
(***************************************************************************)
LEMMA SocketSteps ==
  ASSUME [ServicesNext]_<<component, ServiceVars>>
  PROVE  [ClientNext]_clientVars /\ [ServerNext]_serverVars /\ [UdpNext]_udpVars
<1>1. CASE UNCHANGED ServiceVars
  BY <1>1 DEF ServiceVars
<1>2. CASE ServicesNext
  <2>1. OthersStay
    BY <1>2 DEF ServicesNext
  <2>2. component = "client" => ClientNext
    BY <1>2 DEF ServicesNext
  <2>3. component = "server" => ServerNext
    BY <1>2 DEF ServicesNext
  <2>4. component = "udp" => UdpNext
    BY <1>2 DEF ServicesNext
  <2> QED BY <2>1, <2>2, <2>3, <2>4 DEF OthersStay
<1> QED BY <1>1, <1>2

(* What a sketch sends and receives, at every step of the library: a        *)
(* connection's socket is the one its objects hold and is closed with the   *)
(* last, and what was written is a prefix of the bytes, each once; clients  *)
(* are handed out in the order they came, none twice and none forgotten;    *)
(* a packet's bytes go out in order, in full datagrams, to its peer.        *)
THEOREM SocketsCorrect == ServicesSpec => []SocketsInv
<1>1. ServicesInit => ClientInv /\ ServerIInv /\ UdpIInv
  BY ClientInitial, ServerInitial, UdpInitial DEF ServicesInit
<1>2. ClientInv /\ ServerIInv /\ UdpIInv /\ [ServicesNext]_<<component, ServiceVars>>
        => (ClientInv /\ ServerIInv /\ UdpIInv)'
  BY SocketSteps, ClientKept, ServerKept, UdpKept
<1>3. ClientInv /\ ServerIInv /\ UdpIInv => SocketsInv
  BY DEF ServerIInv, UdpIInv, SocketsInv, ServerInv, UdpInv
<1> QED BY <1>1, <1>2, <1>3, PTL DEF ServicesSpec

(***************************************************************************)
(* The joining of the network.                                              *)
(***************************************************************************)
LEMMA JoinSteps ==
  ASSUME [ServicesNext]_<<component, ServiceVars>>
  PROVE  [EventsNext]_eventVars /\ [EthNext]_ethVars /\ [MdnsNext]_mdnsVars
<1>1. CASE UNCHANGED ServiceVars
  BY <1>1 DEF ServiceVars
<1>2. CASE ServicesNext
  <2>1. OthersStay
    BY <1>2 DEF ServicesNext
  <2>2. component = "events" => EventsNext
    BY <1>2 DEF ServicesNext
  <2>3. component = "ethernet" => EthNext
    BY <1>2 DEF ServicesNext
  <2>4. component = "mdns" => MdnsNext
    BY <1>2 DEF ServicesNext
  <2> QED BY <2>1, <2>2, <2>3, <2>4 DEF OthersStay
<1> QED BY <1>1, <1>2

(* Joining a network, at every step of the library: an event is told once   *)
(* to each registration and, when none was removed, to all it concerns, and *)
(* a removed callback is gone; Ethernet runs with the pins and the address  *)
(* of the calls that succeeded; mDNS announces exactly the services the     *)
(* sketch was told it does.                                                 *)
THEOREM JoinCorrect == ServicesSpec => []JoinInv
<1>1. ServicesInit => EventsIInv /\ EthIInv /\ MdnsIInv
  BY EventsInitial, EthInitial, MdnsInitial DEF ServicesInit
<1>2. EventsIInv /\ EthIInv /\ MdnsIInv /\ [ServicesNext]_<<component, ServiceVars>>
        => (EventsIInv /\ EthIInv /\ MdnsIInv)'
  BY JoinSteps, EventsKept, EthKept, MdnsKept
<1>3. EventsIInv /\ EthIInv /\ MdnsIInv => JoinInv
  BY EventsImplied, MdnsImplied DEF EthIInv, JoinInv
<1> QED BY <1>1, <1>2, <1>3, PTL DEF ServicesSpec

LEMMA FlashSteps ==
  ASSUME [ServicesNext]_<<component, ServiceVars>>
  PROVE  [PreferencesNext]_preferencesVars /\ [StreamNext]_streamVars
<1>1. CASE UNCHANGED ServiceVars
  BY <1>1 DEF ServiceVars
<1>2. CASE ServicesNext
  <2>1. OthersStay
    BY <1>2 DEF ServicesNext
  <2>2. component = "preferences" => PreferencesNext
    BY <1>2 DEF ServicesNext
  <2>3. component = "update" => StreamNext
    BY <1>2 DEF ServicesNext
  <2> QED BY <2>1, <2>2, <2>3 DEF OthersStay
<1> QED BY <1>1, <1>2

(* What is kept in Flash, at every step of the library: a preference that   *)
(* was reported stored is there, whatever failed and whenever the board     *)
(* restarted, and a get gives the whole of an item that was there while it  *)
(* ran, or fails; an update takes every unit of its stream once and in      *)
(* order, stays within the size that was announced, and the other           *)
(* application can be started only while its partition holds all of an      *)
(* image - with the exceptions that the properties name.                    *)
THEOREM FlashCorrect == ServicesSpec => []FlashInv
<1>1. ServicesInit => PreferencesIInv /\ StreamIInv
  BY PreferencesInitial, StreamInitial DEF ServicesInit
<1>2. PreferencesIInv /\ StreamIInv /\ [ServicesNext]_<<component, ServiceVars>> => (PreferencesIInv /\ StreamIInv)'
  BY FlashSteps, PreferencesKept, StreamKept
<1>3. PreferencesIInv /\ StreamIInv => FlashInv
  BY PreferencesImplied, StreamImplied DEF FlashInv
<1> QED BY <1>1, <1>2, <1>3, PTL DEF ServicesSpec

(***************************************************************************)
(* A request of a browser.                                                  *)
(***************************************************************************)
LEMMA RequestSteps ==
  ASSUME [ServicesNext]_<<component, ServiceVars>>
  PROVE  [HandlersNext]_handlerVars /\ [ResponseNext]_responseVars /\ [ArgsNext]_argVars
<1>1. CASE UNCHANGED ServiceVars
  BY <1>1 DEF ServiceVars
<1>2. CASE ServicesNext
  <2>1. OthersStay
    BY <1>2 DEF ServicesNext
  <2>2. component = "handlers" => HandlersNext
    BY <1>2 DEF ServicesNext
  <2>3. component = "response" => ResponseNext
    BY <1>2 DEF ServicesNext
  <2>4. component = "arguments" => ArgsNext
    BY <1>2 DEF ServicesNext
  <2> QED BY <2>1, <2>2, <2>3, <2>4 DEF OthersStay
<1> QED BY <1>1, <1>2

(* A request of a browser, at every step of the library: it goes to the     *)
(* first handler in the order of their registration that takes it, at the   *)
(* page's method and address, and an upload to one that takes uploads; what *)
(* its headers say is that request's own; its answer is what the handler    *)
(* wrote, each byte once and in order, with a length or in chunks that end  *)
(* once; and its arguments are the fields of the form, whatever characters  *)
(* a user has typed and in however many pieces they come.                   *)
THEOREM RequestCorrect == ServicesSpec => []RequestInv
<1>1. ServicesInit => HandlersIInv /\ ResponseIInv /\ ArgsIInv
  BY HandlersInitial, ResponseInitial, ArgsInitial DEF ServicesInit
<1>2. HandlersIInv /\ ResponseIInv /\ ArgsIInv /\ [ServicesNext]_<<component, ServiceVars>>
        => (HandlersIInv /\ ResponseIInv /\ ArgsIInv)'
  BY RequestSteps, HandlersKept, ResponseKept, ArgsKept
<1>3. HandlersIInv /\ ResponseIInv /\ ArgsIInv => RequestInv
  BY HandlersImplied, ResponseImplied, ArgsImplied DEF RequestInv
<1> QED BY <1>1, <1>2, <1>3, PTL DEF ServicesSpec

(***************************************************************************)
(* What can be seen on the display.                                         *)
(***************************************************************************)
LEMMA ScreenSteps ==
  ASSUME [ServicesNext]_<<component, ServiceVars>>
  PROVE  /\ [DrawingNext]_drawVars /\ [LogNext]_logVars /\ [TextNext]_textVars
         /\ [DialogNext]_dialogVars /\ [PanelNext]_panelVars /\ [PanelsNext]_panelsVars
<1>1. CASE UNCHANGED ServiceVars
  BY <1>1 DEF ServiceVars
<1>2. CASE ServicesNext
  <2>1. OthersStay
    BY <1>2 DEF ServicesNext
  <2>2. component = "drawing" => DrawingNext
    BY <1>2 DEF ServicesNext
  <2>3. component = "log" => LogNext
    BY <1>2 DEF ServicesNext
  <2>4. component = "text" => TextNext
    BY <1>2 DEF ServicesNext
  <2>5. component = "dialog" => DialogNext
    BY <1>2 DEF ServicesNext
  <2>6. component = "panel" => PanelNext
    BY <1>2 DEF ServicesNext
  <2>7. component = "drivers" => PanelsNext
    BY <1>2 DEF ServicesNext
  <2> QED BY <2>1, <2>2, <2>3, <2>4, <2>5, <2>6, <2>7 DEF OthersStay
<1> QED BY <1>1, <1>2

(* What can be seen on the display, at every step of the library: each      *)
(* drawing function lights the pixels of its shape on the display and no    *)
(* others, whatever the edges, the bytes and the colour, and a circle keeps *)
(* near its radius and has no hole when it is filled; the log holds the end *)
(* of what was written, without a hole, and draws each character in the row *)
(* of its line; the rows of a text leave out nothing but what they are      *)
(* broken at, break no word that fits a row, and are narrower than the      *)
(* width; the dialog shows the latest lines in order; what is drawn while   *)
(* display() runs reaches the panel with the next one; and each of the six  *)
(* drivers shows the buffer of the last display(), is as lit, inverted,     *)
(* flipped and bright as it was asked to be, and sends no packet that is    *)
(* too long for the bus - but for what the properties name.                 *)
THEOREM ScreenCorrect == ServicesSpec => []ScreenInv
<1> DEFINE IInv == DrawingIInv /\ LogIInv /\ TextIInv /\ DialogIInv /\ PanelIInv /\ PanelsIInv
<1>1. ServicesInit => IInv
  BY DrawingInitial, LogInitial, DialogInitial, PanelInitial, PanelsInitial DEF ServicesInit, TextIInv
<1>2. IInv /\ [ServicesNext]_<<component, ServiceVars>> => IInv'
  BY ScreenSteps, DrawingKept, LogKept, TextRowsKept, DialogKept, PanelKept, PanelsKept
<1>3. IInv => ScreenInv
  BY DrawingImplied, LogImplied, TextImplied, DialogImplied, PanelImplied, PanelsImplied DEF ScreenInv
<1> HIDE DEF IInv
<1> QED BY <1>1, <1>2, <1>3, PTL DEF ServicesSpec

(***************************************************************************)
(* The strips of LEDs and I2C.                                              *)
(***************************************************************************)
LEMMA BusSteps ==
  ASSUME [ServicesNext]_<<component, ServiceVars>>
  PROVE  [StripNext]_stripVars /\ [ColorsNext]_colorVars /\ [WireNext]_wireVars
<1>1. CASE UNCHANGED ServiceVars
  BY <1>1 DEF ServiceVars
<1>2. CASE ServicesNext
  <2>1. OthersStay
    BY <1>2 DEF ServicesNext
  <2>2. component = "strip" => StripNext
    BY <1>2 DEF ServicesNext
  <2>3. component = "colors" => ColorsNext
    BY <1>2 DEF ServicesNext
  <2>4. component = "wire" => WireNext
    BY <1>2 DEF ServicesNext
  <2> QED BY <2>1, <2>2, <2>3, <2>4 DEF OthersStay
<1> QED BY <1>1, <1>2

LEMMA BusInvariant == ServicesSpec => [](StripIInv /\ ColorsIInv /\ WireIInv)
<1>1. ServicesInit => StripIInv /\ ColorsIInv /\ WireIInv
  BY StripInitial, ColorsInitial, WireInitial DEF ServicesInit
<1>2. StripIInv /\ ColorsIInv /\ WireIInv /\ [ServicesNext]_<<component, ServiceVars>>
        => (StripIInv /\ ColorsIInv /\ WireIInv)'
  BY BusSteps, StripKept, ColorsKept, WireKept
<1> QED BY <1>1, <1>2, PTL DEF ServicesSpec

(* What the buses of a sketch carry, at every step of the library: the      *)
(* colours in a strip never exceed its brightness however often that        *)
(* changes, a colour is read back as it was set but for the rounding of     *)
(* that brightness and without running into its neighbour, the memory fits  *)
(* the strip's type and length, and no pin but its own is driven; I2C sends *)
(* the bytes that were written while nothing mislays them, reads are those  *)
(* of the last request, and a bus has both of its pins or none.             *)
THEOREM BusCorrect == ServicesSpec => []BusInv
<1>1. StripIInv /\ ColorsIInv /\ WireIInv => BusInv
  BY StripImplied, ColorsImplied DEF WireIInv, WireInv, BusInv
<1> QED BY BusInvariant, <1>1, PTL

(* A call of setLed that nobody disturbs ends with its LED in the green and *)
(* blue it has asked for at the brightness it has asked for, and in the red *)
(* that setLed makes of the one it has asked for, less than two steps too   *)
(* dark and never too bright - whatever was in the memory of the strip and  *)
(* whichever brightness it had.                                             *)
THEOREM LedShown == ServicesSpec => ShownAsAsked
<1>1. StripIInv /\ [StripNext]_stripVars => [\A t \in LedTasks :
       setting[t] = "light" /\ setting'[t] = "none" /\ undisturbed[t] =>
         LET light == lights'[asked[t].led] IN
           IF channel = "red" THEN RedKept(asked[t].color, asked[t].bright, light)
           ELSE light = (asked[t].color * (asked[t].bright + 1)) \div Levels]_stripVars
  BY LightShown
<1>2. [ServicesNext]_<<component, ServiceVars>> => [StripNext]_stripVars
  BY BusSteps
<1> QED BY BusInvariant, <1>1, <1>2, PTL DEF ServicesSpec, ShownAsAsked
=============================================================================
