----------------------------- MODULE OLEDPanels -----------------------------
(***************************************************************************)
(* The six drivers of the display library: SSD1306 and SH1106 over Wire,    *)
(* SPI and Brzo's I2C.  init(), end(), display() and the commands of        *)
(* OLEDDisplay become transmissions; the controllers, external here, obey   *)
(* them.  A SSD1306 takes its bytes into a window of columns and pages; a   *)
(* SH1106 into one page, from a column that is set in two halves, and its   *)
(* memory is four columns wider than the panel.  How drawing in another     *)
(* task interferes with display() is in SSD1306Wire.                        *)
(***************************************************************************)
EXTENDS Integers, Sequences, FiniteSetsExt

CONSTANTS
  Columns, PageCount, (* 128 and 8 in the code, powers of 2                 *)
  CHUNK,        (* data bytes of a transmission, 16                         *)
  NIBBLE,       (* a column is low + NIBBLE * high, 16                      *)
  Contrasts,    (* values a sketch asks for                                 *)
  MaxStrokes, MaxOrders, MaxInits (* bounds: bytes that are drawn,          *)
                        (* commands of the sketch, calls of init()          *)

ASSUME PanelsAssumption ==
  /\ Columns \in 1 .. 128 /\ PageCount \in 1 .. 8 /\ {CHUNK, NIBBLE} \subseteq Nat \ {0}
  /\ Contrasts \subseteq Nat /\ {MaxStrokes, MaxOrders, MaxInits} \subseteq Nat

I2cDrivers == {"SSD1306Wire", "SSD1306Brzo", "SH1106Wire", "SH1106Brzo"}
Drivers    == I2cDrivers \cup {"SSD1306Spi", "SH1106Spi"}
SH1106s    == {"SH1106Wire", "SH1106Brzo", "SH1106Spi"}

Cells == (0 .. Columns - 1) \X (0 .. PageCount - 1)
Ram   == (0 .. Columns + 3) \X (0 .. PageCount - 1)
BlankCell == [c \in Cells |-> 0]

VARIABLES
  driver,
  active,       (* init() has succeeded, end() was not called               *)
  oledBuffer, oledBack, (* buffer, buffer_back                              *)
  controller,   (* of the panel                                             *)
  seen,         (* history: buffer at the last display()                    *)
  wishes,       (* history: what the sketch has asked the panel for         *)
  longest,      (* history: data bytes of the longest transmission          *)
  strokes, orders, inits

panelsVars == <<driver, active, oledBuffer, oledBack, controller, seen, wishes, longest,
                strokes, orders, inits>>

(* A panel that has just got power: its memory holds anything.              *)
PowerOn == [ram |-> [c \in Ram |-> 1], col |-> 0, page |-> 0, first |-> 0, last |-> 0, top |-> 0,
            bottom |-> 0, awaits |-> <<>>, lit |-> FALSE, inverted |-> FALSE, flipped |-> FALSE,
            contrast |-> 0]

PanelsTypeOK ==
  /\ driver \in Drivers /\ active \in BOOLEAN
  /\ oledBuffer \in [Cells -> {0, 1}] /\ oledBack \in [Cells -> {0, 1}]
  /\ DOMAIN controller = DOMAIN PowerOn /\ DOMAIN controller.ram = Ram
  /\ strokes \in 0 .. MaxStrokes /\ orders \in 0 .. MaxOrders /\ inits \in 0 .. MaxInits

Defaults == [lit |-> TRUE, inverted |-> FALSE, flipped |-> FALSE, contrast |-> 207]

PanelsInit ==
  /\ driver \in Drivers /\ active = FALSE /\ oledBuffer = BlankCell /\ oledBack = BlankCell
  /\ controller = PowerOn /\ seen = BlankCell /\ wishes = Defaults /\ longest = 0
  /\ strokes = 0 /\ orders = 0 /\ inits = 0

(***************************************************************************)
(* What the controllers do.                                                 *)
(***************************************************************************)
PanelByte(n)    == [op |-> "byte", n |-> n]
Order(op)  == [op |-> op, n |-> 0]

(* The bytes that belong to a command.                                      *)
Awaited(sh, op) ==
  CASE op = "SETCONTRAST" -> <<"contrast">>
    [] op \in {"SETDISPLAYCLOCKDIV", "SETMULTIPLEX", "SETDISPLAYOFFSET", "SETCOMPINS", "SETPRECHARGE"}
         -> <<"other">>
    [] op \in {"CHARGEPUMP", "MEMORYMODE"} /\ ~sh -> <<"other">>
    [] op = "COLUMNADDR" /\ ~sh -> <<"first", "last">>
    [] op = "PAGEADDR" /\ ~sh   -> <<"top", "bottom">>
    [] OTHER -> <<>>

TakeByte(c, n) ==
  LET field == Head(c.awaits)
      rest  == [c EXCEPT !.awaits = Tail(@)]
  IN  CASE field = "contrast" -> [rest EXCEPT !.contrast = n]
        [] field = "first"    -> [rest EXCEPT !.first = n % Columns, !.col = n % Columns]
        [] field = "last"     -> [rest EXCEPT !.last = n % Columns]
        [] field = "top"      -> [rest EXCEPT !.top = n % PageCount, !.page = n % PageCount]
        [] field = "bottom"   -> [rest EXCEPT !.bottom = n % PageCount]
        [] OTHER              -> rest

Obey(sh, c, command) ==
  IF c.awaits # <<>> THEN TakeByte(c, command.n) ELSE
  CASE command.op = "DISPLAYON"       -> [c EXCEPT !.lit = TRUE]
    [] command.op = "DISPLAYOFF"      -> [c EXCEPT !.lit = FALSE]
    [] command.op = "INVERTDISPLAY"   -> [c EXCEPT !.inverted = TRUE]
    [] command.op = "NORMALDISPLAY"   -> [c EXCEPT !.inverted = FALSE]
    [] command.op = "SEGREMAP"        -> [c EXCEPT !.flipped = (command.n = 1)]
    [] command.op = "page" /\ sh      -> [c EXCEPT !.page = command.n]
    [] command.op = "low" /\ sh       -> [c EXCEPT !.col = (@ \div NIBBLE) * NIBBLE + command.n]
    [] command.op = "high" /\ sh      -> [c EXCEPT !.col = (@ % NIBBLE) + NIBBLE * command.n]
    [] command.op = "byte" /\ sh      -> [c EXCEPT !.col = 0]      (* 0x00, 0x14: another column *)
    [] OTHER -> [c EXCEPT !.awaits = Awaited(sh, command.op)]

PutByte(sh, c, byte) ==
  LET stored == [c EXCEPT !.ram[<<c.col, c.page>>] = byte]
  IN  IF sh THEN [stored EXCEPT !.col = IF c.col < Columns + 3 THEN @ + 1 ELSE @]
      ELSE IF c.col # c.last THEN [stored EXCEPT !.col = (@ + 1) % Columns]
      ELSE [stored EXCEPT !.col = c.first,
                          !.page = IF c.page = c.bottom THEN c.top ELSE (@ + 1) % PageCount]

(* Commands one after the other, or a transmission of bytes for the memory. *)
Commands(orderList) == <<[data |-> FALSE, of |-> orderList]>>
Data(bytes)         == [data |-> TRUE, of |-> bytes]

(* The panel after each byte or command of a packet, and after each packet. *)
Taking(c, packet) ==
  LET sh == driver \in SH1106s
      after[i \in 0 .. Len(packet.of)] ==
        IF i = 0 THEN c
        ELSE IF packet.data THEN PutByte(sh, after[i - 1], packet.of[i])
        ELSE Obey(sh, after[i - 1], packet.of[i])
  IN  after

Receiving(c, sent) ==
  LET after[i \in 0 .. Len(sent)] ==
        IF i = 0 THEN c ELSE Taking(after[i - 1], sent[i])[Len(sent[i].of)]
  IN  after

Receive(c, sent) == Receiving(c, sent)[Len(sent)]

Longest(sent) == Max({0} \cup {Len(sent[i].of) : i \in {k \in DOMAIN sent : sent[k].data}})

(* What the panel shows, from left to right.                                *)
Visible(c) ==
  [cell \in Cells |-> c.ram[<<cell[1] + (IF driver \in SH1106s THEN 2 ELSE 0), cell[2]>>]]

(***************************************************************************)
(* display(): the box around the bytes that differ from buffer_back; ~0 in  *)
(* an uint8_t and 0 if there are none, which only SSD1306Wire tells.        *)
(***************************************************************************)
Bounds(dirty) ==
  IF dirty = {} THEN [minX |-> 255, maxX |-> 0, minY |-> 255, maxY |-> 0]
  ELSE [minX |-> Min({c[1] : c \in dirty}), maxX |-> Max({c[1] : c \in dirty}),
        minY |-> Min({c[2] : c \in dirty}), maxY |-> Max({c[2] : c \in dirty})]

BoxWidth(box)  == IF box.minX > box.maxX THEN 0 ELSE box.maxX - box.minX + 1
BoxHeight(box) == IF box.minY > box.maxY THEN 0 ELSE box.maxY - box.minY + 1

Row(box, y) == [k \in 1 .. BoxWidth(box) |-> oledBuffer[<<box.minX + k - 1, y>>]]

(* Row by row.                                                              *)
BoxBytes(box) ==
  [k \in 1 .. BoxWidth(box) * BoxHeight(box) |->
     oledBuffer[<<box.minX + ((k - 1) % BoxWidth(box)), box.minY + ((k - 1) \div BoxWidth(box))>>]]

(* Full chunks, and what is left.                                           *)
Packets(bytes) ==
  [i \in 1 .. (Len(bytes) + CHUNK - 1) \div CHUNK |->
     Data(SubSeq(bytes, (i - 1) * CHUNK + 1, Min({i * CHUNK, Len(bytes)})))]

WindowOf(box) ==
  Commands(<<Order("COLUMNADDR"), PanelByte(box.minX), PanelByte(box.maxX),
             Order("PAGEADDR"), PanelByte(box.minY), PanelByte(box.maxY)>>)

(* Mutant of ColumnOf: the panel's memory is not wider than the panel.      *)
ColumnOfPanel(x) == x

ColumnOf(x) == x + 2

RowAt(box, y) ==
  Commands(<<[op |-> "page", n |-> y], [op |-> "low", n |-> ColumnOf(box.minX) % NIBBLE],
             [op |-> "high", n |-> ColumnOf(box.minX) \div NIBBLE]>>)

(* display() of each driver.  The SSD1306 takes all rows of the box in one  *)
(* run, Brzo's ends with a packet even if nothing is left for it; the       *)
(* SH1106 is told every row's place.                                        *)
displaySSD1306Wire(box) == WindowOf(box) \o Packets(BoxBytes(box))

displaySSD1306Spi(box)  == WindowOf(box) \o <<Data(BoxBytes(box))>>

displaySSD1306Brzo(box) ==
  WindowOf(box) \o Packets(BoxBytes(box))
    \o (IF Len(BoxBytes(box)) % CHUNK = 0 THEN <<Data(<<>>)>> ELSE <<>>)

(* Transmissions one after the other.                                       *)
RowsSending(parts) ==
  LET upTo[i \in 0 .. Len(parts)] == IF i = 0 THEN <<>> ELSE upTo[i - 1] \o parts[i] IN upTo

EveryRow(parts) == RowsSending(parts)[Len(parts)]

(* Mutant of displaySH1106Wire: its chunks run on from row to row.          *)
displaySH1106WireOn(box) ==
  EveryRow([i \in 1 .. BoxHeight(box) |-> RowAt(box, box.minY + i - 1)]) \o Packets(BoxBytes(box))

ChunkedRows(box) ==
  EveryRow([i \in 1 .. BoxHeight(box) |->
              RowAt(box, box.minY + i - 1) \o Packets(Row(box, box.minY + i - 1))])

displaySH1106Wire(box) == ChunkedRows(box)

displaySH1106Spi(box) ==
  EveryRow([i \in 1 .. BoxHeight(box) |->
              RowAt(box, box.minY + i - 1) \o <<Data(Row(box, box.minY + i - 1))>>])

displaySH1106Brzo(box) == ChunkedRows(box)

SendBox(box) ==
  CASE driver = "SSD1306Wire" -> displaySSD1306Wire(box) [] driver = "SSD1306Spi"  -> displaySSD1306Spi(box)
    [] driver = "SSD1306Brzo" -> displaySSD1306Brzo(box) [] driver = "SH1106Wire"  -> displaySH1106Wire(box)
    [] driver = "SH1106Spi"   -> displaySH1106Spi(box)   [] driver = "SH1106Brzo"  -> displaySH1106Brzo(box)

DisplayStream(back) ==
  LET dirty == {c \in Cells : oledBuffer[c] # back[c]}
  IN  IF dirty = {} /\ driver = "SSD1306Wire" THEN <<>> ELSE SendBox(Bounds(dirty))

Display(back, before) ==
  \E sent \in {DisplayStream(back)}, c \in {before} :
    /\ controller' = Receive(c, sent)
    /\ longest' = Max({longest, Longest(sent)})
    /\ oledBack' = oledBuffer /\ seen' = oledBuffer

displayPanel ==
  /\ active /\ (seen # oledBuffer \/ orders < MaxOrders) /\ Display(oledBack, controller)
  /\ orders' = IF seen # oledBuffer THEN orders ELSE orders + 1
  /\ UNCHANGED <<driver, active, oledBuffer, wishes, strokes, inits>>

(***************************************************************************)
(* init(), end() and the commands.                                          *)
(***************************************************************************)
InitCommands ==
  <<Order("DISPLAYOFF"), Order("SETDISPLAYCLOCKDIV"), PanelByte(240), Order("SETMULTIPLEX"), PanelByte(63),
    Order("SETDISPLAYOFFSET"), PanelByte(0), Order("SETSTARTLINE"), Order("CHARGEPUMP"), PanelByte(20),
    Order("MEMORYMODE"), PanelByte(0), Order("SEGREMAP"), Order("COMSCANINC"), Order("SETCOMPINS"), PanelByte(18),
    Order("SETCONTRAST"), PanelByte(207), Order("SETPRECHARGE"), PanelByte(241), Order("DISPLAYALLON_RESUME"),
    Order("NORMALDISPLAY"), Order("STOPSCROLL"), Order("DISPLAYON")>>

(* buffer_back after resetDisplay's memset, which makes display() send all. *)
(* Mutant of ResetBack: it is cleared like the buffer.                      *)
ResetBackClear == BlankCell

ResetBack == [c \in Cells |-> 1]

(* init() and its resetDisplay(); the buffer is empty already when          *)
(* display() compares it.                                                   *)
initPanel ==
  /\ ~active /\ inits < MaxInits /\ inits' = inits + 1
  /\ oledBuffer = BlankCell /\ active' = TRUE
  /\ Display(ResetBack, Receive(controller, Commands(InitCommands)))
  /\ wishes' = Defaults
  /\ UNCHANGED <<driver, oledBuffer, strokes, orders>>

(* connect() or an allocation fails: the sketch draws nothing.              *)
initFails ==
  /\ ~active /\ inits < MaxInits /\ inits' = inits + 1
  /\ UNCHANGED <<driver, active, oledBuffer, oledBack, controller, seen, wishes, longest, strokes, orders>>

endPanel ==
  /\ active /\ active' = FALSE /\ oledBuffer' = BlankCell
  /\ UNCHANGED <<driver, oledBack, controller, seen, wishes, longest, strokes, orders, inits>>

DrawByte(cell) ==
  /\ active /\ strokes < MaxStrokes /\ strokes' = strokes + 1
  /\ oledBuffer' = [oledBuffer EXCEPT ![cell] = 1 - @]
  /\ UNCHANGED <<driver, active, oledBack, controller, seen, wishes, longest, orders, inits>>

Ask(orderList, wish) ==
  /\ active /\ orders < MaxOrders /\ orders' = orders + 1
  /\ controller' = Receive(controller, Commands(orderList)) /\ wishes' = wish
  /\ UNCHANGED <<driver, active, oledBuffer, oledBack, seen, longest, strokes, inits>>

displayOn            == Ask(<<Order("DISPLAYON")>>, [wishes EXCEPT !.lit = TRUE])
displayOff           == Ask(<<Order("DISPLAYOFF")>>, [wishes EXCEPT !.lit = FALSE])
invertDisplay        == Ask(<<Order("INVERTDISPLAY")>>, [wishes EXCEPT !.inverted = TRUE])
normalDisplay        == Ask(<<Order("NORMALDISPLAY")>>, [wishes EXCEPT !.inverted = FALSE])
setContrast(n)       == Ask(<<Order("SETCONTRAST"), PanelByte(n)>>, [wishes EXCEPT !.contrast = n])
flipScreenVertically ==
  Ask(<<[op |-> "SEGREMAP", n |-> 1], Order("COMSCANDEC")>>, [wishes EXCEPT !.flipped = TRUE])

PanelsNext ==
  \/ initPanel \/ initFails \/ endPanel \/ displayPanel
  \/ \E cell \in Cells : DrawByte(cell)
  \/ displayOn \/ displayOff \/ invertDisplay \/ normalDisplay \/ flipScreenVertically
  \/ \E n \in Contrasts : setContrast(n)

PanelsSpec == PanelsInit /\ [][PanelsNext]_panelsVars

(***************************************************************************)
(* Properties.                                                              *)
(***************************************************************************)

(* Each panel shows the buffer of the last display(), wherever the bytes    *)
(* that had changed lie and whatever its memory held before init() - the    *)
(* window, the rows, the chunks and a display() of no change leave nothing  *)
(* behind that shifts a later one.                                          *)
EveryPanelShows == active => Visible(controller) = seen /\ oledBack = seen

(* No byte of a command is taken for another one: the panel is lit,         *)
(* inverted, flipped and as bright as the sketch has asked for last.        *)
CommandsObeyed ==
  active => /\ controller.awaits = <<>>
            /\ \A wish \in DOMAIN wishes : controller[wish] = wishes[wish]

(* No transmission on the I2C bus is longer than the buffer it is made in   *)
(* (SSD1306Brzo.h:98, SH1106Brzo.h:89).                                     *)
ChunksFit == driver \in I2cDrivers => longest <= CHUNK

PanelsInv == PanelsTypeOK /\ EveryPanelShows /\ CommandsObeyed /\ ChunksFit
=============================================================================
