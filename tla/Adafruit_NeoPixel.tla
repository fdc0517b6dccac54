-------------------------- MODULE Adafruit_NeoPixel --------------------------
(***************************************************************************)
(* An LED strip: setLed of Nefry.cpp on an Adafruit_NeoPixel.  The colours  *)
(* in memory are scaled by the brightness when they are set, and scaled     *)
(* anew when the brightness changes.  The sketch and LedBlinkTask call      *)
(* setLed with no lock.  It sets the channels of an LED together, but none   *)
(* of them has to do with another: one of each LED is followed, either the  *)
(* red one, which setLed dims, or another.                                  *)
(***************************************************************************)
EXTENDS Integers

CONSTANTS
  Levels,        (* values of a byte: 256 in the code                        *)
  RedMost,       (* what the highest red becomes: 150 in the code            *)
  LedColors,        (* colours the tasks ask for                                *)
  Brightnesses,  (* brightnesses they ask for                                *)
  numLEDs,
  MaxSetLeds     (* bound: calls of setLed                                   *)

ASSUME StripAssumption ==
  /\ Levels \in Nat \ {0, 1} /\ RedMost \in 0 .. Levels - 1 /\ numLEDs \in Nat \ {0} /\ MaxSetLeds \in Nat
  /\ LedColors \subseteq 0 .. Levels - 1 /\ Brightnesses \subseteq 0 .. Levels - 1

LedTasks == {"sketch", "blink"}
LEDs     == 0 .. numLEDs - 1
ByteValues     == 0 .. Levels - 1

VARIABLES
  channel,     (* the channel that is followed                               *)
  pixels,      (* the colours in memory                                      *)
  brightness,  (* the brightness as it is kept, one more than asked for      *)
  lights,      (* what the LEDs show                                         *)
  setting,     (* setting[t]: the next step of the call of t                 *)
  asked,       (* asked[t]: what t asks for: [led, color, bright]            *)
  scaling,     (* scaling[t]: the locals of setBrightness: [new, scale, i]   *)
  setLeds,     (* counter                                                    *)
  undisturbed, (* history: undisturbed[t]: nobody else has touched the strip *)
               (* since the call of t began                                  *)
  mixed        (* history: two calls have run at once, or the memory of the  *)
               (* strip was somebody else's                                  *)

stripVars == <<channel, pixels, brightness, lights, setting, asked, scaling, setLeds, undisturbed, mixed>>

StripTypeOK ==
  /\ channel \in {"red", "other"}
  /\ pixels \in [LEDs -> ByteValues] /\ brightness \in ByteValues /\ lights \in [LEDs -> ByteValues]
  /\ setting \in [LedTasks -> {"none", "dark", "bright", "scale", "keep", "paint", "light"}]
  /\ asked \in [LedTasks -> [led : LEDs, color : ByteValues, bright : ByteValues]]
  /\ scaling \in [LedTasks -> [new : ByteValues, scale : 0 .. Levels * Levels, i : 0 .. numLEDs]]
  /\ setLeds \in 0 .. MaxSetLeds /\ undisturbed \in [LedTasks -> BOOLEAN] /\ mixed \in BOOLEAN

Nothing  == [led |-> 0, color |-> 0, bright |-> 0]
Unscaled == [new |-> 0, scale |-> 0, i |-> 0]

(* The strip after beginLed: the constructor clears it, and show().         *)
StripInit ==
  /\ channel \in {"red", "other"}
  /\ pixels = [n \in LEDs |-> 0] /\ brightness = 0 /\ lights = [n \in LEDs |-> 0]
  /\ setting = [t \in LedTasks |-> "none"]
  /\ asked = [t \in LedTasks |-> Nothing] /\ scaling = [t \in LedTasks |-> Unscaled]
  /\ setLeds = 0 /\ undisturbed = [t \in LedTasks |-> FALSE] /\ mixed = FALSE

Proceed(t, place) == setting' = [setting EXCEPT ![t] = place]

(***************************************************************************)
(* Adafruit_NeoPixel.                                                       *)
(***************************************************************************)
(* Mutant of Stored: the brightness that is kept is the one asked for.      *)
StoredAsAsked(bright) == bright

(* 0 is the full brightness, 1 the lowest.                                  *)
Stored(bright) == (bright + 1) % Levels

Dimmed(color) == IF brightness = 0 THEN color ELSE (color * brightness) \div Levels

(* Mutant of Scale: the whole brightness instead of one less.               *)
ScaleUp(old, bright) ==
  IF old = 0 THEN 0
  ELSE IF bright = Levels - 1 THEN (Levels * Levels) \div old
  ELSE (Stored(bright) * Levels) \div old

Scale(old, bright) ==
  IF old = 0 THEN 0
  ELSE IF bright = Levels - 1 THEN (Levels * Levels - 1) \div old
  ELSE (Stored(bright) * Levels - 1) \div old

Rescaled(color, scale) == ((color * scale) \div Levels) % Levels

show == lights' = pixels

(***************************************************************************)
(* What setLed makes of a channel it is asked for: map(r, 0, 255, 0, 150)   *)
(* of red, the others as they are.                                          *)
(***************************************************************************)
(* Mutant of Mixed: red is not dimmed.                                      *)
MixedAlike(color) == color

Mixed(color) == IF channel = "red" THEN (color * RedMost) \div (Levels - 1) ELSE color

(***************************************************************************)
(* setLed, step by step: the LED goes out, the brightness is set, the LED   *)
(* comes on in its colour.                                                  *)
(***************************************************************************)
setLed(t, led, color, bright) ==
  /\ setting[t] = "none" /\ setLeds < MaxSetLeds /\ setLeds' = setLeds + 1
  /\ Proceed(t, "dark")
  /\ asked' = [asked EXCEPT ![t] = [led |-> led, color |-> color, bright |-> bright]]
  /\ pixels' = [pixels EXCEPT ![led] = Dimmed(0)]
  /\ LET alone == \A u \in LedTasks \ {t} : setting[u] = "none"
     IN  /\ undisturbed' = [u \in LedTasks |-> u = t /\ alone]
         /\ mixed' = (mixed \/ ~alone)
  /\ UNCHANGED <<brightness, lights, scaling>>

ShowDark(t) ==
  /\ setting[t] = "dark" /\ Proceed(t, "bright") /\ show
  /\ UNCHANGED <<pixels, brightness, asked, scaling, setLeds, undisturbed, mixed>>

setBrightness(t) ==
  /\ setting[t] = "bright"
  /\ LET bright == asked[t].bright
         old    == (brightness + Levels - 1) % Levels
     IN  IF Stored(bright) = brightness THEN Proceed(t, "paint") /\ UNCHANGED scaling
         ELSE /\ Proceed(t, "scale")
              /\ scaling' = [scaling EXCEPT ![t] =
                   [new |-> Stored(bright), scale |-> Scale(old, bright), i |-> 0]]
  /\ UNCHANGED <<pixels, brightness, lights, asked, setLeds, undisturbed, mixed>>

RescaleNext(t) ==
  /\ setting[t] = "scale"
  /\ LET i == scaling[t].i IN
       /\ pixels' = [pixels EXCEPT ![i] = Rescaled(@, scaling[t].scale)]
       /\ scaling' = [scaling EXCEPT ![t].i = i + 1]
       /\ Proceed(t, IF i + 1 = numLEDs THEN "keep" ELSE "scale")
  /\ UNCHANGED <<brightness, lights, asked, setLeds, undisturbed, mixed>>

KeepBrightness(t) ==
  /\ setting[t] = "keep" /\ Proceed(t, "paint")
  /\ brightness' = scaling[t].new /\ scaling' = [scaling EXCEPT ![t] = Unscaled]
  /\ UNCHANGED <<pixels, lights, asked, setLeds, undisturbed, mixed>>

setPixelColor(t) ==
  /\ setting[t] = "paint" /\ Proceed(t, "light")
  /\ pixels' = [pixels EXCEPT ![asked[t].led] = Dimmed(Mixed(asked[t].color))]
  /\ UNCHANGED <<brightness, lights, asked, scaling, setLeds, undisturbed, mixed>>

ShowLight(t) ==
  /\ setting[t] = "light" /\ Proceed(t, "none") /\ show
  /\ asked' = [asked EXCEPT ![t] = Nothing] /\ undisturbed' = [undisturbed EXCEPT ![t] = FALSE]
  /\ UNCHANGED <<pixels, brightness, scaling, setLeds, mixed>>

(* beginLed copies a strip from a temporary one, whose destructor frees the *)
(* memory both point to: it can be given to somebody else (Nefry.cpp:298).  *)
(* What that one writes is bounded to the darkest and the brightest.        *)
HeapReused ==
  /\ ~mixed /\ mixed' = TRUE
  /\ pixels' \in [LEDs -> {0, Levels - 1}]
  /\ undisturbed' = [t \in LedTasks |-> FALSE]
  /\ UNCHANGED <<brightness, lights, setting, asked, scaling, setLeds>>

StripStep ==
  \/ \E t \in LedTasks :
       \/ \E led \in LEDs, color \in LedColors, bright \in Brightnesses : setLed(t, led, color, bright)
       \/ ShowDark(t) \/ setBrightness(t) \/ RescaleNext(t) \/ KeepBrightness(t)
       \/ setPixelColor(t) \/ ShowLight(t)
  \/ HeapReused

StripNext == StripStep /\ UNCHANGED channel

StripSpec == StripInit /\ [][StripNext]_stripVars

(***************************************************************************)
(* Properties.                                                             *)
(***************************************************************************)

(* However often the brightness is lowered and raised, and whatever the     *)
(* colours lose on the way, no LED is brighter in memory than the           *)
(* brightness allows (Adafruit_NeoPixel.cpp:1729-1735 divides by one less   *)
(* than it has multiplied with): so the colour getPixelColor scales back    *)
(* fits its eight bits, too.                                                *)
Cap == IF brightness = 0 THEN Levels ELSE brightness

CapKept ==
  ~mixed /\ (\A t \in LedTasks : setting[t] \notin {"scale", "keep"}) =>
    \A n \in LEDs : pixels[n] < Cap /\ (pixels[n] * Levels) \div Cap < Levels

(* A call nobody disturbs ends with its LED in the green and blue it has    *)
(* asked for, at the brightness it has asked for, whatever calls were mixed *)
(* up before and whatever was in memory.  Of the red it has asked for the   *)
(* LED shows RedMost in Levels - 1, 150 in 255 (Nefry.cpp:308): rounded     *)
(* twice, never up, and by less than two steps.                             *)
RedKept(color, bright, light) ==
  LET whole == color * RedMost * (bright + 1)
      parts == (Levels - 1) * Levels
  IN  light * parts <= whole /\ whole < (light + 2) * parts

ShownAsAsked ==
  [][\A t \in LedTasks :
       setting[t] = "light" /\ setting'[t] = "none" /\ undisturbed[t] =>
         LET light == lights'[asked[t].led] IN
           IF channel = "red" THEN RedKept(asked[t].color, asked[t].bright, light)
           ELSE light = (asked[t].color * (asked[t].bright + 1)) \div Levels]_stripVars

(* What holds of the colours in memory.                                     *)
StripInv == StripTypeOK /\ CapKept

(***************************************************************************)
(* The memory of an LED strip, Adafruit_NeoPixel.cpp, used by one task: how *)
(* many bytes an LED has and in which order is the type of the strip, which *)
(* can be changed like the number of LEDs, the pin and the brightness while *)
(* colours are set and read back.                                           *)
(***************************************************************************)
CONSTANTS
  ByteLevels,   (* values of a byte: 256 in the code                        *)
  StripTypes,   (* types: the place of each channel in an LED's bytes, w =  *)
                  (* r if there is no white                                 *)
  StripLengths, (* numbers of LEDs                                          *)
  StripPins,
  Shades,       (* what a channel of a colour is set to                     *)
  StripLevels,  (* brightnesses                                             *)
  MaxStripCalls, MaxStripFaults (* bounds: calls, failed allocations        *)

Channels == {"w", "r", "g", "b"}

HasWhite(order)  == order["w"] # order["r"]
BytesEach(order) == IF HasWhite(order) THEN 4 ELSE 3

(* Each channel has a byte of its own, but for a white that is not there.   *)
IsOrder(order) ==
  /\ \A c \in Channels : order[c] < BytesEach(order)
  /\ \A c, d \in Channels : order[c] = order[d] => c = d \/ {c, d} = {"w", "r"}

ASSUME ColorsAssumption ==
  /\ ByteLevels \in Nat \ {0, 1} /\ StripLengths \subseteq Nat \ {0} /\ StripPins \subseteq Nat
  /\ Shades \subseteq 0 .. ByteLevels - 1 /\ StripLevels \subseteq 0 .. ByteLevels - 1
  /\ StripTypes \subseteq [Channels -> 0 .. 3] /\ \A order \in StripTypes : IsOrder(order)
  /\ {MaxStripCalls, MaxStripFaults} \subseteq Nat

VARIABLES
  offset,       (* wOffset, rOffset, gOffset, bOffset                       *)
  memory,       (* pixels: the bytes, of index 0 .. numBytes - 1            *)
  ledCount,     (* numLEDs                                                  *)
  level,        (* brightness: one more than asked for, 0 for the highest   *)
  pin, begun, driven, (* driven: the pins that are outputs                  *)
  colored,      (* history: colored[n]: the colour LED n was given, at the  *)
                (* brightness and in the type of now                        *)
  stripCalls, stripFaults (* counters                                       *)

colorVars == <<offset, memory, ledCount, level, pin, begun, driven, colored, stripCalls, stripFaults>>

PixelColors == [Channels -> 0 .. ByteLevels - 1]
NoPin  == -1

ColorsTypeOK ==
  /\ offset \in [Channels -> 0 .. 3] /\ \A i \in DOMAIN memory : memory[i] \in 0 .. ByteLevels - 1
  /\ ledCount \in StripLengths \cup {0} /\ level \in 0 .. ByteLevels - 1
  /\ pin \in StripPins \cup {NoPin} /\ begun \in BOOLEAN
  /\ \A n \in DOMAIN colored : colored[n] \in PixelColors
  /\ stripCalls \in 0 .. MaxStripCalls /\ stripFaults \in 0 .. MaxStripFaults

Nil == [i \in {} |-> 0]                 (* no memory, or no LED             *)

(* The constructor without parameters: the order is that of NEO_GRB.        *)
ColorsInit ==
  /\ offset = [w |-> 1, r |-> 1, g |-> 0, b |-> 2] /\ memory = Nil /\ ledCount = 0 /\ level = 0
  /\ pin = NoPin /\ begun = FALSE /\ driven = {} /\ colored = Nil /\ stripCalls = 0 /\ stripFaults = 0

StripCall == stripCalls < MaxStripCalls /\ stripCalls' = stripCalls + 1

(***************************************************************************)
(* The length, the type and the pin.                                        *)
(***************************************************************************)
(* New memory for n LEDs, all of it 0: none if malloc fails.                *)
Allocate(n, order) ==
  /\ colored' = Nil
  /\ \/ /\ memory' = [i \in 0 .. n * BytesEach(order) - 1 |-> 0] /\ ledCount' = n
        /\ UNCHANGED stripFaults
     \/ /\ stripFaults < MaxStripFaults /\ stripFaults' = stripFaults + 1
        /\ memory' = Nil /\ ledCount' = 0

updateLength(n) ==
  /\ StripCall /\ Allocate(n, offset)
  /\ UNCHANGED <<offset, level, pin, begun, driven>>

(* Mutant of Resizes: the memory is never given another size.               *)
ResizesNever(order) == FALSE

Resizes(order) == memory # Nil /\ HasWhite(order) # HasWhite(offset)

(* The bytes of another order of as many channels stay where they are: the  *)
(* colours are no longer those they were.                                   *)
updateType(order) ==
  /\ StripCall /\ offset' = order
  /\ IF Resizes(order) THEN Allocate(ledCount, order)
     ELSE /\ colored' = IF order = offset THEN colored ELSE Nil
          /\ UNCHANGED <<memory, ledCount, stripFaults>>
  /\ UNCHANGED <<level, pin, begun, driven>>

beginStrip ==
  /\ StripCall /\ begun' = TRUE /\ driven' = driven \cup ({pin} \ {NoPin})
  /\ UNCHANGED <<offset, memory, ledCount, level, pin, colored, stripFaults>>

(* Mutant of Released: the old pin stays an output.                         *)
ReleasedNone == {}

Released == IF begun THEN {pin} ELSE {}

setPin(p) ==
  /\ StripCall /\ pin' = p
  /\ driven' = (driven \ Released) \cup (IF begun THEN {p} ELSE {})
  /\ UNCHANGED <<offset, memory, ledCount, level, begun, colored, stripFaults>>

(***************************************************************************)
(* The colours.                                                             *)
(***************************************************************************)
Scaled(shade) == IF level = 0 THEN shade ELSE (shade * level) \div ByteLevels

(* Mutant of PixelPainted: the white of an LED is left as it is.            *)
PixelPaintedNoWhite(n, color) ==
  LET first == n * BytesEach(offset)
  IN  [i \in DOMAIN memory |->
         IF \E c \in Channels \ {"w"} : i = first + offset[c]
         THEN Scaled(color[CHOOSE c \in Channels \ {"w"} : i = first + offset[c]])
         ELSE memory[i]]

(* White is written first: in a strip without it, red is written over it.   *)
PixelPainted(n, color) ==
  LET first == n * BytesEach(offset)
      painted == IF HasWhite(offset) THEN Channels ELSE Channels \ {"w"}
  IN  [i \in DOMAIN memory |->
         IF \E c \in painted : i = first + offset[c]
         THEN Scaled(color[CHOOSE c \in painted : i = first + offset[c]])
         ELSE memory[i]]

PaintPixel(n, color) ==
  /\ StripCall
  /\ IF n < ledCount
     THEN /\ memory' = PixelPainted(n, color)
          /\ colored' = [k \in DOMAIN colored \cup {n} |-> IF k = n THEN color ELSE colored[k]]
     ELSE UNCHANGED <<memory, colored>>
  /\ UNCHANGED <<offset, ledCount, level, pin, begun, driven, stripFaults>>

(* The colour packed in 32 bits: white, red, green, blue, whatever order    *)
(* the strip has.                                                           *)
Shift(c) == CASE c = "w" -> ByteLevels * ByteLevels * ByteLevels
              [] c = "r" -> ByteLevels * ByteLevels
              [] c = "g" -> ByteLevels
              [] c = "b" -> 1

Color(w, r, g, b) == w * Shift("w") + r * Shift("r") + g * Shift("g") + b
Unpacked(packed)  == [c \in Channels |-> (packed \div Shift(c)) % ByteLevels]

setPixelRGB(n, r, g, b)     == PaintPixel(n, [w |-> 0, r |-> r, g |-> g, b |-> b])
setPixelRGBW(n, r, g, b, w) == PaintPixel(n, [w |-> w, r |-> r, g |-> g, b |-> b])
setPixelPacked(n, packed)   == PaintPixel(n, Unpacked(packed))

(* What getPixelColor tells of a channel, and of an LED.  The parts are     *)
(* joined with OR, as numbers that do not overlap: more than eight bits in  *)
(* one of them would run into the next.                                     *)
Restored(byte) == IF level = 0 THEN byte ELSE (byte * ByteLevels) \div level

ByteOf(n, c) == memory[n * BytesEach(offset) + offset[c]]

getPixelColor(n) ==
  IF n >= ledCount THEN 0
  ELSE Color(IF HasWhite(offset) THEN Restored(ByteOf(n, "w")) ELSE 0,
             Restored(ByteOf(n, "r")), Restored(ByteOf(n, "g")), Restored(ByteOf(n, "b")))

clearStrip ==
  /\ StripCall /\ memory' = [i \in DOMAIN memory |-> 0]
  /\ colored' = [n \in 0 .. ledCount - 1 |-> [c \in Channels |-> 0]]
  /\ UNCHANGED <<offset, ledCount, level, pin, begun, driven, stripFaults>>

(***************************************************************************)
(* The brightness.                                                          *)
(***************************************************************************)
(* Mutant of RatioTo: the whole brightness instead of one less.             *)
RatioToUp(bright) ==
  LET old == (level + ByteLevels - 1) % ByteLevels
      new == (bright + 1) % ByteLevels
  IN  IF old = 0 THEN 0
      ELSE IF bright = ByteLevels - 1 THEN (ByteLevels * ByteLevels) \div old
      ELSE (new * ByteLevels) \div old

RatioTo(bright) ==
  LET old == (level + ByteLevels - 1) % ByteLevels
      new == (bright + 1) % ByteLevels
  IN  IF old = 0 THEN 0
      ELSE IF bright = ByteLevels - 1 THEN (ByteLevels * ByteLevels - 1) \div old
      ELSE (new * ByteLevels - 1) \div old

setLevel(bright) ==
  LET new == (bright + 1) % ByteLevels
  IN  /\ StripCall /\ level' = new
      /\ IF new = level THEN UNCHANGED <<memory, colored>>
         ELSE /\ memory' = [i \in DOMAIN memory |-> ((memory[i] * RatioTo(bright)) \div ByteLevels) % ByteLevels]
              /\ colored' = Nil
      /\ UNCHANGED <<offset, ledCount, pin, begun, driven, stripFaults>>

(* LEDs one may ask for: those of the strip, and one behind its end.        *)
AnyLed == 0 .. ledCount

ColorsNext ==
  \/ \E n \in StripLengths : updateLength(n)
  \/ \E order \in StripTypes : updateType(order)
  \/ \E p \in StripPins : setPin(p)
  \/ beginStrip \/ clearStrip
  \/ \E n \in AnyLed, r, g, b \in Shades :
       \/ setPixelRGB(n, r, g, b)
       \/ \E w \in Shades : setPixelRGBW(n, r, g, b, w) \/ setPixelPacked(n, Color(w, r, g, b))
  \/ \E bright \in StripLevels : setLevel(bright)

ColorsSpec == ColorsInit /\ [][ColorsNext]_colorVars

(***************************************************************************)
(* Properties.                                                              *)
(***************************************************************************)

(* The memory is what the LEDs of the strip need in its type, whatever was  *)
(* changed first and whether malloc has failed: show() sends numBytes of it *)
(* and setPixelColor writes BytesEach after BytesEach.                      *)
MemoryFits == DOMAIN memory = 0 .. ledCount * BytesEach(offset) - 1

(* A colour is read back as it was set, in every type and whatever was done *)
(* to other LEDs since: exactly at full brightness; else no brighter, and   *)
(* darker by less than a step of that brightness.  A strip without white    *)
(* tells of none.                                                           *)
ReadBack ==
  \A n \in DOMAIN colored, c \in Channels :
    LET readShade == Unpacked(getPixelColor(n))[c]
        set  == IF c = "w" /\ ~HasWhite(offset) THEN 0 ELSE colored[n][c]
    IN  /\ readShade <= set
        /\ IF level = 0 THEN readShade = set ELSE (set - readShade - 1) * level < ByteLevels

(* No channel scaled back takes more than its eight bits, however often the *)
(* brightness was changed: it would run into the channel next to it.        *)
NoCarry == \A i \in DOMAIN memory : Restored(memory[i]) < ByteLevels

(* The strip drives its own pin and no other.                               *)
OwnPin == driven \subseteq {pin}

(* What holds of the memory of a strip after every call.                    *)
ColorsInv == ColorsTypeOK /\ MemoryFits /\ ReadBack /\ NoCarry /\ OwnPin
=============================================================================
