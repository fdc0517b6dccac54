---------------------------- MODULE OLEDDrawing ----------------------------
(***************************************************************************)
(* The drawing functions of OLEDDisplay.cpp on the frame buffer of the      *)
(* display: a byte holds eight pixels that lie below each other, so lines   *)
(* and images are put together from masks and shifts.  A byte is the set of *)
(* its bits that are set; the reference beside it is the set of the pixels  *)
(* that are lit, drawn by their coordinates alone.                          *)
(***************************************************************************)
EXTENDS Integers, FiniteSetsExt

CONSTANTS
  DISPLAY_WIDTH,   (* 128 in the code                                        *)
  Pages,           (* DISPLAY_HEIGHT / 8; 8 in the code                      *)
  Xs, Ys,          (* coordinates that are drawn at                          *)
  Sizes,           (* widths, heights and lengths                            *)
  Radii,
  Image,           (* the image that is drawn: a set of pixels <<x, y>> ...  *)
  ImageWidth, ImageHeight,   (* ... of this size                             *)
  Backdrops,       (* the pictures that are drawn on: sets of rows that are lit *)
  MaxDraws         (* bound: calls of a drawing function on a backdrop       *)

ASSUME DrawingAssumption ==
  /\ DISPLAY_WIDTH \in Nat \ {0} /\ Pages \in Nat \ {0}
  /\ Xs \subseteq Int /\ Ys \subseteq Int /\ Sizes \subseteq Nat /\ Radii \subseteq Nat \ {0}
  /\ ImageWidth \in Nat /\ ImageHeight \in Nat
  /\ Image \subseteq (0 .. ImageWidth - 1) \X (0 .. ImageHeight - 1) /\ MaxDraws \in Nat
  /\ \A lines \in Backdrops : lines \subseteq Nat

DISPLAY_HEIGHT == 8 * Pages
Screen == (0 .. DISPLAY_WIDTH - 1) \X (0 .. DISPLAY_HEIGHT - 1)
Colors == {"WHITE", "BLACK", "INVERSE"}
Byte   == SUBSET (0 .. 7)

VARIABLES
  buffer,   (* buffer[p][x]: the byte of page p, column x                    *)
  lit,      (* history: the pixels that should be lit                        *)
  shape,    (* history: the circle drawn last, <<>> after anything else      *)
  draws

drawVars == <<buffer, lit, shape, draws>>

DrawingTypeOK ==
  /\ buffer \in [0 .. Pages - 1 -> [0 .. DISPLAY_WIDTH - 1 -> Byte]]
  /\ lit \subseteq Screen /\ draws \in -1 .. MaxDraws
  /\ shape = <<>> \/ shape \in [disc : BOOLEAN, x0 : Xs, y0 : Ys, radius : Radii]

(* clear()                                                                  *)
Blank == [p \in 0 .. Pages - 1 |-> [x \in 0 .. DISPLAY_WIDTH - 1 |-> {}]]

DrawingInit == buffer = Blank /\ lit = {} /\ shape = <<>> /\ draws = -1

(* |= mask, &= ~mask and ^= mask.                                           *)
Paint(color, s, mask) ==
  CASE color = "WHITE" -> s \cup mask [] color = "BLACK" -> s \ mask
    [] color = "INVERSE" -> SymDiff(s, mask)

ShiftLeft(byte, n)  == {b + n : b \in byte} \cap 0 .. 7
ShiftRight(byte, n) == {b - n : b \in byte} \cap 0 .. 7

Smaller(a, b) == IF a < b THEN a ELSE b
Larger(a, b)  == IF a > b THEN a ELSE b
Abs(n)      == IF n < 0 THEN -n ELSE n

(* A picture with each byte painted with a mask, page by page.              *)
Painted(picture, color, Mask(_, _)) ==
  [p \in 0 .. Pages - 1 |-> [x \in 0 .. DISPLAY_WIDTH - 1 |->
     Paint(color, picture[p][x], Mask(p, x))]]

LitIn(picture) == {p \in Screen : p[2] % 8 \in picture[p[2] \div 8][p[1]]}

(* What earlier calls have left: full horizontal lines.                     *)
Backdrop(lines) ==
  /\ draws = -1 /\ draws' = 0
  /\ buffer' = Painted(Blank, "WHITE", LAMBDA p, x : {b \in 0 .. 7 : 8 * p + b \in lines})
  /\ lit' = {p \in Screen : p[2] \in lines}
  /\ UNCHANGED shape

(* One call: the buffer is painted by the code, the reference by itself.    *)
Draw(picture, color, points) ==
  /\ draws \in 0 .. MaxDraws - 1 /\ draws' = draws + 1
  /\ buffer' = picture
  /\ lit' = Paint(color, lit, points \cap Screen)
  /\ shape' = <<>>

(***************************************************************************)
(* setPixel, and the functions made of it: the mask of a byte is what the   *)
(* calls of setPixel hit.                                                   *)
(***************************************************************************)
Dots(color, points) ==
  Painted(buffer, color, LAMBDA p, x : {b \in 0 .. 7 : <<x, 8 * p + b>> \in points})

setPixel(x, y, color) ==
  Draw(IF x >= 0 /\ x < DISPLAY_WIDTH /\ y >= 0 /\ y < DISPLAY_HEIGHT
       THEN [buffer EXCEPT ![y \div 8][x] = Paint(color, @, {y % 8})] ELSE buffer,
       color, {<<x, y>>})

(* drawLine: err is counted down by dy for each step along the longer axis, *)
(* and a step across is made when it falls below zero.                      *)
Bresenham(dx, dy) ==
  LET after[k \in 0 .. dx] ==   (* <<steps across, err>> after k steps along  *)
        IF k = 0 THEN <<0, dx \div 2>>
        ELSE LET last == after[k - 1]
             IN  IF last[2] < dy THEN <<last[1] + 1, last[2] - dy + dx>>
                                 ELSE <<last[1], last[2] - dy>>
  IN  after

LinePixels(x0, y0, x1, y1) ==
  LET steep  == Abs(y1 - y0) > Abs(x1 - x0)
      turned == IF steep THEN <<y0, x0, y1, x1>> ELSE <<x0, y0, x1, y1>>
      run    == IF turned[1] > turned[3] THEN <<turned[3], turned[4], turned[1], turned[2]>>
                ELSE turned
      dx     == run[3] - run[1]
      ystep  == IF run[2] < run[4] THEN 1 ELSE -1
      across == Bresenham(dx, Abs(run[4] - run[2]))
      point(k) == <<run[1] + k, run[2] + ystep * across[k][1]>>
  IN  {IF steep THEN <<point(k)[2], point(k)[1]>> ELSE point(k) : k \in 0 .. dx}

(* The reference: for each step along the longer axis the pixel nearest to  *)
(* the line, the one nearer to the end with the smaller coordinate if two   *)
(* are as near.                                                             *)
NearestPixels(x0, y0, x1, y1) ==
  LET long == IF Abs(y1 - y0) > Abs(x1 - x0) THEN 2 ELSE 1
      a    == IF <<x0, y0>>[long] <= <<x1, y1>>[long] THEN <<x0, y0>> ELSE <<x1, y1>>
      b    == IF a = <<x0, y0>> THEN <<x1, y1>> ELSE <<x0, y0>>
      dl   == b[long] - a[long]
      ds   == b[3 - long] - a[3 - long]
      off(p) == 2 * (dl * (p[3 - long] - a[3 - long]) - ds * (p[long] - a[long]))
  IN  {p \in (Smaller(x0, x1) .. Larger(x0, x1)) \X (Smaller(y0, y1) .. Larger(y0, y1)) :
         \/ Abs(off(p)) < dl \/ p = a
         \/ Abs(off(p)) = dl /\ (off(p) < 0) = (ds > 0)}

drawLine(x0, y0, x1, y1, color) ==
  Draw(Dots(color, LinePixels(x0, y0, x1, y1)), color, NearestPixels(x0, y0, x1, y1))

(***************************************************************************)
(* Lines along the bytes and across them.                                  *)
(***************************************************************************)
ClippedLength(from, length, limit) ==
  Smaller(IF from < 0 THEN length + from ELSE length, limit - Larger(from, 0))

HorizontalLine(picture, x, y, length, color) ==
  LET l == ClippedLength(x, length, DISPLAY_WIDTH)
      a == Larger(x, 0)
  IN  IF y < 0 \/ y >= DISPLAY_HEIGHT \/ l <= 0 THEN picture
      ELSE Painted(picture, color, LAMBDA p, c : IF p = y \div 8 /\ c \in a .. a + l - 1
                                           THEN {y % 8} ELSE {})

drawHorizontalLine(x, y, length, color) ==
  Draw(HorizontalLine(buffer, x, y, length, color), color, (x .. x + length - 1) \X {y})

(* Mutant of FirstMask: the mask of the first byte is not cut at the end of *)
(* a line that ends in it.                                                  *)
FirstMaskToEnd(yOffset, length) == (0 .. 7) \ ShiftRight(0 .. 7, yOffset)

FirstMask(yOffset, length) ==
  LET drawBit == (0 .. 7) \ ShiftRight(0 .. 7, yOffset)
  IN  IF length < yOffset THEN drawBit \cap ShiftRight(0 .. 7, yOffset - length) ELSE drawBit

(* The masks of the pages of a vertical line: the rest of the first byte,   *)
(* whole bytes, and (1 << (length & 7)) - 1 for what is left.               *)
VerticalMask(p, y, length) ==
  LET yOffset == (8 - (y % 8)) % 8
      first   == y \div 8
      rest    == length - yOffset      (* below the first byte, if that is cut *)
      page    == IF yOffset = 0 THEN p - first ELSE p - first - 1
  IN  CASE yOffset # 0 /\ p = first -> FirstMask(yOffset, length)
        [] page >= 0 /\ 8 * (page + 1) <= rest -> 0 .. 7
        [] page >= 0 /\ 8 * page < rest /\ rest < 8 * (page + 1) -> 0 .. (rest % 8) - 1
        [] OTHER -> {}

VerticalLine(picture, x, y, length, color) ==
  LET l == ClippedLength(y, length, DISPLAY_HEIGHT)
  IN  IF x < 0 \/ x >= DISPLAY_WIDTH \/ l <= 0 THEN picture
      ELSE Painted(picture, color, LAMBDA p, c : IF c = x THEN VerticalMask(p, Larger(y, 0), l) ELSE {})

drawVerticalLine(x, y, length, color) ==
  Draw(VerticalLine(buffer, x, y, length, color), color, {x} \X (y .. y + length - 1))

(* fillRect: a vertical line for each column.                               *)
fillRect(x, y, width, height, color) ==
  LET l == ClippedLength(y, height, DISPLAY_HEIGHT)
  IN  Draw(Painted(buffer, color, LAMBDA p, c :
             IF c \in x .. x + width - 1 /\ l > 0 THEN VerticalMask(p, Larger(y, 0), l) ELSE {}),
           color, (x .. x + width - 1) \X (y .. y + height - 1))

(* drawRect: the four sides one after the other.  With INVERSE a pixel that *)
(* two of them share is as before.                                          *)
Sides(x, y, width, height) ==
  <<(x .. x + width - 1) \X {y}, {x} \X (y .. y + height - 1),
    {x + width - 1} \X (y .. y + height - 1), (x .. x + width - 1) \X {y + height - 1}>>

RectPixels(x, y, width, height, color) ==
  {p \in UNION {Sides(x, y, width, height)[k] : k \in 1 .. 4} :
     color = "INVERSE" =>
       Cardinality({k \in 1 .. 4 : p \in Sides(x, y, width, height)[k]}) % 2 = 1}

drawRect(x, y, width, height, color) ==
  LET top   == HorizontalLine(buffer, x, y, width, color)
      left  == VerticalLine(top, x, y, height, color)
      right == VerticalLine(left, x + width - 1, y, height, color)
  IN  Draw(HorizontalLine(right, x, y + height - 1, width, color), color,
           RectPixels(x, y, width, height, color))

(***************************************************************************)
(* Circles, by the midpoint algorithm: the pairs <<x, y>> of the octant.  A *)
(* radius of 0, drawn as a point and its four diagonal neighbours, is left  *)
(* out.                                                                     *)
(***************************************************************************)
CircleRounds(radius) ==
  LET after[n \in 0 .. radius + 1] ==     (* <<x, y, dp>> after n rounds       *)
        IF n = 0 THEN <<0, radius, 1 - radius>>
        ELSE LET last == after[n - 1]
                 x    == last[1] + 1
                 y    == IF last[3] < 0 THEN last[2] ELSE last[2] - 1
             IN  <<x, y, last[3] + 2 * x + (IF last[3] < 0 THEN 3 ELSE 5 - 2 * y)>>
  IN  after

(* Mutant of Octant: the shorter coordinate is not counted down.            *)
OctantFlat(radius) == {<<n, radius>> : n \in 1 .. radius}

(* A round is made while x < y.                                             *)
Octant(radius) ==
  LET at == CircleRounds(radius)
  IN  {<<at[n][1], at[n][2]>> :
         n \in {m \in 1 .. radius + 1 : \A k \in 0 .. m - 1 : at[k][1] < at[k][2]}}

Mirrored(p) == {<<a * p[1], b * p[2]>> : a \in {1, -1}, b \in {1, -1}}
                 \cup {<<a * p[2], b * p[1]>> : a \in {1, -1}, b \in {1, -1}}

Around(x0, y0, offsets) == {<<x0 + o[1], y0 + o[2]>> : o \in offsets}

CircleOffsets(radius) ==
  (UNION {Mirrored(p) : p \in Octant(radius)}) \cup Mirrored(<<radius, 0>>)

(* drawHorizontalLine(x0 - x, y0 -+ y, 2*x): the last pixel is left out.    *)
DiscOffsets(radius) ==
  (UNION {(-p[1] .. p[1] - 1) \X {p[2], -p[2]} \cup (-p[2] .. p[2] - 1) \X {p[1], -p[1]} :
            p \in Octant(radius)})
    \cup (-radius .. radius - 1) \X {0}

DrawRound(isDisc, x0, y0, radius, offsets, color) ==
  /\ color = "WHITE" /\ lit = {}
  /\ draws \in 0 .. MaxDraws - 1 /\ draws' = draws + 1
  /\ buffer' = Dots(color, Around(x0, y0, offsets))
  /\ lit' = LitIn(buffer')
  /\ shape' = [disc |-> isDisc, x0 |-> x0, y0 |-> y0, radius |-> radius]

drawCircle(x0, y0, radius, color) ==
  DrawRound(FALSE, x0, y0, radius, CircleOffsets(radius), color)

fillCircle(x0, y0, radius, color) ==
  DrawRound(TRUE, x0, y0, radius, DiscOffsets(radius), color)

(* drawCircleQuads: the quarters right above, left above, left below and    *)
(* right below, as the bits 1, 2, 4 and 8 of quads.                         *)
InQuad(p, quad) ==
  CASE quad = 1 -> {<<p[1], -p[2]>>, <<p[2], -p[1]>>}
    [] quad = 2 -> {<<-p[2], -p[1]>>, <<-p[1], -p[2]>>}
    [] quad = 4 -> {<<-p[2], p[1]>>, <<-p[1], p[2]>>}
    [] quad = 8 -> {<<p[1], p[2]>>, <<p[2], p[1]>>}

(* The pixel between two quarters, if both are drawn.                       *)
Between(quads, radius) ==
  UNION {IF {join[1], join[2]} \subseteq quads THEN {join[3]} ELSE {} :
    join \in {<<1, 8, <<radius, 0>>>>, <<4, 8, <<0, radius>>>>,
             <<2, 4, <<-radius, 0>>>>, <<1, 2, <<0, -radius>>>>}}

QuadOffsets(radius, quads) ==
  (UNION {InQuad(p, quad) : p \in Octant(radius), quad \in quads}) \cup Between(quads, radius)

(* The reference: the pixels of the circle that lie in the quarters, and on *)
(* an axis in both quarters beside it; the smallest circle lies on the axes *)
(* altogether, and either of the two will do.                               *)
Quarters(radius, quads) ==
  LET beside(o) == (IF o[1] < 0 THEN {2, 4} ELSE IF o[1] > 0 THEN {1, 8} ELSE {1, 2, 4, 8})
                     \cap (IF o[2] < 0 THEN {1, 2} ELSE IF o[2] > 0 THEN {4, 8} ELSE {1, 2, 4, 8})
  IN  {o \in CircleOffsets(radius) :
         IF radius = 1 THEN beside(o) \cap quads # {} ELSE beside(o) \subseteq quads}

drawCircleQuads(x0, y0, radius, quads, color) ==
  /\ color # "INVERSE"
  /\ Draw(Dots(color, Around(x0, y0, QuadOffsets(radius, quads))), color,
          Around(x0, y0, Quarters(radius, quads)))

(***************************************************************************)
(* drawXbm: an image in bytes of eight pixels beside each other, row by     *)
(* row, the last byte of a row filled up; a byte is moved to the right by a *)
(* bit for each pixel.                                                      *)
(***************************************************************************)
widthInXbm == (ImageWidth + 7) \div 8
XbmByte(i) == {b \in 0 .. 7 : <<8 * (i % widthInXbm) + b, i \div widthInXbm>> \in Image}
XbmBit(x, y) == 0 \in ShiftRight(XbmByte(x \div 8 + y * widthInXbm), x % 8)

drawXbm(x, y, color) ==
  Draw(Dots(color, Around(x, y, {p \in (0 .. ImageWidth - 1) \X (0 .. ImageHeight - 1) : XbmBit(p[1], p[2])})),
       color, Around(x, y, Image))

(***************************************************************************)
(* drawInternal: an image is bytes of eight pixels below each other, column *)
(* by column; each is shifted by yMove & 7 and falls on two bytes of the    *)
(* buffer.  A byte whose upper half is above the display is left out        *)
(* altogether.                                                              *)
(***************************************************************************)
RasterHeight == 1 + (ImageHeight - 1) \div 8
ImageByte(column, row) == {b \in 0 .. 7 : <<column, 8 * row + b>> \in Image}

ImageMask(p, x, xMove, yMove) ==
  LET column == x - xMove
      yOffset == yMove % 8
      Part(q) ==  (* the byte whose upper half falls on page q                *)
        IF column \in 0 .. ImageWidth - 1 /\ q - (yMove \div 8) \in 0 .. RasterHeight - 1 /\ q >= 0
        THEN ImageByte(column, q - (yMove \div 8)) ELSE {}
  IN  ShiftLeft(Part(p), yOffset) \cup ShiftRight(Part(p - 1), 8 - yOffset)

(* The rows of the image that are lost at the top of the display.           *)
LostAbove(yMove) ==
  IF yMove < 0 /\ yMove % 8 # 0 THEN 0 .. (yMove % 8) - 1 ELSE {}

drawFastImage(x, y, color) ==
  Draw(IF y + ImageHeight < 0 \/ y > DISPLAY_HEIGHT \/ x + ImageWidth < 0 \/ x > DISPLAY_WIDTH
       THEN buffer ELSE Painted(buffer, color, LAMBDA p, c : ImageMask(p, c, x, y)),
       color, {p \in Around(x, y, Image) : p[2] \notin LostAbove(y)})

DrawingNext ==
  \/ \E lines \in Backdrops : Backdrop(lines)
  \/ \E x \in Xs, y \in Ys, c \in Colors :
       \/ setPixel(x, y, c)
       \/ \E l \in Sizes : drawHorizontalLine(x, y, l, c) \/ drawVerticalLine(x, y, l, c)
       \/ \E w \in Sizes, h \in Sizes : fillRect(x, y, w, h, c) \/ drawRect(x, y, w, h, c)
       \/ \E x1 \in Xs, y1 \in Ys : drawLine(x, y, x1, y1, c)
       \/ \E r \in Radii : drawCircle(x, y, r, c) \/ fillCircle(x, y, r, c)
       \/ \E r \in Radii, quads \in SUBSET {1, 2, 4, 8} : drawCircleQuads(x, y, r, quads, c)
       \/ drawFastImage(x, y, c) \/ drawXbm(x, y, c)

DrawingSpec == DrawingInit /\ [][DrawingNext]_drawVars
(***************************************************************************)
(* Properties.                                                             *)
(***************************************************************************)

(* Whatever is drawn, in whatever colour, across the bytes and across the   *)
(* edges of the display, the pixels lit are those the picture asks for:     *)
(* every mask, shift and clipped length of OLEDDisplay.cpp:224-328 and 730  *)
(* against the coordinates.  The one exception is part of the reference:    *)
(* LostAbove, the rows of an image that begins above the display.           *)
PixelsAgree == LitIn(buffer) = lit

(* A circle keeps within a pixel outside and two inside of its radius, and  *)
(* a filled one leaves no hole.  The midpoint error is counted with the     *)
(* coordinate already moved on (OLEDDisplay.cpp:143), so this is no         *)
(* textbook circle: from a radius of 11 on it is flattened by more than a   *)
(* pixel between the axes.                                                  *)
CircleRound ==
  shape # <<>> =>
    LET r == shape.radius IN
    \A p \in Screen :
      LET dx == Abs(p[1] - shape.x0)
          dy == Abs(p[2] - shape.y0)
          d  == dx * dx + dy * dy
      IN  /\ p \in lit => d <= (r + 1) * (r + 1)
          /\ p \in lit /\ ~shape.disc => d >= (r - 2) * (r - 2)
          /\ shape.disc /\ (dx + 1) * (dx + 1) + (dy + 1) * (dy + 1) <= r * r => p \in lit

(* What holds of the frame buffer after each drawing function.              *)
DrawingInv == DrawingTypeOK /\ PixelsAgree /\ CircleRound
=============================================================================
