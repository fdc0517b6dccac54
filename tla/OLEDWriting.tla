---------------------------- MODULE OLEDWriting ----------------------------
(***************************************************************************)
(* What a sketch writes on the display, OLEDDisplay.cpp: the log buffer,    *)
(* the rows drawStringMaxWidth() breaks a text into, and the characters of  *)
(* a string.  The three share no state.                                     *)
(***************************************************************************)
EXTENDS Integers, SequencesExt, FiniteSetsExt

(***************************************************************************)
(* The log buffer of the display, OLEDDisplay.cpp: write() fills it, the    *)
(* oldest line makes room for a new one, drawLogBuffer() draws its lines.   *)
(* setLogBuffer() is called once: a second call frees the buffer and keeps  *)
(* logBufferFilled, and what the display then shows is whatever the memory  *)
(* holds.                                                                   *)
(***************************************************************************)
CONSTANTS
  LogSizes,   (* pairs <<lines, chars>> passed to setLogBuffer              *)
  Letters,    (* the characters that are written, besides the line end      *)
  MaxWritten  (* bound: characters written                                  *)

NewLine  == "nl"
LogChars == Letters \cup {NewLine}

ASSUME LogAssumption ==
  /\ LogSizes \subseteq (Nat \ {0}) \X (Nat \ {0}) /\ NewLine \notin Letters
  /\ MaxWritten \in Nat

VARIABLES
  logBuffer,         (* its logBufferFilled characters                       *)
  logBufferLine, logBufferMaxLines, logBufferSize,
  written,           (* history: what was written                            *)
  cut                (* history: a line was dropped for want of room         *)

logVars == <<logBuffer, logBufferLine, logBufferMaxLines, logBufferSize, written, cut>>

LogTypeOK ==
  /\ logBuffer \in Seq(LogChars) /\ Len(logBuffer) <= logBufferSize
  /\ logBufferLine \in 0 .. logBufferMaxLines
  /\ logBufferMaxLines \in Nat /\ logBufferSize \in Nat
  /\ written \in Seq(LogChars) /\ Len(written) <= MaxWritten /\ cut \in BOOLEAN

LogInit ==
  /\ logBuffer = <<>> /\ logBufferLine = 0 /\ logBufferMaxLines = 0 /\ logBufferSize = 0
  /\ written = <<>> /\ cut = FALSE

setLogBuffer(lines, chars) ==
  /\ logBufferSize = 0
  /\ logBufferMaxLines' = lines /\ logBufferSize' = lines * chars
  /\ UNCHANGED <<logBuffer, logBufferLine, written, cut>>

(***************************************************************************)
(* write(): when the buffer or the number of lines is at its limit the      *)
(* first line is dropped, or all of a full buffer that holds no line end,   *)
(* and the call is made again; one such round makes room.                   *)
(***************************************************************************)
MaxLineReached == logBufferLine >= logBufferMaxLines
BufferFull     == Len(logBuffer) >= logBufferSize
LineEnds       == {i \in DOMAIN logBuffer : logBuffer[i] = NewLine}

(* Mutant of Dropped: a full buffer loses its last character only.          *)
DroppedLast ==
  IF LineEnds # {} THEN SubSeq(logBuffer, Min(LineEnds) + 1, Len(logBuffer))
  ELSE IF BufferFull THEN Front(logBuffer) ELSE logBuffer

Dropped ==
  IF LineEnds # {} THEN SubSeq(logBuffer, Min(LineEnds) + 1, Len(logBuffer))
  ELSE IF BufferFull THEN <<>> ELSE logBuffer

(* Mutant of LinesLeft: the count of lines starts again.                    *)
LinesAnew == IF MaxLineReached THEN 0 ELSE logBufferLine

LinesLeft == IF MaxLineReached THEN logBufferLine - 1 ELSE logBufferLine

write(c) ==
  /\ logBufferSize > 0 /\ Len(written) < MaxWritten
  /\ written' = Append(written, c)
  /\ logBuffer' = Append(IF MaxLineReached \/ BufferFull THEN Dropped ELSE logBuffer, c)
  /\ logBufferLine' = LinesLeft + (IF c = NewLine THEN 1 ELSE 0)
  /\ cut' = (cut \/ (BufferFull /\ ~MaxLineReached))
  /\ UNCHANGED <<logBufferMaxLines, logBufferSize>>

(* drawLogBuffer(): row k is drawn from lastPos, the end of the line before *)
(* (the first row from the start), with the length of the line and its end. *)
(* What no line end closes is drawn last, one character short of its end.   *)
EndsTo(i)  == {e \in LineEnds : e <= i}
LineEnd(k) == CHOOSE e \in LineEnds : Cardinality(EndsTo(e)) = k

(* Mutant of LogRow: the length goes on from row to row.                    *)
LogRowLonger(k) ==
  LET lastPos == IF k = 1 THEN 1 ELSE LineEnd(k - 1)
  IN  IF k <= Cardinality(LineEnds) THEN lastPos .. lastPos + LineEnd(k) - 1
      ELSE lastPos .. Len(logBuffer) - 1

LogRow(k) ==
  LET lastPos == IF k = 1 THEN 1 ELSE LineEnd(k - 1)
      length  == (IF k <= Cardinality(LineEnds) THEN LineEnd(k) ELSE Len(logBuffer))
                   - (IF k = 1 THEN 0 ELSE lastPos)
  IN  lastPos .. lastPos + length - 1

LogNext ==
  \/ \E size \in LogSizes : setLogBuffer(size[1], size[2])
  \/ \E c \in LogChars : write(c)

LogSpec == LogInit /\ [][LogNext]_logVars

(***************************************************************************)
(* Properties.                                                             *)
(***************************************************************************)

(* What the buffer holds is the end of what was written, with no hole.      *)
LogIsSuffix == IsSuffix(logBuffer, written)

(* As long as no line had to go because the buffer was full, the count of   *)
(* lines is right.  Such a line is dropped and still counted                *)
(* (OLEDDisplay.cpp:628-649): from there on the log keeps fewer and fewer   *)
(* lines, but the count never falls below those it holds.                   *)
LinesCounted ==
  /\ Cardinality(LineEnds) <= logBufferLine
  /\ ~cut => Cardinality(LineEnds) = logBufferLine

(* drawLogBuffer draws each character in the row of its line and nowhere    *)
(* else; only the last one of a line without an end can be missing, when it *)
(* is not the first line (OLEDDisplay.cpp:582, 591).                        *)
RowsShowLog ==
  \A i \in DOMAIN logBuffer \ LineEnds :
    LET own     == 1 + Cardinality({e \in LineEnds : e < i})
        drawnIn == {k \in 1 .. Cardinality(LineEnds) + 1 : i \in LogRow(k)}
    IN  \/ drawnIn = {own}
        \/ drawnIn = {} /\ i = Len(logBuffer) /\ own > 1

(* What holds of the log after each character (OLEDDisplay.cpp:612-658).    *)
LogInv == LogTypeOK /\ LogIsSuffix /\ LinesCounted /\ RowsShowLog

(***************************************************************************)
(* drawStringMaxWidth() of OLEDDisplay.cpp: it breaks a text into rows of   *)
(* at most a given width, at a space or a dash where there is one.          *)
(***************************************************************************)
CONSTANTS
  Wide,       (* letters of a text                                           *)
  CharWidth,  (* CharWidth[c]: the width of a letter, or of the break        *)
  MaxWidths,  (* the widths passed to drawStringMaxWidth                     *)
  MaxText     (* bound: length of a text                                     *)

Break     == "sp"        (* ' ' or '-' *)
TextChars == Wide \cup {Break}

ASSUME TextAssumption ==
  /\ Break \notin Wide /\ CharWidth \in [TextChars -> Nat \ {0}]
  /\ MaxWidths \subseteq Nat /\ MaxText \in Nat

VARIABLES
  text,          (* text[i]: character i of the text, from 0 on              *)
  rows,          (* the rows drawn: pairs <<first, last>> of positions       *)
  maxLineWidth

textVars == <<text, rows, maxLineWidth>>

TextTypeOK ==
  /\ DOMAIN text \subseteq 0 .. MaxText - 1 /\ \A i \in DOMAIN text : text[i] \in TextChars
  /\ maxLineWidth \in Nat
  /\ \A k \in DOMAIN rows : rows[k] \in (0 .. MaxText) \X (-1 .. MaxText - 1)

TextInit == text = [i \in {} |-> Break] /\ rows = <<>> /\ maxLineWidth = 0

StartRow == [lastDrawnPos |-> 0, strWidth |-> 0, preferredBreakpoint |-> 0,
             widthAtBreakpoint |-> 0, rows |-> <<>>]

(* Mutant of Rest: the width of what follows the break is forgotten.        *)
NoRest(width, widthAtBreakpoint) == 0

Rest(width, widthAtBreakpoint) == width - widthAtBreakpoint

(* Mutant of BreakAt: a row is broken at the character that is too much.    *)
BreakHere(break, i, width) == <<i, width>>

BreakAt(break, i, width) == IF break[1] = 0 THEN <<i, width>> ELSE break

(***************************************************************************)
(* One round of the loop, r the locals before it.  A breakpoint of 0 stands *)
(* for none; a row is drawn when the width is reached, up to the breakpoint *)
(* or to this character, and the character it breaks at is not drawn.       *)
(***************************************************************************)
NextChar(r, i, s, width) ==
  LET w     == r.strWidth + CharWidth[s[i]]
      break == IF s[i] = Break THEN <<i, w>> ELSE <<r.preferredBreakpoint, r.widthAtBreakpoint>>
      here  == BreakAt(break, i, w)
  IN  IF w >= width
      THEN [lastDrawnPos |-> here[1] + 1, strWidth |-> Rest(w, here[2]),
            preferredBreakpoint |-> 0, widthAtBreakpoint |-> here[2],
            rows |-> Append(r.rows, <<r.lastDrawnPos, here[1] - 1>>)]
      ELSE [r EXCEPT !.strWidth = w, !.preferredBreakpoint = break[1],
                     !.widthAtBreakpoint = break[2]]

Turns(s, width) ==
  LET after[i \in 0 .. Cardinality(DOMAIN s)] ==
        IF i = 0 THEN StartRow ELSE LET r == after[i - 1] IN NextChar(r, i - 1, s, width)
  IN  after

RowsOf(s, width) ==
  LET n   == Cardinality(DOMAIN s)
      end == Turns(s, width)[n]
  IN  IF end.lastDrawnPos < n THEN Append(end.rows, <<end.lastDrawnPos, n - 1>>) ELSE end.rows

drawStringMaxWidth(s, width) ==
  /\ text = [i \in {} |-> Break]
  /\ text' = s /\ maxLineWidth' = width /\ rows' = RowsOf(s, width)

TextNext ==
  \E n \in 1 .. MaxText : \E s \in [0 .. n - 1 -> TextChars], width \in MaxWidths :
    drawStringMaxWidth(s, width)

TextSpec == TextInit /\ [][TextNext]_textVars

(***************************************************************************)
(* Properties.                                                             *)
(***************************************************************************)
WidthBefore[i \in 0 .. Cardinality(DOMAIN text)] ==
  IF i = 0 THEN 0 ELSE WidthBefore[i - 1] + CharWidth[text[i - 1]]

Width(row) == WidthBefore[row[2] + 1] - WidthBefore[row[1]]

(* The rows follow each other through the text: exactly the character a row *)
(* is broken at is left out between two of them, and at the end at most one.*)
(* That character is a letter only in a row without a break: words that are *)
(* too long by themselves are broken, and no others.                        *)
TextKept ==
  rows # <<>> =>
    /\ rows[1][1] = 0
    /\ Cardinality(DOMAIN text) - 1 - rows[Len(rows)][2] \in {0, 1}
    /\ \A k \in 1 .. Len(rows) - 1 :
         /\ rows[k + 1][1] = rows[k][2] + 2
         /\ text[rows[k][2] + 1] # Break =>
              \A i \in rows[k][1] .. rows[k][2] : text[i] # Break \/ i = 0

(* Every row is empty or narrower than the width it was given: what is moved *)
(* to the next row is counted there.  Only behind a row that is, with its break,   *)
(* narrower than a character can a row be wider, and by less than that      *)
(* character: what is left is compared again only with the next one.        *)
RowsFit ==
  \A k \in DOMAIN rows :
    \/ Width(rows[k]) < maxLineWidth \/ Width(rows[k]) = 0
    \/ k > 1 /\ \E c \in TextChars :
         Width(rows[k]) + Width(<<rows[k - 1][1], rows[k - 1][2] + 1>>)
           < maxLineWidth + CharWidth[c]

(* What holds of the rows a text is drawn in (OLEDDisplay.cpp:455-499).     *)
TextInv == TextTypeOK /\ TextKept /\ RowsFit

(***************************************************************************)
(* Strings on the display: utf8ascii, getStringWidth, drawString and        *)
(* drawStringInternal (OLEDDisplay.cpp).  A string of UTF-8 becomes one of  *)
(* the Latin-1 codes of the fonts, is cut into lines and drawn character by *)
(* character; drawInternal, which draws a character, is in OLEDDrawing.     *)
(***************************************************************************)
Newline == 10

CONSTANTS
  Characters,   (* [utf8, code]: its bytes, and its code in the fonts, 0 if *)
                (* they do not have it                                      *)
  GlyphWidth,   (* of a code                                                *)
  lineHeight, firstChar, (* of the font                                     *)
  SCREEN_WIDTH, SCREEN_HEIGHT,
  CURSOR,       (* the cursor counts to CURSOR - 1, 255 in the code         *)
  Positions,    (* where strings are drawn                                  *)
  Texts         (* the strings drawn: sequences of characters               *)

ASSUME StringsAssumption ==
  /\ {lineHeight, CURSOR} \subseteq Nat \ {0} /\ {firstChar, SCREEN_WIDTH, SCREEN_HEIGHT} \subseteq Nat
  /\ \A c \in Characters : c.code \in {0, Newline} \/ c.code >= firstChar
  /\ \A chars \in Texts : chars \in Seq(Characters)

Alignments == {"LEFT", "RIGHT", "CENTER", "CENTER_BOTH"}
NoPlace    == [text |-> <<>>, at |-> <<0, 0>>, align |-> "LEFT"]

VARIABLES
  LASTCHAR,     (* the static variable of utf8ascii                         *)
  drawnText,    (* the string that was drawn: [text, at, align]             *)
  glyphs        (* what is drawn: [code, x, y]                              *)

stringsVars == <<LASTCHAR, drawnText, glyphs>>

StringsTypeOK ==
  /\ LASTCHAR \in 0 .. 255 /\ drawnText.align \in Alignments
  /\ \A i \in DOMAIN glyphs : glyphs[i].code \in 1 .. 255

StringsInit == LASTCHAR = 0 /\ drawnText = NoPlace /\ glyphs = <<>>

(***************************************************************************)
(* utf8ascii.                                                               *)
(***************************************************************************)
(* A byte behind the byte last; bit 7 and 6 are set where the code has them.*)
(* Mutant of ascii: they are not.                                           *)
asciiPlain(last, b) ==
  CASE b < 128 -> b
    [] b >= 128 /\ last \in {194, 195} -> b
    [] b >= 128 /\ last = 130 /\ b = 172 -> 128
    [] OTHER -> 0

ascii(last, b) ==
  CASE b < 128 -> b
    [] b >= 128 /\ last = 194 -> b
    [] b >= 128 /\ last = 195 -> IF b < 192 THEN b + 64 ELSE b
    [] b >= 128 /\ last = 130 /\ b = 172 -> 128
    [] OTHER -> 0

After(b) == IF b < 128 THEN 0 ELSE b

utf8ascii(last, bytes) ==
  SelectSeq([i \in DOMAIN bytes |-> ascii(IF i = 1 THEN last ELSE After(bytes[i - 1]), bytes[i])],
            LAMBDA code : code # 0)

(***************************************************************************)
(* drawString.                                                              *)
(***************************************************************************)
(* strtok: lines of at least one character.                                 *)
LinesOf(codes) ==
  LET starts == {i \in DOMAIN codes : codes[i] # Newline /\ (i = 1 \/ codes[i - 1] = Newline)}
      end(i) == Max({k \in i .. Len(codes) : \A j \in i .. k : codes[j] # Newline})
      from   == SetToSortSeq(starts, LAMBDA a, b : a < b)
  IN  [k \in DOMAIN from |-> SubSeq(codes, from[k], end(from[k]))]

getStringWidth(textLine) == FoldLeft(LAMBDA w, code : w + GlyphWidth[code], 0, textLine)

(* Mutant of TextTop: every line counts, not only those behind a newline.   *)
TextTopLines(codes, align) ==
  IF align = "CENTER_BOTH" THEN ((Len(SelectSeq(codes, LAMBDA c : c = Newline)) + 1) * lineHeight) \div 2 ELSE 0

TextTop(codes, align) ==
  IF align = "CENTER_BOTH" THEN (Len(SelectSeq(codes, LAMBDA c : c = Newline)) * lineHeight) \div 2 ELSE 0

(* drawStringInternal: where a line begins, whether it can be seen, and its *)
(* characters.                                                              *)
LeftOf(x, width, align) ==
  CASE align \in {"CENTER", "CENTER_BOTH"} -> x - width \div 2
    [] align = "RIGHT" -> x - width
    [] OTHER -> x

TopOf(y, align) == IF align = "CENTER_BOTH" THEN y - lineHeight \div 2 ELSE y

OnScreen(x, y, width) ==
  /\ x + width >= 0 /\ x <= SCREEN_WIDTH
  /\ y + lineHeight >= 0 /\ y <= SCREEN_HEIGHT

(* Mutant of AfterGlyph: the cursor moves before the character is drawn.    *)
AfterGlyphFirst(textLine, j) == getStringWidth(SubSeq(textLine, 1, j)) % CURSOR

AfterGlyph(textLine, j) == getStringWidth(SubSeq(textLine, 1, j - 1)) % CURSOR

drawStringInternal(x, y, textLine, align) ==
  LET left == LeftOf(x, getStringWidth(textLine), align)
      top  == TopOf(y, align)
      all  == [j \in DOMAIN textLine |-> [code |-> textLine[j], x |-> left + AfterGlyph(textLine, j), y |-> top]]
  IN  IF OnScreen(left, top, getStringWidth(textLine))
      THEN SelectSeq(all, LAMBDA g : g.code >= firstChar) ELSE <<>>

drawString(chars, at, align) ==
  LET bytes == FlattenSeq([i \in DOMAIN chars |-> chars[i].utf8]) IN
  /\ drawnText = NoPlace /\ drawnText' = [text |-> chars, at |-> at, align |-> align]
  /\ \E codes \in {utf8ascii(LASTCHAR, bytes)} : \E lines \in {LinesOf(codes)} :
       glyphs' = FlattenSeq([k \in DOMAIN lines |->
         drawStringInternal(at[1], at[2] - TextTop(codes, align) + (k - 1) * lineHeight, lines[k], align)])
  /\ LASTCHAR' = IF bytes = <<>> THEN LASTCHAR ELSE After(Last(bytes))

(* The next string, on a cleared display.                                   *)
clearStrings == drawnText # NoPlace /\ drawnText' = NoPlace /\ glyphs' = <<>> /\ UNCHANGED LASTCHAR

StringsNext ==
  \/ clearStrings
  \/ /\ drawnText = NoPlace
     /\ \E chars \in Texts, at \in Positions, align \in Alignments : drawString(chars, at, align)

StringsSpec == StringsInit /\ [][StringsNext]_stringsVars

(***************************************************************************)
(* Properties.                                                              *)
(***************************************************************************)
Codes     == SelectSeq([i \in DOMAIN drawnText.text |-> drawnText.text[i].code], LAMBDA c : c # 0)
AskedRows == LinesOf(Codes)
Newlines  == Len(SelectSeq(Codes, LAMBDA c : c = Newline))
RowAtY(y) == SelectSeq(glyphs, LAMBDA g : g.y = y)
CodesAt(y) == [i \in DOMAIN RowAtY(y) |-> RowAtY(y)[i].code]
Tops      == {glyphs[i].y : i \in DOMAIN glyphs}

(* All of the text is on the display, wherever its lines end.               *)
TextInside ==
  LET x == drawnText.at[1]
      y == drawnText.at[2]
      tall == (Newlines + 1) * lineHeight
  IN  /\ x \in 0 .. SCREEN_WIDTH
      /\ IF drawnText.align = "CENTER_BOTH" THEN 2 * y \in tall .. 2 * SCREEN_HEIGHT - tall
                                           ELSE y \in 0 .. SCREEN_HEIGHT - tall

(* A character the fonts have is drawn, one they do not have leaves nothing *)
(* behind, be it in this string or in the one before: the text of every     *)
(* line that can be seen is complete and in order, and all of a text that   *)
(* is inside the display can be seen.                                       *)
TextComplete ==
  /\ \A y \in Tops : \E k \in DOMAIN AskedRows : AskedRows[k] = CodesAt(y)
  /\ TextInside =>
       [i \in DOMAIN glyphs |-> glyphs[i].code] = SelectSeq(Codes, LAMBDA c : c # Newline)

(* A line that fits the cursor is drawn without gaps, where its alignment   *)
(* puts it, and the lines below each other, with room left for those that   *)
(* are out of sight between them; without empty lines, which are counted    *)
(* but not drawn, CENTER_BOTH puts all of it around the point.              *)
LinesPlaced ==
  /\ \A y \in Tops :
       LET row   == RowAtY(y)
           width == getStringWidth(CodesAt(y))
           left  == row[1].x
       IN  width < CURSOR =>
             /\ \A i \in DOMAIN row : i > 1 => row[i].x = row[i - 1].x + GlyphWidth[row[i - 1].code]
             /\ CASE drawnText.align = "LEFT"  -> left = drawnText.at[1]
                  [] drawnText.align = "RIGHT" -> left + width = drawnText.at[1]
                  [] OTHER -> 2 * left + width - 2 * drawnText.at[1] \in {0, 1}
  /\ \A y \in Tops : \E j \in DOMAIN AskedRows : \E k \in j .. Len(AskedRows) :
       /\ AskedRows[j] = CodesAt(Min(Tops)) /\ AskedRows[k] = CodesAt(y)
       /\ y = Min(Tops) + (k - j) * lineHeight
  /\ LET n == Len(AskedRows) IN
       drawnText.align = "CENTER_BOTH" /\ Cardinality(Tops) = n /\ n > 0 /\ Newlines = n - 1 =>
         2 * Min(Tops) + n * lineHeight - 2 * drawnText.at[2] \in 0 .. 2

StringsInv == StringsTypeOK /\ TextComplete /\ LinesPlaced
=============================================================================
