--------------------------- MODULE Display_proofs ---------------------------
(***************************************************************************)
(* Proofs about what a sketch writes and draws, for any texts, shapes and   *)
(* sizes: its log, the rows a text is broken into, the print dialog, the    *)
(* pixels of lines, rectangles, circles and images, how they come to the    *)
(* panel while they are drawn, and what each of the six drivers sends.      *)
(***************************************************************************)
EXTENDS Request_proofs, OLEDWriting, OLEDDrawing, NefryDisplay, SSD1306Wire, OLEDPanels,
        FiniteSetTheorems, SequenceTheorems, WellFoundedInduction, TLAPS

(***************************************************************************)
(* The log of the display (OLEDWriting).                                    *)
(***************************************************************************)
(* The line ends of a text s.                                                  *)
EndsOf(s)     == {i \in DOMAIN s : s[i] = NewLine}

(* What the code relies on of the log: as LogInv, and it has lines whenever *)
(* it has room, and counts none before.                                     *)
LogIInv ==
  /\ LogTypeOK /\ LogIsSuffix /\ LinesCounted
  /\ IF logBufferSize = 0 THEN logBufferLine = 0 ELSE logBufferMaxLines > 0

LEMMA EndsFinite ==
  ASSUME NEW s \in Seq(LogChars)
  PROVE  IsFiniteSet(EndsOf(s)) /\ Cardinality(EndsOf(s)) \in Nat /\ EndsOf(s) \subseteq 1 .. Len(s)
<1>1. EndsOf(s) \in SUBSET (1 .. Len(s)) /\ Len(s) \in Nat
  BY DEF EndsOf
<1>2. IsFiniteSet(1 .. Len(s))
  BY <1>1, FS_Interval
<1> QED BY <1>1, <1>2, FS_Subset, FS_CardinalityType

LEMMA EndsAppended ==
  ASSUME NEW s \in Seq(LogChars), NEW c \in LogChars
  PROVE  Cardinality(EndsOf(Append(s, c))) = Cardinality(EndsOf(s)) + (IF c = NewLine THEN 1 ELSE 0)
<1> DEFINE t == Append(s, c)
           n == Len(s) + 1
<1>1. t \in Seq(LogChars) /\ Len(t) = n /\ t[n] = c /\ \A i \in 1 .. Len(s) : t[i] = s[i]
  OBVIOUS
<1>2. n \notin EndsOf(s) /\ IsFiniteSet(EndsOf(s)) /\ Cardinality(EndsOf(s)) \in Nat
  BY EndsFinite DEF EndsOf
<1>3. DOMAIN t = 1 .. n /\ DOMAIN s = 1 .. Len(s) /\ 1 .. n = (1 .. Len(s)) \cup {n}
  BY <1>1
<1> HIDE DEF t, n
<1>4. CASE c = NewLine
  <2>1. EndsOf(t) = EndsOf(s) \cup {n}
    BY <1>1, <1>3, <1>4 DEF EndsOf
  <2> QED BY <1>2, <1>4, <2>1, FS_AddElement DEF t
<1>5. CASE c # NewLine
  <2>1. EndsOf(t) = EndsOf(s)
    BY <1>1, <1>3, <1>5 DEF EndsOf
  <2> QED BY <1>2, <1>5, <2>1 DEF t
<1> QED BY <1>4, <1>5

LEMMA FirstEnd ==
  ASSUME NEW s \in Seq(LogChars), EndsOf(s) # {}
  PROVE  Min(EndsOf(s)) \in EndsOf(s) /\ \A e \in EndsOf(s) : Min(EndsOf(s)) <= e
<1>1. EndsOf(s) \subseteq Nat
  BY EndsFinite
<1> QED BY <1>1, LeastOne DEF Min

(* What is left behind the first line has its line ends but the first.      *)
LEMMA EndsBehind ==
  ASSUME NEW s \in Seq(LogChars), EndsOf(s) # {}
  PROVE  LET rest == SubSeq(s, Min(EndsOf(s)) + 1, Len(s))
         IN  /\ rest \in Seq(LogChars) /\ Len(rest) = Len(s) - Min(EndsOf(s))
             /\ \A i \in 1 .. Len(rest) : rest[i] = s[Min(EndsOf(s)) + i]
             /\ Cardinality(EndsOf(rest)) = Cardinality(EndsOf(s)) - 1
<1> DEFINE m == Min(EndsOf(s))
           rest == SubSeq(s, m + 1, Len(s))
           old == EndsOf(s) \ {m}
           ShiftBy == [e \in old |-> e - m]
<1>1. m \in EndsOf(s) /\ m \in 1 .. Len(s) /\ \A e \in EndsOf(s) : m <= e
  BY FirstEnd, EndsFinite
<1>2. rest \in Seq(LogChars) /\ Len(rest) = Len(s) - m /\ \A i \in 1 .. Len(rest) : rest[i] = s[m + i]
  BY <1>1
<1> HIDE DEF m, rest
<1>3. IsFiniteSet(old) /\ Cardinality(old) = Cardinality(EndsOf(s)) - 1
  BY <1>1, EndsFinite, FS_RemoveElement
<1>4. ShiftBy \in [old -> EndsOf(rest)]
  <2>1. ASSUME NEW e \in old PROVE e - m \in EndsOf(rest)
    <3>1. e \in 1 .. Len(s) /\ e > m /\ s[e] = NewLine
      BY <1>1, <2>1, EndsFinite DEF EndsOf
    <3>2. e - m \in 1 .. Len(rest) /\ m + (e - m) = e
      BY <1>1, <1>2, <3>1
    <3> QED BY <1>2, <3>1, <3>2 DEF EndsOf
  <2> QED BY <2>1
<1>5. \A a, b \in old : ShiftBy[a] = ShiftBy[b] => a = b
  <2>1. \A e \in old : e \in Int /\ m \in Int
    BY <1>1, EndsFinite
  <2> QED BY <2>1
<1>6. \A e \in EndsOf(rest) : \E a \in old : ShiftBy[a] = e
  <2>1. ASSUME NEW e \in EndsOf(rest) PROVE e + m \in old /\ (e + m) - m = e
    <3>1. e \in 1 .. Len(rest) /\ rest[e] = NewLine
      BY <1>2 DEF EndsOf
    <3>2. e + m \in 1 .. Len(s) /\ e + m # m /\ m + e = e + m
      BY <1>1, <1>2, <3>1
    <3> QED BY <1>1, <1>2, <3>1, <3>2 DEF EndsOf
  <2> QED BY <2>1
<1>7. ShiftBy \in Bijection(old, EndsOf(rest))
  BY <1>4, <1>5, <1>6 DEF Bijection, Injection, Surjection, IsInjective
<1>8. ExistsBijection(old, EndsOf(rest))
  BY <1>7 DEF ExistsBijection
<1>9. Cardinality(EndsOf(rest)) = Cardinality(old)
  BY <1>3, <1>8, FS_Bijection
<1> QED BY <1>2, <1>3, <1>9 DEF rest, m

(* A text is the end of another one, place by place.                        *)
EndOf(s, t) == Len(s) <= Len(t) /\ \A i \in 1 .. Len(s) : s[i] = t[(Len(t) - Len(s)) + i]

LEMMA CountedBack ==
  ASSUME NEW n \in Nat, NEW i \in 1 .. n
  PROVE  (n - i) + 1 \in 1 .. n /\ (n - ((n - i) + 1)) + 1 = i
  OBVIOUS

LEMMA SuffixIs ==
  ASSUME NEW s \in Seq(LogChars), NEW t \in Seq(LogChars)
  PROVE  IsSuffix(s, t) <=> EndOf(s, t)
<1> DEFINE r == Reverse(s)
           q == Reverse(t)
           n == Len(s)
           m == Len(t)
<1>1. /\ r \in Seq(LogChars) /\ Len(r) = n /\ \A i \in 1 .. n : r[i] = s[(n - i) + 1]
      /\ q \in Seq(LogChars) /\ Len(q) = m /\ \A i \in 1 .. m : q[i] = t[(m - i) + 1]
      /\ n \in Nat /\ m \in Nat
  BY DEF Reverse
<1>2. IsSuffix(s, t) <=> n <= m /\ SubSeq(r, 1, n) = SubSeq(q, 1, n)
  BY <1>1 DEF IsSuffix, IsPrefix
<1> HIDE DEF r, q
<1>3. ASSUME n <= m
      PROVE  SubSeq(r, 1, n) = SubSeq(q, 1, n) <=> \A i \in 1 .. n : r[i] = q[i]
  <2>1. /\ SubSeq(r, 1, n) = [i \in 1 .. n |-> r[i]]
        /\ SubSeq(q, 1, n) = [i \in 1 .. n |-> q[i]]
    BY <1>1, <1>3
  <2> QED BY <2>1
<1>4. ASSUME n <= m
      PROVE  (\A i \in 1 .. n : r[i] = q[i]) <=> \A i \in 1 .. n : s[i] = t[(m - n) + i]
  <2>1. \A i \in 1 .. n : (n - i) + 1 \in 1 .. n /\ (n - ((n - i) + 1)) + 1 = i
    BY <1>1, CountedBack, Zenon
  <2>2. \A i \in 1 .. n : i \in 1 .. m /\ (m - i) + 1 = (m - n) + ((n - i) + 1)
    BY <1>1, <1>4
  <2>3. \A i \in 1 .. n : r[i] = s[(n - i) + 1] /\ q[i] = t[(m - n) + ((n - i) + 1)]
    BY <1>1, <2>2
  <2>4. ASSUME \A i \in 1 .. n : r[i] = q[i], NEW i \in 1 .. n PROVE s[i] = t[(m - n) + i]
    <3> DEFINE j == (n - i) + 1
    <3>1. j \in 1 .. n /\ (n - j) + 1 = i
      BY <2>1
    <3> HIDE DEF j
    <3>2. r[j] = s[(n - j) + 1] /\ q[j] = t[(m - n) + ((n - j) + 1)] /\ r[j] = q[j]
      BY <2>3, <2>4, <3>1
    <3> QED BY <3>1, <3>2
  <2>5. ASSUME \A i \in 1 .. n : s[i] = t[(m - n) + i], NEW i \in 1 .. n PROVE r[i] = q[i]
    BY <2>1, <2>3, <2>5
  <2> QED BY <2>4, <2>5
<1> QED BY <1>2, <1>3, <1>4 DEF EndOf

LEMMA EndOfAppended ==
  ASSUME NEW s \in Seq(LogChars), NEW t \in Seq(LogChars), NEW u \in Seq(LogChars), NEW c \in LogChars,
         EndOf(s, t), EndOf(t, u)
  PROVE  EndOf(Append(s, c), Append(u, c))
<1>1. /\ Len(s) \in Nat /\ Len(t) \in Nat /\ Len(u) \in Nat /\ Len(s) <= Len(t) /\ Len(t) <= Len(u)
      /\ Len(Append(s, c)) = Len(s) + 1 /\ Len(Append(u, c)) = Len(u) + 1
  BY DEF EndOf
<1>2. ASSUME NEW i \in 1 .. Len(s) PROVE Append(s, c)[i] = Append(u, c)[(Len(u) - Len(s)) + i]
  <2>1. (Len(t) - Len(s)) + i \in 1 .. Len(t) /\ (Len(u) - Len(s)) + i \in 1 .. Len(u)
    BY <1>1
  <2>2. (Len(u) - Len(t)) + ((Len(t) - Len(s)) + i) = (Len(u) - Len(s)) + i
    BY <1>1
  <2>3. s[i] = u[(Len(u) - Len(s)) + i]
    BY <2>1, <2>2 DEF EndOf
  <2> QED BY <2>1, <2>3
<1>3. Append(s, c)[Len(s) + 1] = c /\ Append(u, c)[Len(u) + 1] = c
  OBVIOUS
<1>4. \A i \in 1 .. Len(s) + 1 : i \in 1 .. Len(s) \/ i = Len(s) + 1
  BY <1>1
<1>5. ((Len(u) + 1) - (Len(s) + 1)) = Len(u) - Len(s) /\ (Len(u) - Len(s)) + (Len(s) + 1) = Len(u) + 1
  BY <1>1
<1> DEFINE a == Append(s, c)
           b == Append(u, c)
<1>6. ASSUME NEW i \in 1 .. Len(a) PROVE a[i] = b[(Len(b) - Len(a)) + i]
  <2>1. Len(b) - Len(a) = Len(u) - Len(s)
    BY <1>1, <1>5
  <2>2. CASE i \in 1 .. Len(s)
    BY <1>2, <2>1, <2>2
  <2>3. CASE i = Len(s) + 1
    BY <1>3, <1>5, <2>1, <2>3
  <2> QED BY <1>1, <1>4, <2>2, <2>3
<1>7. Len(a) <= Len(b)
  BY <1>1
<1> HIDE DEF a, b
<1>8. EndOf(a, b)
  BY <1>6, <1>7 DEF EndOf
<1> QED BY <1>8 DEF a, b

(* One round of write() makes room, drops at most one line, and loses no    *)
(* character but the first ones.                                            *)
LEMMA RoundMakesRoom ==
  ASSUME LogIInv, logBufferSize > 0,
         NEW kept, kept = IF MaxLineReached \/ BufferFull THEN Dropped ELSE logBuffer
  PROVE  /\ kept \in Seq(LogChars) /\ Len(kept) < logBufferSize /\ EndOf(kept, logBuffer)
         /\ LinesLeft \in Nat /\ LinesLeft < logBufferMaxLines /\ Cardinality(EndsOf(kept)) <= LinesLeft
         /\ ~cut /\ (BufferFull => MaxLineReached) => Cardinality(EndsOf(kept)) = LinesLeft
<1> DEFINE n == Len(logBuffer)
           ends == EndsOf(logBuffer)
           count == Cardinality(ends)
<1>1. /\ logBuffer \in Seq(LogChars) /\ n \in Nat /\ n <= logBufferSize /\ logBufferSize \in Nat
      /\ logBufferLine \in Nat /\ logBufferLine <= logBufferMaxLines /\ logBufferMaxLines \in Nat \ {0}
  BY DEF LogIInv, LogTypeOK
<1>2. ends = LineEnds /\ count \in Nat /\ IsFiniteSet(ends)
  BY <1>1, EndsFinite DEF EndsOf, LineEnds
<1>3. count <= logBufferLine /\ (~cut => count = logBufferLine)
  BY <1>2 DEF LogIInv, LinesCounted
<1>4. LinesLeft \in Nat /\ LinesLeft < logBufferMaxLines
  BY <1>1 DEF LinesLeft, MaxLineReached
<1>5. EndOf(logBuffer, logBuffer)
  <2>1. \A i \in 1 .. n : (n - n) + i = i
    BY <1>1
  <2> QED BY <1>1, <2>1 DEF EndOf
<1>6. CASE ~MaxLineReached /\ ~BufferFull
  <2>1. kept = logBuffer /\ n < logBufferSize /\ LinesLeft = logBufferLine
    BY <1>1, <1>6 DEF BufferFull, LinesLeft
  <2> QED BY <1>1, <1>3, <1>4, <1>5, <2>1
<1>7. CASE (MaxLineReached \/ BufferFull) /\ ends # {}
  <2> DEFINE m == Min(ends)
  <2>1. kept = SubSeq(logBuffer, m + 1, n)
    BY <1>2, <1>7 DEF Dropped
  <2>2. m \in 1 .. n
    BY <1>1, <1>7, FirstEnd, EndsFinite
  <2>3. /\ kept \in Seq(LogChars) /\ Len(kept) = n - m /\ \A i \in 1 .. Len(kept) : kept[i] = logBuffer[m + i]
        /\ Cardinality(EndsOf(kept)) = count - 1
    BY <1>1, <1>7, <2>1, EndsBehind
  <2> HIDE DEF m
  <2>4. EndOf(kept, logBuffer)
    <3>1. n - Len(kept) = m /\ Len(kept) <= n
      BY <1>1, <2>2, <2>3
    <3> QED BY <2>3, <3>1 DEF EndOf
  <2>5. Len(kept) < logBufferSize
    BY <1>1, <2>2, <2>3
  <2>6. count - 1 <= LinesLeft
    BY <1>1, <1>2, <1>3 DEF LinesLeft
  <2>7. ASSUME ~cut, BufferFull => MaxLineReached PROVE count - 1 = LinesLeft
    BY <1>3, <1>7, <2>7 DEF LinesLeft
  <2> QED BY <1>4, <2>3, <2>4, <2>5, <2>6, <2>7
<1>8. CASE (MaxLineReached \/ BufferFull) /\ ends = {}
  <2>1. count = 0
    BY <1>8, FS_EmptySet
  <2>2. kept = IF BufferFull THEN <<>> ELSE logBuffer
    BY <1>2, <1>8 DEF Dropped
  <2>3. ~(~cut /\ (BufferFull => MaxLineReached))
    BY <1>1, <1>3, <1>8, <2>1 DEF MaxLineReached
  <2>4. CASE BufferFull
    <3>1. kept = <<>> /\ kept \in Seq(LogChars) /\ Len(kept) = 0
      BY <2>2, <2>4
    <3>2. EndsOf(kept) = {}
      BY <3>1 DEF EndsOf
    <3>3. EndOf(kept, logBuffer)
      <4>1. 1 .. Len(kept) = {} /\ Len(kept) <= n
        BY <1>1, <3>1
      <4> QED BY <4>1 DEF EndOf
    <3>4. Cardinality(EndsOf(kept)) = 0
      BY <3>2, FS_EmptySet
    <3> QED BY <1>1, <1>4, <2>3, <3>1, <3>3, <3>4
  <2>5. CASE ~BufferFull
    <3>1. kept = logBuffer /\ n < logBufferSize
      BY <1>1, <2>2, <2>5 DEF BufferFull
    <3> QED BY <1>1, <1>4, <1>5, <2>1, <2>3, <3>1
  <2> QED BY <2>4, <2>5
<1> QED BY <1>6, <1>7, <1>8

LEMMA LogInitial == LogInit => LogIInv
<1> SUFFICES ASSUME LogInit PROVE LogIInv
  OBVIOUS
<1>1. /\ logBuffer = <<>> /\ logBufferLine = 0 /\ logBufferMaxLines = 0 /\ logBufferSize = 0
      /\ written = <<>> /\ cut = FALSE
  BY DEF LogInit
<1>2. LogTypeOK
  <2>1. <<>> \in Seq(LogChars) /\ Len(<<>>) = 0
    OBVIOUS
  <2>2. MaxWritten \in Nat
    BY LogAssumption
  <2>3. cut \in BOOLEAN
    BY <1>1
  <2>4. logBuffer \in Seq(LogChars) /\ Len(logBuffer) <= logBufferSize
    BY <1>1, <2>1
  <2>5. written \in Seq(LogChars) /\ Len(written) <= MaxWritten
    BY <1>1, <2>1, <2>2
  <2>6. logBufferLine \in 0 .. logBufferMaxLines /\ logBufferMaxLines \in Nat /\ logBufferSize \in Nat
    BY <1>1
  <2> QED BY <2>3, <2>4, <2>5, <2>6 DEF LogTypeOK
<1>3. LogIsSuffix
  <2>1. EndOf(logBuffer, written)
    BY <1>1 DEF EndOf
  <2> QED BY <1>2, <2>1, SuffixIs DEF LogIsSuffix, LogTypeOK
<1>4. LinesCounted
  <2>1. LineEnds = {}
    BY <1>1 DEF LineEnds
  <2> QED BY <1>1, <2>1, FS_EmptySet DEF LinesCounted
<1> QED BY <1>1, <1>2, <1>3, <1>4 DEF LogIInv

LEMMA LogWriteKeeps ==
  ASSUME LogIInv, NEW c \in LogChars, write(c)
  PROVE  LogIInv'
<1> DEFINE kept == IF MaxLineReached \/ BufferFull THEN Dropped ELSE logBuffer
           left == LinesLeft
           full == BufferFull /\ ~MaxLineReached
           ended == IF c = NewLine THEN 1 ELSE 0
<1>1. /\ logBufferSize > 0 /\ Len(written) < MaxWritten
      /\ written' = Append(written, c) /\ logBuffer' = Append(kept, c)
      /\ logBufferLine' = left + ended /\ cut' = (cut \/ full)
      /\ logBufferMaxLines' = logBufferMaxLines /\ logBufferSize' = logBufferSize
  BY DEF write
<1>2. /\ kept \in Seq(LogChars) /\ Len(kept) < logBufferSize /\ EndOf(kept, logBuffer)
      /\ left \in Nat /\ left < logBufferMaxLines /\ Cardinality(EndsOf(kept)) <= left
      /\ ~cut /\ ~full => Cardinality(EndsOf(kept)) = left
  BY <1>1, RoundMakesRoom
<1>3. /\ logBuffer \in Seq(LogChars) /\ written \in Seq(LogChars) /\ cut \in BOOLEAN
      /\ logBufferMaxLines \in Nat /\ logBufferSize \in Nat
      /\ logBufferMaxLines > 0
  BY <1>1 DEF LogIInv, LogTypeOK
<1>4. full \in BOOLEAN /\ ended \in 0 .. 1
  BY DEF BufferFull, MaxLineReached
<1> HIDE DEF kept, left, full
<1>5. LogTypeOK'
  <2>1. logBuffer' \in Seq(LogChars) /\ Len(logBuffer') = Len(kept) + 1 /\ Len(kept) \in Nat
    BY <1>1, <1>2
  <2>2. written' \in Seq(LogChars) /\ Len(written') <= MaxWritten
    <3>1. Len(written') = Len(written) + 1 /\ Len(written) \in Nat /\ written' \in Seq(LogChars)
      BY <1>1, <1>3
    <3> QED BY <1>1, <3>1, LogAssumption
  <2>3. logBufferLine' \in 0 .. logBufferMaxLines'
    BY <1>1, <1>2, <1>3, <1>4
  <2>4. Len(logBuffer') <= logBufferSize'
    BY <1>1, <1>2, <1>3, <2>1
  <2>5. cut' \in BOOLEAN
    BY <1>1, <1>3, <1>4, Zenon
  <2> QED BY <1>1, <1>3, <2>1, <2>2, <2>3, <2>4, <2>5 DEF LogTypeOK
<1>6. LogIsSuffix'
  <2>1. EndOf(logBuffer, written)
    BY <1>3, SuffixIs DEF LogIInv, LogIsSuffix
  <2>2. EndOf(Append(kept, c), Append(written, c))
    BY <1>2, <1>3, <2>1, EndOfAppended
  <2>3. IsSuffix(Append(kept, c), Append(written, c))
    <3>1. Append(kept, c) \in Seq(LogChars) /\ Append(written, c) \in Seq(LogChars)
      BY <1>2, <1>3
    <3> QED BY <2>2, <3>1, SuffixIs
  <2> QED BY <1>1, <2>3 DEF LogIsSuffix
<1>7. LinesCounted'
  <2>1. LineEnds' = EndsOf(Append(kept, c))
    BY <1>1 DEF LineEnds, EndsOf
  <2>2. Cardinality(EndsOf(Append(kept, c))) = Cardinality(EndsOf(kept)) + ended
    BY <1>2, EndsAppended
  <2>3. Cardinality(EndsOf(kept)) \in Nat
    BY <1>2, EndsFinite
  <2>4. Cardinality(LineEnds') <= logBufferLine'
    BY <1>1, <1>2, <1>4, <2>1, <2>2, <2>3
  <2>5. ~cut' => Cardinality(LineEnds') = logBufferLine'
    <3>1. ~cut' => ~cut /\ ~full
      BY <1>1, Zenon
    <3> QED BY <1>1, <1>2, <2>1, <2>2, <3>1
  <2> QED BY <2>4, <2>5 DEF LinesCounted
<1> QED BY <1>1, <1>3, <1>5, <1>6, <1>7 DEF LogIInv

LEMMA LogKept ==
  LogIInv /\ [LogNext]_logVars => LogIInv'
<1> SUFFICES ASSUME LogIInv, [LogNext]_logVars PROVE LogIInv'
  OBVIOUS
<1>1. CASE UNCHANGED logVars
  BY <1>1 DEF logVars, LogIInv, LogTypeOK, LogIsSuffix, LinesCounted, LineEnds
<1>2. ASSUME NEW size \in LogSizes, setLogBuffer(size[1], size[2]) PROVE LogIInv'
  <2>1. /\ logBufferSize = 0 /\ logBufferMaxLines' = size[1] /\ logBufferSize' = size[1] * size[2]
        /\ logBuffer' = logBuffer /\ logBufferLine' = logBufferLine /\ written' = written /\ cut' = cut
    BY <1>2 DEF setLogBuffer
  <2>2. size[1] \in Nat \ {0} /\ size[2] \in Nat \ {0}
    BY LogAssumption
  <2>3. \A a, b \in Nat : a * b \in Nat
    OBVIOUS
  <2>4. size[1] * size[2] \in Nat
    BY <2>2, <2>3
  <2>5. Len(logBuffer) \in Nat /\ Len(logBuffer) <= 0 /\ logBufferLine \in 0 .. logBufferMaxLines
    BY <2>1 DEF LogIInv, LogTypeOK
  <2>6. logBuffer = <<>>
    BY <2>5, EmptySeq DEF LogIInv, LogTypeOK
  <2>7. LineEnds = {} /\ Cardinality(LineEnds) = 0
    BY <2>6, FS_EmptySet DEF LineEnds
  <2>8. logBufferLine = 0
    BY <2>1 DEF LogIInv
  <2>9. LineEnds' = LineEnds /\ MaxWritten \in Nat
    BY <2>1, LogAssumption DEF LineEnds
  <2>10. LogTypeOK'
    BY <2>1, <2>2, <2>4, <2>5, <2>8 DEF LogIInv, LogTypeOK
  <2>11. LogIsSuffix' /\ LinesCounted'
    BY <2>1, <2>7, <2>8, <2>9 DEF LogIInv, LogIsSuffix, LinesCounted
  <2> QED BY <2>1, <2>2, <2>8, <2>10, <2>11 DEF LogIInv
<1>3. ASSUME NEW c \in LogChars, write(c) PROVE LogIInv'
  BY <1>3, LogWriteKeeps
<1> QED BY <1>1, <1>2, <1>3 DEF LogNext

(* The rows of the log.  To each place belongs the number of line ends up   *)
(* to it; it grows by one at each of them.                                  *)
LEMMA EndsCounted ==
  ASSUME logBuffer \in Seq(LogChars)
  PROVE  /\ LineEnds \subseteq 1 .. Len(logBuffer) /\ LineEnds \subseteq Nat /\ Len(logBuffer) \in Nat
         /\ Cardinality(LineEnds) \in Nat
         /\ \A i \in Nat : IsFiniteSet(EndsTo(i)) /\ Cardinality(EndsTo(i)) \in Nat
                             /\ Cardinality(EndsTo(i)) <= Cardinality(LineEnds)
         /\ \A i, j \in Nat : i <= j => Cardinality(EndsTo(i)) <= Cardinality(EndsTo(j))
         /\ Cardinality(EndsTo(0)) = 0 /\ Cardinality(EndsTo(Len(logBuffer))) = Cardinality(LineEnds)
         /\ \A i \in Nat \ {0} : Cardinality(EndsTo(i)) =
              Cardinality(EndsTo(i - 1)) + (IF i \in LineEnds THEN 1 ELSE 0)
<1>1. LineEnds = EndsOf(logBuffer)
  BY DEF LineEnds, EndsOf
<1>2. /\ IsFiniteSet(LineEnds) /\ Cardinality(LineEnds) \in Nat /\ LineEnds \subseteq 1 .. Len(logBuffer)
      /\ LineEnds \subseteq Nat /\ Len(logBuffer) \in Nat
  BY <1>1, EndsFinite
<1>3. \A i \in Nat : EndsTo(i) \in SUBSET LineEnds
  BY DEF EndsTo
<1>4. \A i \in Nat : /\ IsFiniteSet(EndsTo(i)) /\ Cardinality(EndsTo(i)) \in Nat
                     /\ Cardinality(EndsTo(i)) <= Cardinality(LineEnds)
  <2> TAKE i \in Nat
  <2> QED BY <1>2, <1>3, FS_Subset, FS_CardinalityType
<1>5. ASSUME NEW i \in Nat, NEW j \in Nat, i <= j PROVE Cardinality(EndsTo(i)) <= Cardinality(EndsTo(j))
  <2>1. ASSUME NEW e \in LineEnds, e <= i PROVE e <= j
    <3>1. e \in Nat
      BY <1>2
    <3> QED BY <1>5, <2>1, <3>1
  <2>2. EndsTo(i) \in SUBSET EndsTo(j)
    BY <2>1 DEF EndsTo
  <2> QED BY <1>4, <2>2, FS_Subset
<1>6. EndsTo(0) = {} /\ EndsTo(Len(logBuffer)) = LineEnds
  <2>1. ASSUME NEW e \in LineEnds PROVE ~(e <= 0) /\ e <= Len(logBuffer)
    <3>1. e \in 1 .. Len(logBuffer)
      BY <1>2
    <3> QED BY <3>1
  <2> QED BY <2>1 DEF EndsTo
<1>7. ASSUME NEW i \in Nat \ {0}
      PROVE  Cardinality(EndsTo(i)) = Cardinality(EndsTo(i - 1)) + (IF i \in LineEnds THEN 1 ELSE 0)
  <2>1. i - 1 \in Nat /\ i \notin EndsTo(i - 1)
    BY DEF EndsTo
  <2>2. \A e \in LineEnds : e <= i <=> e <= i - 1 \/ e = i
    BY <1>2
  <2>3. CASE i \in LineEnds
    <3>1. EndsTo(i) = EndsTo(i - 1) \cup {i}
      BY <2>2, <2>3 DEF EndsTo
    <3> QED BY <1>4, <2>1, <2>3, <3>1, FS_AddElement
  <2>4. CASE i \notin LineEnds
    <3>1. EndsTo(i) = EndsTo(i - 1)
      BY <2>2, <2>4 DEF EndsTo
    <3> QED BY <1>4, <2>1, <2>4, <3>1
  <2> QED BY <2>3, <2>4
<1> QED BY <1>2, <1>4, <1>5, <1>6, <1>7, FS_EmptySet

(* There is a k-th line end, and it is behind exactly the places that fewer *)
(* line ends go up to.                                                      *)
LEMMA LineEndIs ==
  ASSUME logBuffer \in Seq(LogChars), NEW k \in 1 .. Cardinality(LineEnds)
  PROVE  LineEnd(k) \in LineEnds /\ \A i \in Nat : i < LineEnd(k) <=> Cardinality(EndsTo(i)) < k
<1> DEFINE R(i) == Cardinality(EndsTo(i))
           T == {i \in 0 .. Len(logBuffer) : k <= R(i)}
<1>1. /\ LineEnds \subseteq 1 .. Len(logBuffer) /\ LineEnds \subseteq Nat /\ Len(logBuffer) \in Nat
      /\ Cardinality(LineEnds) \in Nat
      /\ \A i \in Nat : R(i) \in Nat
      /\ \A i, j \in Nat : i <= j => R(i) <= R(j)
      /\ R(0) = 0 /\ R(Len(logBuffer)) = Cardinality(LineEnds)
      /\ \A i \in Nat \ {0} : R(i) = R(i - 1) + (IF i \in LineEnds THEN 1 ELSE 0)
  BY EndsCounted
<1> HIDE DEF R
<1>2. Len(logBuffer) \in T /\ T \subseteq Nat
  BY <1>1
<1>3. PICK m \in T : \A i \in T : m <= i
  BY <1>2, LeastOne
<1>4. m \in Nat \ {0} /\ m <= Len(logBuffer) /\ k <= R(m)
  BY <1>1, <1>3
<1>5. R(m - 1) < k
  <2>1. m - 1 \in Nat /\ m - 1 \in 0 .. Len(logBuffer) /\ ~(m <= m - 1)
    BY <1>1, <1>4
  <2>2. m - 1 \notin T /\ R(m - 1) \in Nat
    BY <1>1, <1>3, <2>1
  <2> QED BY <2>1, <2>2
<1>6. m \in LineEnds /\ R(m) = k
  <2>1. R(m) = R(m - 1) + (IF m \in LineEnds THEN 1 ELSE 0) /\ R(m - 1) \in Nat
    BY <1>1, <1>4
  <2> QED BY <1>4, <1>5, <2>1
<1> DEFINE e == LineEnd(k)
<1>7. e \in LineEnds /\ R(e) = k
  BY <1>6 DEF LineEnd, R
<1> HIDE DEF e
<1>8. e \in Nat \ {0} /\ R(e - 1) = k - 1
  <2>1. e \in 1 .. Len(logBuffer)
    BY <1>1, <1>7
  <2>2. e \in Nat \ {0} /\ e - 1 \in Nat
    BY <2>1
  <2>3. R(e) = R(e - 1) + 1 /\ R(e - 1) \in Nat
    BY <1>1, <1>7, <2>2
  <2> QED BY <1>7, <2>2, <2>3
<1>9. ASSUME NEW i \in Nat PROVE i < e <=> R(i) < k
  <2>1. CASE i < e
    <3>1. R(i) <= R(e - 1)
      BY <1>1, <1>8, <2>1
    <3> QED BY <1>1, <1>8, <2>1, <3>1
  <2>2. CASE ~(i < e)
    <3>1. k <= R(i)
      BY <1>1, <1>7, <1>8, <2>2
    <3> QED BY <1>1, <2>2, <3>1
  <2> QED BY <2>1, <2>2
<1> QED BY <1>7, <1>9 DEF e, R

LEMMA RowsOfLog ==
  ASSUME logBuffer \in Seq(LogChars)
  PROVE  RowsShowLog
<1> DEFINE n == Cardinality(LineEnds)
           size == Len(logBuffer)
<1>1. /\ LineEnds \subseteq 1 .. size /\ LineEnds \subseteq Nat /\ n \in Nat /\ size \in Nat /\ DOMAIN logBuffer = 1 .. size
      /\ \A i \in Nat : Cardinality(EndsTo(i)) \in Nat /\ Cardinality(EndsTo(i)) <= n
  BY EndsCounted
<1> SUFFICES ASSUME NEW i \in DOMAIN logBuffer \ LineEnds,
                    NEW own, own = 1 + Cardinality({e \in LineEnds : e < i}),
                    NEW drawnIn, drawnIn = {k \in 1 .. n + 1 : i \in LogRow(k)}
             PROVE  \/ drawnIn = {own}
                    \/ drawnIn = {} /\ i = size /\ own > 1
  BY DEF RowsShowLog
<1>2. i \in 1 .. size /\ i \in Nat
  BY <1>1
<1> DEFINE r == Cardinality(EndsTo(i))
<1>3. own = r + 1 /\ r \in Nat /\ r <= n
  <2>1. ASSUME NEW e \in LineEnds PROVE e < i <=> e <= i
    <3>1. e \in Nat /\ i \in Nat /\ e # i
      BY <1>1, <1>2
    <3> QED BY <3>1
  <2>2. {e \in LineEnds : e < i} = EndsTo(i)
    BY <2>1 DEF EndsTo
  <2>3. r \in Nat /\ r <= n
    BY <1>1, <1>2
  <2>4. own = 1 + r
    BY <2>2
  <2> HIDE DEF r, n
  <2> QED BY <2>3, <2>4
<1>4. \A k \in 1 .. n : LineEnd(k) \in LineEnds /\ LineEnd(k) \in 1 .. size /\ (i < LineEnd(k) <=> r < k)
  BY <1>1, <1>2, LineEndIs
<1> HIDE DEF r, n
<1>5. \A k \in 1 .. n : i # LineEnd(k)
  BY <1>4
<1>6. ASSUME NEW k \in 1 .. n + 1
      PROVE  i \in LogRow(k) <=> k = r + 1 /\ (k = n + 1 /\ k > 1 => i # size)
  <2>1. CASE k = 1 /\ n = 0
    <3>1. LogRow(k) = 1 .. 1 + (size - 0) - 1
      BY <1>1, <2>1 DEF LogRow, n
    <3> QED BY <1>2, <1>3, <2>1, <3>1
  <2>2. CASE k = 1 /\ n # 0
    <3>1. LogRow(k) = 1 .. 1 + (LineEnd(1) - 0) - 1 /\ 1 \in 1 .. n
      BY <1>1, <1>3, <2>2 DEF LogRow, n
    <3>2. LineEnd(1) \in 1 .. size /\ (i < LineEnd(1) <=> r < 1) /\ i # LineEnd(1)
      BY <1>4, <1>5, <3>1
    <3> QED BY <1>2, <1>3, <2>2, <3>1, <3>2
  <2>3. CASE k # 1 /\ k <= n
    <3>1. LogRow(k) = LineEnd(k - 1) .. LineEnd(k - 1) + (LineEnd(k) - LineEnd(k - 1)) - 1 /\ k - 1 \in 1 .. n /\ k \in 1 .. n
      BY <1>1, <1>3, <2>3 DEF LogRow, n
    <3>2. /\ LineEnd(k) \in 1 .. size /\ (i < LineEnd(k) <=> r < k)
          /\ LineEnd(k - 1) \in 1 .. size /\ (i < LineEnd(k - 1) <=> r < k - 1)
      BY <1>4, <3>1
    <3> QED BY <1>2, <1>3, <2>3, <3>1, <3>2
  <2>4. CASE k # 1 /\ k = n + 1
    <3>0. ~(k <= n) /\ k - 1 \in 1 .. n
      BY <1>1, <2>4
    <3>1. LogRow(k) = LineEnd(k - 1) .. LineEnd(k - 1) + (size - LineEnd(k - 1)) - 1
      BY <2>4, <3>0 DEF LogRow, n
    <3>2. LineEnd(k - 1) \in 1 .. size /\ (i < LineEnd(k - 1) <=> r < k - 1)
      BY <1>4, <3>0
    <3> DEFINE last == LineEnd(k - 1)
    <3> HIDE DEF last, size
    <3>3. n \in Nat /\ size \in Nat /\ r \in Nat /\ r <= n /\ i \in 1 .. size
      BY <1>1, <1>2, <1>3
    <3>4. r >= k - 1 <=> k = r + 1
      BY <2>4, <3>3
    <3>5. last \in 1 .. size /\ (i < last <=> r < k - 1) /\ k \in Int
      BY <3>2 DEF last
    <3>6. i \in last .. last + (size - last) - 1 <=> r >= k - 1 /\ i # size
      BY <3>3, <3>5
    <3>7. k > 1
      BY <2>4
    <3> QED BY <2>4, <3>1, <3>4, <3>6, <3>7 DEF last, size
  <2>5. k = 1 \/ k <= n \/ k = n + 1
    BY <1>1
  <2> QED BY <2>1, <2>2, <2>3, <2>4, <2>5
<1>7. r + 1 \in 1 .. n + 1
  BY <1>1, <1>3
<1>8. CASE r + 1 = n + 1 /\ r + 1 > 1 => i # size
  <2>1. drawnIn = {r + 1}
    BY <1>6, <1>7, <1>8
  <2> QED BY <1>3, <2>1
<1>9. CASE ~(r + 1 = n + 1 /\ r + 1 > 1 => i # size)
  <2>1. drawnIn = {}
    BY <1>6, <1>7, <1>9
  <2> QED BY <1>3, <1>9, <2>1
<1> QED BY <1>8, <1>9

LEMMA LogImplied == LogIInv => LogInv
BY RowsOfLog DEF LogIInv, LogInv, LogTypeOK

(***************************************************************************)
(* The rows a text is broken into (OLEDWriting).                            *)
(***************************************************************************)
(* A text of n characters and the width of its rows.                        *)
TextGiven(n) ==
  n \in Nat /\ text \in [0 .. n - 1 -> TextChars] /\ maxLineWidth \in Nat

TextIInv ==
  \/ TextInit
  \/ \E n \in 1 .. MaxText : TextGiven(n) /\ rows = RowsOf(text, maxLineWidth)

LEMMA TextLength ==
  ASSUME NEW n \in Nat, TextGiven(n)
  PROVE  DOMAIN text = 0 .. n - 1 /\ Cardinality(DOMAIN text) = n
<1>1. DOMAIN text = 0 .. n - 1
  BY DEF TextGiven
<1>2. Cardinality(0 .. n - 1) = IF 0 > n - 1 THEN 0 ELSE (n - 1) - 0 + 1
  BY FS_Interval
<1>3. (IF 0 > n - 1 THEN 0 ELSE (n - 1) - 0 + 1) = n
  OBVIOUS
<1> QED BY <1>1, <1>2, <1>3

LEMMA WidthsAre ==
  ASSUME NEW n \in Nat, TextGiven(n)
  PROVE  /\ WidthBefore \in [0 .. n -> Nat] /\ WidthBefore[0] = 0
         /\ \A i \in 1 .. n : WidthBefore[i] = WidthBefore[i - 1] + CharWidth[text[i - 1]]
<1> DEFINE F == [p \in (1 .. n) \X Nat |-> p[2] + CharWidth[text[p[1] - 1]]]
           Is(f) == f = [i \in 0 .. n |-> IF i = 0 THEN 0 ELSE f[i - 1] + CharWidth[text[i - 1]]]
<1>1. \A i \in 1 .. n : CharWidth[text[i - 1]] \in Nat
  <2>1. ASSUME NEW i \in 1 .. n PROVE CharWidth[text[i - 1]] \in Nat
    <3>1. i - 1 \in 0 .. n - 1
      OBVIOUS
    <3> QED BY <3>1, TextAssumption DEF TextGiven
  <2> QED BY <2>1
<1>2. F \in [(1 .. n) \X Nat -> Nat]
  BY <1>1
<1>3. \A i \in 1 .. n, x \in Nat : F[<<i, x>>] = x + CharWidth[text[i - 1]]
  OBVIOUS
<1> HIDE DEF F
<1>4. PICK f : Loops(f, Nat, F, 0, n)
  BY <1>2, LoopExists
<1>5. /\ f \in [0 .. n -> Nat] /\ f[0] = 0
      /\ \A i \in 1 .. n : f[i] = f[i - 1] + CharWidth[text[i - 1]]
  <2>1. f \in [0 .. n -> Nat] /\ f[0] = 0 /\ \A i \in 1 .. n : f[i] = F[<<i, f[i - 1]>>]
    BY <1>4 DEF Loops
  <2>2. \A i \in 1 .. n : i - 1 \in 0 .. n
    OBVIOUS
  <2> QED BY <1>3, <2>1, <2>2
<1>6. Is(f)
  <2>1. \A i \in 0 .. n : f[i] = IF i = 0 THEN 0 ELSE f[i - 1] + CharWidth[text[i - 1]]
    BY <1>5
  <2>2. f = [i \in 0 .. n |-> f[i]]
    BY <1>5
  <2> QED BY <2>1, <2>2
<1>7. WidthBefore = CHOOSE g : Is(g)
  BY TextLength DEF WidthBefore
<1> DEFINE c == WidthBefore
<1>8. Is(c)
  BY <1>6, <1>7
<1> HIDE DEF c
<1>9. c[0] = 0 /\ \A i \in 1 .. n : c[i] = c[i - 1] + CharWidth[text[i - 1]]
  BY <1>8
<1>10. \A i \in 0 .. n : c[i] \in Nat
  <2> DEFINE P == {i \in 0 .. n : c[i] \in Nat}
  <2>1. 0 \in P
    BY <1>9
  <2>2. \A i \in 1 .. n : i - 1 \in P => i \in P
    BY <1>1, <1>9
  <2>3. 0 .. n \subseteq P
    <3> HIDE DEF P
    <3> QED BY <2>1, <2>2, EveryTurn
  <2> QED BY <2>3
<1>11. c \in [0 .. n -> Nat]
  <2>1. DOMAIN c = 0 .. n /\ c = [i \in DOMAIN c |-> c[i]]
    BY <1>8
  <2> QED BY <1>10, <2>1
<1> QED BY <1>9, <1>11 DEF c

(* A longer part of a text is not narrower.                                 *)
LEMMA WidthsGrow ==
  ASSUME NEW n \in Nat, TextGiven(n), NEW a \in 0 .. n, NEW b \in 0 .. n, a <= b
  PROVE  WidthBefore[a] <= WidthBefore[b]
<1> DEFINE W == WidthBefore
           P == {i \in 0 .. n : a <= i => W[a] <= W[i]}
<1>1. W \in [0 .. n -> Nat] /\ W[0] = 0 /\ \A i \in 1 .. n : W[i] = W[i - 1] + CharWidth[text[i - 1]]
  BY WidthsAre
<1>2. \A i \in 1 .. n : CharWidth[text[i - 1]] \in Nat
  <2>1. ASSUME NEW i \in 1 .. n PROVE CharWidth[text[i - 1]] \in Nat
    <3>1. i - 1 \in 0 .. n - 1
      OBVIOUS
    <3> QED BY <3>1, TextAssumption DEF TextGiven
  <2> QED BY <2>1
<1> HIDE DEF W
<1>3. 0 \in P
  <2>1. a <= 0 => a = 0
    OBVIOUS
  <2> QED BY <1>1, <2>1
<1>4. ASSUME NEW i \in 1 .. n, i - 1 \in P PROVE i \in P
  <2>1. CASE a <= i - 1
    <3>1. W[a] <= W[i - 1] /\ W[i] = W[i - 1] + CharWidth[text[i - 1]]
      BY <1>1, <1>4, <2>1
    <3>2. W[a] \in Nat /\ W[i - 1] \in Nat /\ CharWidth[text[i - 1]] \in Nat
      BY <1>1, <1>2
    <3> QED BY <3>1, <3>2
  <2>2. CASE ~(a <= i - 1)
    <3>1. a <= i => a = i
      BY <2>2
    <3>2. W[a] \in Nat
      BY <1>1
    <3> QED BY <3>1, <3>2
  <2> QED BY <2>1, <2>2
<1> HIDE DEF P
<1>5. 0 .. n \subseteq P
  BY <1>3, <1>4, EveryTurn
<1>6. b \in P
  BY <1>5
<1> QED BY <1>6 DEF P, W

(* The locals of drawStringMaxWidth, after each turn of its loop.           *)
Locals == [lastDrawnPos : Int, strWidth : Int, preferredBreakpoint : Int, widthAtBreakpoint : Int,
           rows : Seq(Int \X Int)]

LEMMA TurnsAre ==
  ASSUME NEW n \in Nat, TextGiven(n)
  PROVE  LET T == Turns(text, maxLineWidth)
         IN  /\ T \in [0 .. n -> Locals] /\ T[0] = StartRow
             /\ \A i \in 1 .. n : T[i] = NextChar(T[i - 1], i - 1, text, maxLineWidth)
<1> DEFINE F == [p \in (1 .. n) \X Locals |-> NextChar(p[2], p[1] - 1, text, maxLineWidth)]
           Is(f) == f = [i \in 0 .. n |-> IF i = 0 THEN StartRow ELSE NextChar(f[i - 1], i - 1, text, maxLineWidth)]
<1>1. StartRow \in Locals
  BY DEF StartRow, Locals
<1>2. ASSUME NEW i \in 1 .. n, NEW r \in Locals PROVE NextChar(r, i - 1, text, maxLineWidth) \in Locals
  <2> DEFINE k == i - 1
             w == r.strWidth + CharWidth[text[k]]
             break == IF text[k] = Break THEN <<k, w>> ELSE <<r.preferredBreakpoint, r.widthAtBreakpoint>>
             here == BreakAt(break, k, w)
  <2>1. k \in 0 .. n - 1 /\ k \in Int
    OBVIOUS
  <2>2. CharWidth[text[k]] \in Nat
    BY <2>1, TextAssumption DEF TextGiven
  <2>3. w \in Int /\ r.preferredBreakpoint \in Int /\ r.widthAtBreakpoint \in Int /\ r.rows \in Seq(Int \X Int)
        /\ r.lastDrawnPos \in Int
    BY <2>2 DEF Locals
  <2>4. break[1] \in Int /\ break[2] \in Int
    BY <2>1, <2>3
  <2>5. here[1] \in Int /\ here[2] \in Int
    BY <2>1, <2>3, <2>4 DEF BreakAt
  <2>6. Rest(w, here[2]) \in Int
    BY <2>3, <2>5 DEF Rest
  <2>7. Append(r.rows, <<r.lastDrawnPos, here[1] - 1>>) \in Seq(Int \X Int)
    BY <2>3, <2>5
  <2>8. NextChar(r, k, text, maxLineWidth) =
          IF w >= maxLineWidth
          THEN [lastDrawnPos |-> here[1] + 1, strWidth |-> Rest(w, here[2]),
                preferredBreakpoint |-> 0, widthAtBreakpoint |-> here[2],
                rows |-> Append(r.rows, <<r.lastDrawnPos, here[1] - 1>>)]
          ELSE [r EXCEPT !.strWidth = w, !.preferredBreakpoint = break[1], !.widthAtBreakpoint = break[2]]
    BY DEF NextChar
  <2> HIDE DEF w, here, break
  <2>9. [lastDrawnPos |-> here[1] + 1, strWidth |-> Rest(w, here[2]),
         preferredBreakpoint |-> 0, widthAtBreakpoint |-> here[2],
         rows |-> Append(r.rows, <<r.lastDrawnPos, here[1] - 1>>)] \in Locals
    BY <2>5, <2>6, <2>7 DEF Locals
  <2>10. [r EXCEPT !.strWidth = w, !.preferredBreakpoint = break[1], !.widthAtBreakpoint = break[2]] \in Locals
    BY <2>3, <2>4 DEF Locals
  <2> QED BY <2>8, <2>9, <2>10
<1>3. F \in [(1 .. n) \X Locals -> Locals]
  BY <1>2
<1>4. \A i \in 1 .. n, x \in Locals : F[<<i, x>>] = NextChar(x, i - 1, text, maxLineWidth)
  OBVIOUS
<1> HIDE DEF F
<1>5. PICK f : Loops(f, Locals, F, StartRow, n)
  BY <1>1, <1>3, LoopExists
<1>6. /\ f \in [0 .. n -> Locals] /\ f[0] = StartRow
      /\ \A i \in 1 .. n : f[i] = NextChar(f[i - 1], i - 1, text, maxLineWidth)
  <2>1. f \in [0 .. n -> Locals] /\ f[0] = StartRow /\ \A i \in 1 .. n : f[i] = F[<<i, f[i - 1]>>]
    BY <1>5 DEF Loops
  <2>2. \A i \in 1 .. n : i - 1 \in 0 .. n
    OBVIOUS
  <2> QED BY <1>4, <2>1, <2>2
<1>7. Is(f)
  <2>1. \A i \in 0 .. n : f[i] = IF i = 0 THEN StartRow ELSE NextChar(f[i - 1], i - 1, text, maxLineWidth)
    BY <1>6
  <2>2. f = [i \in 0 .. n |-> f[i]]
    BY <1>6
  <2> QED BY <2>1, <2>2
<1> DEFINE c == Turns(text, maxLineWidth)
<1>8. c = CHOOSE g : Is(g)
  BY TextLength DEF Turns
<1>9. Is(c)
  BY <1>7, <1>8
<1> HIDE DEF c
<1>10. c[0] = StartRow /\ \A i \in 1 .. n : c[i] = NextChar(c[i - 1], i - 1, text, maxLineWidth)
  BY <1>9
<1>11. \A i \in 0 .. n : c[i] \in Locals
  <2> DEFINE P == {i \in 0 .. n : c[i] \in Locals}
  <2>1. 0 \in P
    BY <1>1, <1>10
  <2>2. \A i \in 1 .. n : i - 1 \in P => i \in P
    BY <1>2, <1>10
  <2>3. 0 .. n \subseteq P
    <3> HIDE DEF P
    <3> QED BY <2>1, <2>2, EveryTurn
  <2> QED BY <2>3
<1>12. c \in [0 .. n -> Locals]
  <2>1. DOMAIN c = 0 .. n /\ c = [i \in DOMAIN c |-> c[i]]
    BY <1>9
  <2> QED BY <1>11, <2>1
<1> QED BY <1>10, <1>12 DEF c

(* What the code relies on after i characters, of the rows q it has drawn:  *)
(* they follow each other, each is broken where it should be and fits; they *)
(* reach up to a place; and what is left behind them, w wide, fits.         *)
RowBroken(row) ==
  row[2] + 1 \in DOMAIN text /\ text[row[2] + 1] # Break => \A j \in row[1] .. row[2] : text[j] # Break \/ j = 0

WithBreak(row) == Width(<<row[1], row[2] + 1>>)

RowFits(q, k) ==
  \/ Width(q[k]) < maxLineWidth \/ Width(q[k]) = 0
  \/ k > 1 /\ \E c \in TextChars : Width(q[k]) + WithBreak(q[k - 1]) < maxLineWidth + CharWidth[c]

RowPlaced(row, i) == 0 <= row[1] /\ row[1] <= row[2] + 1 /\ row[2] + 1 < i /\ RowBroken(row)

Drawn(q, i) ==
  /\ \A k \in 1 .. Len(q) : RowPlaced(q[k], i) /\ RowFits(q, k)
  /\ Len(q) > 0 => q[1][1] = 0
  /\ \A k \in 1 .. Len(q) - 1 : q[k + 1][1] = q[k][2] + 2

Reached(q) == IF Len(q) = 0 THEN 0 ELSE q[Len(q)][2] + 2

CarriedOver(q, w) ==
  \/ w < maxLineWidth \/ w = 0
  \/ Len(q) > 0 /\ \E c \in TextChars : w + WithBreak(q[Len(q)]) < maxLineWidth + CharWidth[c]

(* The breakpoint is the last break of the row, if it has one but at 0.     *)
BreakKnown(r, i) ==
  IF r.preferredBreakpoint = 0
  THEN \A j \in r.lastDrawnPos .. i - 1 : text[j] # Break \/ j = 0
  ELSE /\ r.preferredBreakpoint \in r.lastDrawnPos .. i - 1 /\ text[r.preferredBreakpoint] = Break
       /\ r.widthAtBreakpoint = WidthBefore[r.preferredBreakpoint + 1] - WidthBefore[r.lastDrawnPos]
       /\ r.strWidth < maxLineWidth
       /\ \A j \in r.preferredBreakpoint + 1 .. i - 1 : text[j] # Break

TurnKnown(r, i) ==
  /\ r.lastDrawnPos \in 0 .. i /\ r.lastDrawnPos = Reached(r.rows)
  /\ r.strWidth = WidthBefore[i] - WidthBefore[r.lastDrawnPos]
  /\ Drawn(r.rows, i) /\ CarriedOver(r.rows, r.strWidth) /\ BreakKnown(r, i)

LEMMA RowAppended ==
  ASSUME NEW q \in Seq(Int \X Int), NEW i \in Nat, NEW m \in Nat, m <= i, Drawn(q, m), NEW first \in Nat, first = Reached(q),
         NEW p \in Nat, first <= p, p < i, RowBroken(<<first, p - 1>>), CarriedOver(q, Width(<<first, p - 1>>))
  PROVE  LET new == Append(q, <<first, p - 1>>)
         IN  Drawn(new, i) /\ Reached(new) = p + 1 /\ Len(new) = Len(q) + 1 /\ new[Len(new)] = <<first, p - 1>>
<1> DEFINE row == <<first, p - 1>>
           new == Append(q, row)
           n == Len(q)
<1>1. /\ row[1] = first /\ row[2] = p - 1 /\ row \in Int \X Int
      /\ n \in Nat /\ Len(new) = n + 1 /\ new[n + 1] = row /\ \A k \in 1 .. n : new[k] = q[k] /\ q[k] \in Int \X Int
  BY ElementOfSeq
<1>2. RowPlaced(row, i)
  <2>1. (p - 1) + 1 = p
    OBVIOUS
  <2> QED BY <1>1, <2>1 DEF RowPlaced
<1> HIDE DEF row, new, n
<1>3. ASSUME NEW k \in 1 .. n PROVE RowPlaced(new[k], i) /\ RowFits(new, k)
  <2>1. new[k] = q[k] /\ q[k] \in Int \X Int
    BY <1>1
  <2>2. q[k][2] \in Int /\ RowPlaced(q[k], m)
    BY <2>1 DEF Drawn, n
  <2>3. RowPlaced(q[k], i)
    BY <2>2 DEF RowPlaced
  <2>4. RowFits(q, k)
    BY DEF Drawn, n
  <2>5. k > 1 => new[k - 1] = q[k - 1]
    <3>1. k > 1 => k - 1 \in 1 .. n
      BY <1>1
    <3> QED BY <1>1, <3>1
  <2>6. RowFits(new, k)
    BY <2>1, <2>4, <2>5 DEF RowFits
  <2> QED BY <2>1, <2>3, <2>6
<1>4. RowFits(new, n + 1)
  <2>1. CarriedOver(q, Width(row))
    BY DEF row
  <2>2. new[n + 1] = row /\ (n > 0 => new[n] = q[n] /\ n + 1 > 1 /\ (n + 1) - 1 = n)
    <3>1. n > 0 => n \in 1 .. n /\ n + 1 > 1 /\ (n + 1) - 1 = n
      BY <1>1
    <3> QED BY <1>1, <3>1
  <2> QED BY <2>1, <2>2 DEF CarriedOver, RowFits, n
<1>5. Len(new) > 0 => new[1][1] = 0
  <2>1. CASE n = 0
    BY <1>1, <2>1 DEF Reached, n
  <2>2. CASE n > 0
    BY <1>1, <2>2 DEF Drawn, n
  <2> QED BY <1>1, <2>1, <2>2
<1>6. ASSUME NEW k \in 1 .. n PROVE new[k + 1][1] = new[k][2] + 2
  <2>1. CASE k = n
    <3>1. n # 0 /\ first = q[n][2] + 2
      BY <2>1 DEF Reached, n
    <3> QED BY <1>1, <2>1, <3>1
  <2>2. CASE k # n
    <3>1. k \in 1 .. n - 1 /\ k + 1 \in 1 .. n
      BY <1>1, <2>2
    <3>2. q[k + 1][1] = q[k][2] + 2
      BY <3>1 DEF Drawn, n
    <3> QED BY <1>1, <3>1, <3>2
  <2> QED BY <2>1, <2>2
<1>7. \A k \in 1 .. Len(new) : k \in 1 .. n \/ k = n + 1
  BY <1>1
<1>8. \A k \in 1 .. Len(new) - 1 : k \in 1 .. n
  BY <1>1
<1>9. Drawn(new, i)
  BY <1>1, <1>2, <1>3, <1>4, <1>5, <1>6, <1>7, <1>8 DEF Drawn
<1>10. Reached(new) = p + 1
  <2>1. Len(new) # 0 /\ new[Len(new)][2] = p - 1
    BY <1>1
  <2>2. (p - 1) + 2 = p + 1
    OBVIOUS
  <2> QED BY <2>1, <2>2 DEF Reached
<1> QED BY <1>1, <1>9, <1>10 DEF row, new, n

LEMMA FirstTurn ==
  ASSUME NEW n \in Nat, TextGiven(n)
  PROVE  TurnKnown(StartRow, 0)
<1>1. /\ StartRow.lastDrawnPos = 0 /\ StartRow.strWidth = 0 /\ StartRow.preferredBreakpoint = 0
      /\ StartRow.rows = <<>> /\ Len(<<>>) = 0
  BY DEF StartRow
<1>2. Reached(<<>>) = 0
  BY <1>1 DEF Reached
<1>3. Drawn(<<>>, 0)
  BY <1>1 DEF Drawn
<1>4. CarriedOver(<<>>, 0)
  BY DEF CarriedOver
<1>5. BreakKnown(StartRow, 0)
  <2>1. 0 .. 0 - 1 = {}
    OBVIOUS
  <2> QED BY <1>1, <2>1 DEF BreakKnown
<1>6. WidthBefore[0] = 0
  BY WidthsAre
<1> QED BY <1>1, <1>2, <1>3, <1>4, <1>5, <1>6 DEF TurnKnown

LEMMA NextTurn ==
  ASSUME NEW n \in Nat, TextGiven(n), NEW k \in 0 .. n - 1, NEW r \in Locals, TurnKnown(r, k)
  PROVE  TurnKnown(NextChar(r, k, text, maxLineWidth), k + 1)
<1> DEFINE W == WidthBefore
           ch == text[k]
           first == r.lastDrawnPos
           w == r.strWidth + CharWidth[ch]
           break == IF ch = Break THEN <<k, w>> ELSE <<r.preferredBreakpoint, r.widthAtBreakpoint>>
           here == BreakAt(break, k, w)
           p == here[1]
           broken == [lastDrawnPos |-> p + 1, strWidth |-> Rest(w, here[2]),
                     preferredBreakpoint |-> 0, widthAtBreakpoint |-> here[2],
                     rows |-> Append(r.rows, <<first, p - 1>>)]
           kept == [r EXCEPT !.strWidth = w, !.preferredBreakpoint = break[1], !.widthAtBreakpoint = break[2]]
<1>1. NextChar(r, k, text, maxLineWidth) = IF w >= maxLineWidth THEN broken ELSE kept
  BY DEF NextChar
<1>2. /\ k \in Nat /\ k + 1 \in 1 .. n /\ k \in 0 .. n /\ maxLineWidth \in Nat /\ ch \in TextChars
      /\ (k + 1) - 1 = k /\ k <= k + 1 /\ k < k + 1
  BY DEF TextGiven
<1>3. CharWidth[ch] \in Nat
  BY <1>2, TextAssumption
<1>4. /\ W \in [0 .. n -> Nat] /\ W[k + 1] = W[k] + CharWidth[ch]
      /\ \A a, b \in 0 .. n : a <= b => W[a] <= W[b]
  <2>1. \A i \in 1 .. n : W[i] = W[i - 1] + CharWidth[text[i - 1]]
    BY WidthsAre
  <2>2. W[k + 1] = W[(k + 1) - 1] + CharWidth[text[(k + 1) - 1]]
    BY <1>2, <2>1
  <2> QED BY <1>2, <2>2, WidthsAre, WidthsGrow
<1>5. /\ first \in 0 .. k /\ first = Reached(r.rows) /\ r.strWidth = W[k] - W[first]
      /\ Drawn(r.rows, k) /\ CarriedOver(r.rows, r.strWidth) /\ BreakKnown(r, k)
  BY DEF TurnKnown
<1>6. /\ first \in Int /\ r.strWidth \in Int /\ r.preferredBreakpoint \in Int /\ r.widthAtBreakpoint \in Int
      /\ r.rows \in Seq(Int \X Int)
  BY DEF Locals
<1>7. first \in 0 .. n /\ first \in Nat /\ first <= k /\ W[first] \in Nat /\ W[k] \in Nat /\ w = W[k + 1] - W[first]
  <2>1. first \in 0 .. n /\ first \in Nat /\ first <= k
    BY <1>2, <1>5
  <2>2. W[first] \in Nat /\ W[k] \in Nat
    BY <1>2, <1>4, <2>1
  <2> QED BY <1>3, <1>4, <1>5, <2>1, <2>2
<1> HIDE DEF W, broken, kept, w
<1>8. ASSUME NEW a \in 0 .. n, NEW b \in 0 .. n PROVE Width(<<a, b - 1>>) = W[b] - W[a]
  <2>1. (b - 1) + 1 = b /\ <<a, b - 1>>[1] = a /\ <<a, b - 1>>[2] = b - 1
    OBVIOUS
  <2> QED BY <2>1 DEF Width, W
<1>9. CASE w >= maxLineWidth
  <2>1. IF ch = Break \/ r.preferredBreakpoint = 0 THEN p = k /\ here[2] = w
        ELSE p = r.preferredBreakpoint /\ here[2] = r.widthAtBreakpoint
    BY DEF BreakAt
  <2> DEFINE wp == here[2]
  <2> HIDE DEF p, wp
  <2>2. /\ p \in first .. k /\ wp = W[p + 1] - W[first] /\ RowBroken(<<first, p - 1>>)
        /\ CarriedOver(r.rows, W[p] - W[first])
        /\ w - wp = 0 \/ r.strWidth < maxLineWidth
        /\ \A j \in p + 1 .. k : text[j] # Break
    <3>1. CASE ch = Break \/ r.preferredBreakpoint = 0
      <4>1. p = k /\ wp = w /\ k \in first .. k /\ (k - 1) + 1 = k /\ w \in Int
        BY <1>2, <1>3, <1>6, <1>7, <2>1, <3>1 DEF wp, w
      <4>2. RowBroken(<<first, k - 1>>)
        <5>1. <<first, k - 1>>[1] = first /\ <<first, k - 1>>[2] = k - 1
          OBVIOUS
        <5>2. ch # Break => \A j \in first .. k - 1 : text[j] # Break \/ j = 0
          BY <1>5, <3>1 DEF BreakKnown
        <5> QED BY <4>1, <5>1, <5>2 DEF RowBroken
      <4>3. \A j \in k + 1 .. k : FALSE
        BY <1>2
      <4>4. w - wp = 0
        BY <4>1
      <4> QED BY <1>5, <1>7, <4>1, <4>2, <4>3, <4>4
    <3>2. CASE ch # Break /\ r.preferredBreakpoint # 0
      <4>1. p = r.preferredBreakpoint /\ wp = r.widthAtBreakpoint
        BY <2>1, <3>2 DEF wp
      <4>2. /\ p \in first .. k - 1 /\ text[p] = Break /\ wp = W[p + 1] - W[first] /\ r.strWidth < maxLineWidth
            /\ \A j \in p + 1 .. k - 1 : text[j] # Break
        BY <1>5, <3>2, <4>1 DEF BreakKnown, W
      <4>3. p \in first .. k /\ p \in 0 .. n /\ p + 1 \in 0 .. n /\ p <= k /\ (p - 1) + 1 = p
        BY <1>2, <1>7, <4>2
      <4>4. RowBroken(<<first, p - 1>>)
        <5>1. <<first, p - 1>>[2] = p - 1
          OBVIOUS
        <5> QED BY <4>2, <4>3, <5>1 DEF RowBroken
      <4>5. W[p] - W[first] < maxLineWidth
        <5>1. W[p] <= W[k] /\ W[p] \in Nat
          BY <1>2, <1>4, <4>3
        <5> QED BY <1>2, <1>5, <1>7, <4>2, <5>1
      <4>6. CarriedOver(r.rows, W[p] - W[first])
        BY <4>5 DEF CarriedOver
      <4>7. \A j \in p + 1 .. k : text[j] # Break
        <5>1. \A j \in p + 1 .. k : j \in p + 1 .. k - 1 \/ j = k
          BY <1>2, <4>3
        <5> QED BY <3>2, <4>2, <5>1
      <4> QED BY <4>2, <4>3, <4>4, <4>6, <4>7
    <3> QED BY <3>1, <3>2
  <2>3. p \in Nat /\ first <= p /\ p < k + 1 /\ p \in 0 .. n /\ p + 1 \in 0 .. n /\ p + 1 \in 0 .. k + 1 /\ k + 1 \in Nat
    BY <1>2, <1>7, <2>2
  <2>4. Width(<<first, p - 1>>) = W[p] - W[first]
    BY <1>7, <1>8, <2>3
  <2> DEFINE new == Append(r.rows, <<first, p - 1>>)
  <2>5. /\ Drawn(new, k + 1) /\ Reached(new) = p + 1 /\ Len(new) = Len(r.rows) + 1
        /\ new[Len(new)] = <<first, p - 1>> /\ Len(r.rows) \in Nat
    <3>1. CarriedOver(r.rows, Width(<<first, p - 1>>))
      BY <2>2, <2>4
    <3>2. RowBroken(<<first, p - 1>>) /\ first \in Nat /\ first = Reached(r.rows) /\ Drawn(r.rows, k)
      BY <1>5, <1>7, <2>2
    <3>3. Len(r.rows) \in Nat
      BY <1>6
    <3> QED BY <1>2, <1>6, <2>3, <3>1, <3>2, <3>3, RowAppended
  <2> DEFINE left == W[k + 1] - W[p + 1]
  <2>6. left \in Int /\ left = w - wp /\ left + (W[p + 1] - W[first]) = r.strWidth + CharWidth[ch]
    <3>1. W[k + 1] \in Nat /\ W[p + 1] \in Nat
      BY <1>2, <1>4, <2>3
    <3>2. W[first] \in Nat /\ w = W[k + 1] - W[first] /\ wp = W[p + 1] - W[first]
      BY <1>7, <2>2
    <3>3. w = r.strWidth + CharWidth[ch]
      BY DEF w
    <3> QED BY <3>1, <3>2, <3>3
  <2> HIDE DEF left
  <2>7. CarriedOver(new, left)
    <3>1. CASE w - wp = 0
      BY <2>6, <3>1 DEF CarriedOver
    <3>2. CASE r.strWidth < maxLineWidth
      <4>1. WithBreak(new[Len(new)]) = W[p + 1] - W[first]
        <5>1. Width(<<first, (p + 1) - 1>>) = W[p + 1] - W[first]
          BY <1>7, <1>8, <2>3
        <5>2. (p + 1) - 1 = (p - 1) + 1 /\ <<first, p - 1>>[1] = first /\ <<first, p - 1>>[2] = p - 1
          BY <2>3
        <5> QED BY <2>5, <5>1, <5>2 DEF WithBreak
      <4>2. left + WithBreak(new[Len(new)]) < maxLineWidth + CharWidth[ch]
        BY <1>2, <1>3, <1>6, <2>6, <3>2, <4>1
      <4>3. Len(new) > 0
        BY <2>5
      <4> QED BY <1>2, <4>2, <4>3 DEF CarriedOver
    <3> QED BY <2>2, <3>1, <3>2
  <2>8. /\ broken.lastDrawnPos = p + 1 /\ broken.strWidth = left /\ broken.preferredBreakpoint = 0
        /\ broken.rows = new
    BY <2>6 DEF broken, Rest, wp
  <2>9. BreakKnown(broken, k + 1)
    BY <1>2, <2>2, <2>8 DEF BreakKnown
  <2> HIDE DEF new
  <2>10. TurnKnown(broken, k + 1)
    BY <2>3, <2>5, <2>7, <2>8, <2>9 DEF TurnKnown, left, W
  <2> QED BY <1>1, <1>9, <2>10
<1>10. CASE ~(w >= maxLineWidth)
  <2>1. w \in Int /\ w < maxLineWidth
    BY <1>2, <1>3, <1>6, <1>10 DEF w
  <2>2. /\ kept.lastDrawnPos = first /\ kept.strWidth = w /\ kept.rows = r.rows
        /\ kept.preferredBreakpoint = break[1] /\ kept.widthAtBreakpoint = break[2]
    BY DEF kept, Locals
  <2>3. Drawn(r.rows, k + 1)
    <3>1. ASSUME NEW j \in 1 .. Len(r.rows) PROVE RowPlaced(r.rows[j], k + 1)
      <4>1. RowPlaced(r.rows[j], k) /\ r.rows[j] \in Int \X Int
        BY <1>5, <1>6, ElementOfSeq DEF Drawn
      <4>2. r.rows[j][2] \in Int
        BY <4>1
      <4> QED BY <1>2, <4>1, <4>2 DEF RowPlaced
    <3> QED BY <1>5, <3>1 DEF Drawn
  <2>4. CarriedOver(r.rows, w)
    BY <2>1 DEF CarriedOver
  <2>5. BreakKnown(kept, k + 1)
    <3>1. \A a \in Int : \A j \in a .. k : j \in a .. k - 1 \/ j = k
      BY <1>2
    <3>2. CASE ch = Break /\ k # 0
      <4>1. break[1] = k /\ break[2] = w
        BY <3>2
      <4>2. k \in first .. k /\ \A j \in k + 1 .. k : FALSE
        BY <1>2, <1>7
      <4> QED BY <1>2, <1>7, <2>1, <2>2, <3>2, <4>1, <4>2 DEF BreakKnown, W
    <3>3. CASE ch = Break /\ k = 0
      <4>1. break[1] = 0
        BY <3>3
      <4>2. \A j \in first .. k : j = 0
        BY <1>7, <3>3
      <4> QED BY <1>2, <2>2, <4>1, <4>2 DEF BreakKnown
    <3>4. CASE ch # Break /\ r.preferredBreakpoint = 0
      <4>1. break[1] = 0
        BY <3>4
      <4>2. \A j \in first .. k - 1 : text[j] # Break \/ j = 0
        BY <1>5, <3>4 DEF BreakKnown
      <4>3. \A j \in first .. k : text[j] # Break \/ j = 0
        BY <1>6, <3>1, <3>4, <4>2
      <4> QED BY <1>2, <2>2, <4>1, <4>3 DEF BreakKnown
    <3>5. CASE ch # Break /\ r.preferredBreakpoint # 0
      <4> DEFINE b == r.preferredBreakpoint
      <4>1. break[1] = b /\ break[2] = r.widthAtBreakpoint
        BY <3>5
      <4>2. /\ b \in first .. k - 1 /\ text[b] = Break
            /\ r.widthAtBreakpoint = W[b + 1] - W[first]
            /\ \A j \in b + 1 .. k - 1 : text[j] # Break
        BY <1>5, <3>5 DEF BreakKnown, W
      <4>3. b \in first .. k /\ b + 1 \in Int
        BY <1>2, <1>7, <4>2
      <4>4. \A j \in b + 1 .. k : text[j] # Break
        BY <3>1, <3>5, <4>2, <4>3
      <4> QED BY <1>2, <2>1, <2>2, <3>5, <4>1, <4>2, <4>3, <4>4 DEF BreakKnown, W
    <3> QED BY <3>2, <3>3, <3>4, <3>5
  <2>6. first \in 0 .. k + 1
    BY <1>2, <1>7
  <2>7. TurnKnown(kept, k + 1)
    BY <1>5, <1>7, <2>2, <2>3, <2>4, <2>5, <2>6 DEF TurnKnown, W
  <2> QED BY <1>1, <1>10, <2>7
<1> QED BY <1>9, <1>10

LEMMA EveryTurnKnown ==
  ASSUME NEW n \in Nat, TextGiven(n)
  PROVE  Turns(text, maxLineWidth)[n] \in Locals /\ TurnKnown(Turns(text, maxLineWidth)[n], n)
<1> DEFINE T == Turns(text, maxLineWidth)
           P == {i \in 0 .. n : TurnKnown(T[i], i)}
<1>1. /\ T \in [0 .. n -> Locals] /\ T[0] = StartRow
      /\ \A i \in 1 .. n : T[i] = NextChar(T[i - 1], i - 1, text, maxLineWidth)
  BY TurnsAre
<1> HIDE DEF T
<1>2. 0 \in P
  BY <1>1, FirstTurn
<1>3. ASSUME NEW i \in 1 .. n, i - 1 \in P PROVE i \in P
  <2>1. i - 1 \in 0 .. n - 1 /\ (i - 1) + 1 = i /\ i - 1 \in 0 .. n /\ i \in 0 .. n
    OBVIOUS
  <2>2. T[i - 1] \in Locals /\ TurnKnown(T[i - 1], i - 1) /\ T[i] = NextChar(T[i - 1], i - 1, text, maxLineWidth)
    BY <1>1, <1>3, <2>1
  <2>3. TurnKnown(NextChar(T[i - 1], i - 1, text, maxLineWidth), (i - 1) + 1)
    BY <2>1, <2>2, NextTurn
  <2> QED BY <2>1, <2>2, <2>3
<1> HIDE DEF P
<1>4. 0 .. n \subseteq P
  BY <1>2, <1>3, EveryTurn
<1>5. n \in P /\ T[n] \in Locals
  BY <1>1, <1>4
<1> QED BY <1>5 DEF P, T

LEMMA TextRowsAre ==
  ASSUME NEW n \in 1 .. MaxText, TextGiven(n), rows = RowsOf(text, maxLineWidth)
  PROVE  /\ rows \in Seq(Int \X Int) /\ Len(rows) > 0 /\ Drawn(rows, n + 1)
         /\ rows[Len(rows)][2] \in {n - 2, n - 1}
<1> DEFINE end == Turns(text, maxLineWidth)[n]
           q == end.rows
           first == end.lastDrawnPos
<1>1. n \in Nat /\ n >= 1 /\ MaxText \in Nat
  BY TextAssumption
<1>2. end \in Locals /\ TurnKnown(end, n)
  BY <1>1, EveryTurnKnown
<1>3. rows = IF first < n THEN Append(q, <<first, n - 1>>) ELSE q
  BY <1>1, TextLength DEF RowsOf
<1> HIDE DEF end
<1>4. /\ first \in 0 .. n /\ first = Reached(q) /\ Drawn(q, n) /\ CarriedOver(q, end.strWidth)
      /\ end.strWidth = WidthBefore[n] - WidthBefore[first] /\ BreakKnown(end, n)
  BY <1>2 DEF TurnKnown
<1>5. q \in Seq(Int \X Int) /\ Len(q) \in Nat
  BY <1>2 DEF Locals
<1>6. CASE first < n
  <2>1. Width(<<first, n - 1>>) = end.strWidth
    <3>1. (n - 1) + 1 = n
      BY <1>1
    <3> QED BY <1>4, <3>1 DEF Width
  <2>2. /\ first \in Nat /\ first <= n /\ n < n + 1 /\ n <= n + 1 /\ n + 1 \in Nat
    BY <1>1, <1>4
  <2>3. ASSUME RowBroken(<<first, n - 1>>)
        PROVE  /\ rows \in Seq(Int \X Int) /\ Len(rows) > 0 /\ Drawn(rows, n + 1)
               /\ rows[Len(rows)][2] \in {n - 2, n - 1}
    <3>1. LET new == Append(q, <<first, n - 1>>)
          IN  Drawn(new, n + 1) /\ Len(new) = Len(q) + 1 /\ new[Len(new)] = <<first, n - 1>>
      BY <1>1, <1>4, <1>5, <2>1, <2>2, <2>3, RowAppended
    <3> QED BY <1>1, <1>3, <1>5, <1>6, <2>2, <3>1
  <2>4. RowBroken(<<first, n - 1>>)
    <3>1. <<first, n - 1>>[2] + 1 = n /\ n \notin DOMAIN text
      BY <1>1, TextLength
    <3> QED BY <3>1 DEF RowBroken
  <2> QED BY <2>3, <2>4
<1>7. CASE ~(first < n)
  <2>1. first = n /\ rows = q
    BY <1>1, <1>3, <1>4, <1>7
  <2>2. Len(q) > 0 /\ q[Len(q)][2] + 2 = n
    BY <1>1, <1>4, <1>5, <2>1 DEF Reached
  <2>3. q[Len(q)] \in Int \X Int
    BY <1>5, <2>2, ElementOfSeq
  <2>4. Drawn(q, n + 1)
    <3>1. ASSUME NEW j \in 1 .. Len(q) PROVE RowPlaced(q[j], n + 1)
      <4>1. RowPlaced(q[j], n) /\ q[j] \in Int \X Int
        BY <1>4, <1>5, ElementOfSeq DEF Drawn
      <4>2. q[j][2] \in Int
        BY <4>1
      <4> QED BY <1>1, <4>1, <4>2 DEF RowPlaced
    <3> QED BY <1>4, <3>1 DEF Drawn
  <2>5. q[Len(q)][2] = n - 2
    BY <1>1, <2>2, <2>3
  <2> QED BY <1>5, <2>1, <2>2, <2>4, <2>5
<1> QED BY <1>6, <1>7

LEMMA TextImplied == TextIInv => TextInv
<1> SUFFICES ASSUME TextIInv PROVE TextInv
  OBVIOUS
<1>1. CASE TextInit
  <2>1. rows = <<>> /\ DOMAIN rows = {} /\ DOMAIN text = {} /\ maxLineWidth = 0
    BY <1>1 DEF TextInit
  <2> QED BY <2>1 DEF TextInv, TextTypeOK, TextKept, RowsFit
<1>2. ASSUME NEW n \in 1 .. MaxText, TextGiven(n), rows = RowsOf(text, maxLineWidth) PROVE TextInv
  <2>1. /\ rows \in Seq(Int \X Int) /\ Len(rows) > 0 /\ Drawn(rows, n + 1)
        /\ rows[Len(rows)][2] \in {n - 2, n - 1}
    BY <1>2, TextRowsAre
  <2>2. n \in Nat /\ MaxText \in Nat /\ n <= MaxText /\ DOMAIN text = 0 .. n - 1 /\ Cardinality(DOMAIN text) = n
    BY <1>2, TextAssumption, TextLength
  <2>3. DOMAIN rows = 1 .. Len(rows) /\ Len(rows) \in Nat /\ \A k \in 1 .. Len(rows) : rows[k] \in Int \X Int
    BY <2>1, ElementOfSeq
  <2>4. ASSUME NEW k \in 1 .. Len(rows)
        PROVE  /\ rows[k][1] \in 0 .. n /\ rows[k][2] \in -1 .. n - 1
               /\ RowBroken(rows[k]) /\ RowFits(rows, k) /\ rows[k][1] <= rows[k][2] + 1
    <3>1. RowPlaced(rows[k], n + 1) /\ RowFits(rows, k)
      BY <2>1 DEF Drawn
    <3>2. rows[k][1] \in Int /\ rows[k][2] \in Int
      BY <2>3
    <3>3. 0 <= rows[k][1] /\ rows[k][1] <= rows[k][2] + 1 /\ rows[k][2] + 1 < n + 1 /\ RowBroken(rows[k])
      BY <3>1 DEF RowPlaced
    <3> QED BY <2>2, <3>1, <3>2, <3>3
  <2>5. TextTypeOK
    <3>1. DOMAIN text \subseteq 0 .. MaxText - 1 /\ \A i \in DOMAIN text : text[i] \in TextChars
      BY <1>2, <2>2 DEF TextGiven
    <3>2. ASSUME NEW k \in DOMAIN rows PROVE rows[k] \in (0 .. MaxText) \X (-1 .. MaxText - 1)
      <4>1. rows[k] \in Int \X Int /\ rows[k][1] \in 0 .. n /\ rows[k][2] \in -1 .. n - 1
        BY <2>3, <2>4
      <4>2. rows[k][1] \in 0 .. MaxText /\ rows[k][2] \in -1 .. MaxText - 1
        BY <2>2, <4>1
      <4> QED BY <4>1, <4>2
    <3> QED BY <1>2, <3>1, <3>2 DEF TextTypeOK, TextGiven
  <2>6. TextKept
    <3>1. rows[1][1] = 0
      BY <2>1 DEF Drawn
    <3>2. Cardinality(DOMAIN text) - 1 - rows[Len(rows)][2] \in {0, 1}
      BY <2>1, <2>2
    <3>3. ASSUME NEW k \in 1 .. Len(rows) - 1
          PROVE  /\ rows[k + 1][1] = rows[k][2] + 2
                 /\ text[rows[k][2] + 1] # Break =>
                      \A i \in rows[k][1] .. rows[k][2] : text[i] # Break \/ i = 0
      <4>1. k \in 1 .. Len(rows) /\ k + 1 \in 1 .. Len(rows)
        BY <2>3
      <4>2. rows[k + 1][1] = rows[k][2] + 2
        BY <2>1 DEF Drawn
      <4>3. rows[k][2] \in -1 .. n - 1 /\ rows[k + 1][2] \in -1 .. n - 1 /\ rows[k + 1][1] <= rows[k + 1][2] + 1
        BY <2>4, <4>1
      <4>4. rows[k][2] + 1 \in DOMAIN text
        <5>1. rows[k][2] \in Int /\ rows[k + 1][1] \in Int /\ rows[k + 1][2] \in Int
          BY <2>3, <4>1
        <5>2. rows[k][2] + 1 \in 0 .. n - 1
          BY <2>2, <4>2, <4>3, <5>1
        <5> QED BY <2>2, <5>2
      <4>5. RowBroken(rows[k])
        BY <2>4, <4>1
      <4> QED BY <4>2, <4>4, <4>5 DEF RowBroken
    <3> QED BY <3>1, <3>2, <3>3 DEF TextKept
  <2>7. RowsFit
    BY <2>3, <2>4 DEF RowsFit, RowFits, WithBreak
  <2> QED BY <2>5, <2>6, <2>7 DEF TextInv
<1> QED BY <1>1, <1>2 DEF TextIInv

LEMMA TextRowsKept ==
  TextIInv /\ [TextNext]_textVars => TextIInv'
<1> SUFFICES ASSUME TextIInv, [TextNext]_textVars PROVE TextIInv'
  OBVIOUS
<1>1. CASE UNCHANGED textVars
  BY <1>1 DEF textVars, TextIInv, TextInit, TextGiven
<1>2. ASSUME NEW n \in 1 .. MaxText, NEW s \in [0 .. n - 1 -> TextChars], NEW width \in MaxWidths,
             drawStringMaxWidth(s, width)
      PROVE  TextIInv'
  <2>1. text' = s /\ maxLineWidth' = width /\ rows' = RowsOf(s, width)
    BY <1>2 DEF drawStringMaxWidth
  <2>2. width \in Nat /\ n \in Nat
    BY TextAssumption
  <2>3. TextGiven(n)'
    BY <2>1, <2>2 DEF TextGiven
  <2> QED BY <2>1, <2>3 DEF TextIInv
<1> QED BY <1>1, <1>2 DEF TextNext

(***************************************************************************)
(* The print dialog (NefryDisplay).                                         *)
(***************************************************************************)
(* Line i after n prints.                                                   *)
LineAfter(n, i) == IF n >= 3 THEN (n - 3) + i ELSE IF i <= n THEN i ELSE 0

(* print() assigns from the top: above the line it has reached are the      *)
(* lines of this print, from there on those before it.                      *)
LinesKnown ==
  /\ moving \in {0, 4} =>
       /\ \A i \in 1 .. 3 : nefryPrintDisplay[i] = LineAfter(prints, i)
       /\ prints >= 3 => nefryPrintDisplayValue = 3
       /\ prints < 3 => nefryPrintDisplayValue = prints
  /\ moving \in 1 .. 3 /\ nefryPrintDisplayValue < 3 =>
       /\ \A i \in 1 .. 3 : nefryPrintDisplay[i] = LineAfter(nefryPrintDisplayValue, i)
       /\ nefryPrintDisplayValue + 1 = prints /\ moving = prints
  /\ moving \in 1 .. 3 /\ nefryPrintDisplayValue = 3 =>
       /\ prints >= 4
       /\ \A i \in 1 .. 3 : /\ i < moving => nefryPrintDisplay[i] = (prints - 3) + i
                            /\ i >= moving => nefryPrintDisplay[i] = (prints - 4) + i

(* What is drawn is no newer than what is still to be drawn below it.       *)
CanvasKnown ==
  \A i \in 1 .. 3 : i < drawing =>
    /\ canvas[i] <= prints
    /\ \A j \in i .. 3 :
         /\ j < drawing /\ canvas[j] # 0 => canvas[i] <= canvas[j]
         /\ j >= drawing /\ nefryPrintDisplay[j] # 0 => canvas[i] <= nefryPrintDisplay[j]

(* In peace, what is drawn are the lines.                                   *)
CalmKnown ==
  calm => /\ moving = 0
          /\ \A i \in 1 .. 3 : /\ i < drawing => canvas[i] = nefryPrintDisplay[i]
                               /\ drawing = 0 => shown[i] = nefryPrintDisplay[i]

DialogIInv == DialogTypeOK /\ LinesKnown /\ CanvasKnown /\ CalmKnown /\ ShownInOrder

LEMMA DialogInitial == DialogInit => DialogIInv
<1> SUFFICES ASSUME DialogInit PROVE DialogIInv
  OBVIOUS
<1>1. Empty \in Triples /\ \A i \in 1 .. 3 : Empty[i] = 0
  BY PrintsAssumption DEF Empty, Triples
<1>2. /\ nefryPrintDisplay = Empty /\ nefryPrintDisplayValue = 0 /\ moving = 0 /\ prints = 0
      /\ drawing = 0 /\ canvas = Empty /\ shown = Empty
  BY DEF DialogInit
<1>3. func \in BOOLEAN /\ ~calm /\ calm \in BOOLEAN
  BY DEF DialogInit
<1>4. DialogTypeOK
  BY <1>1, <1>2, <1>3, PrintsAssumption DEF DialogTypeOK
<1>5. LinesKnown
  BY <1>1, <1>2 DEF LinesKnown, LineAfter
<1>6. CanvasKnown /\ ShownInOrder
  BY <1>1, <1>2 DEF CanvasKnown, ShownInOrder
<1>7. CalmKnown
  BY <1>3, Zenon DEF CalmKnown
<1> QED BY <1>4, <1>5, <1>6, <1>7 DEF DialogIInv

(* At any time the lines are in order.                                      *)
LEMMA LinesInOrder ==
  ASSUME DialogTypeOK, LinesKnown, NEW i \in 1 .. 3, NEW j \in i .. 3, nefryPrintDisplay[j] # 0
  PROVE  nefryPrintDisplay[i] <= nefryPrintDisplay[j] /\ nefryPrintDisplay[i] <= prints
<1>1. prints \in Nat /\ moving \in 0 .. 4 /\ nefryPrintDisplayValue \in 0 .. 3 /\ j \in 1 .. 3 /\ i <= j
  BY PrintsAssumption DEF DialogTypeOK
<1>2. CASE moving \in {0, 4}
  BY <1>1, <1>2 DEF LinesKnown, LineAfter
<1>3. CASE moving \in 1 .. 3 /\ nefryPrintDisplayValue < 3
  BY <1>1, <1>3 DEF LinesKnown, LineAfter
<1>4. CASE moving \in 1 .. 3 /\ nefryPrintDisplayValue = 3
  BY <1>1, <1>4 DEF LinesKnown
<1> QED BY <1>1, <1>2, <1>3, <1>4

LEMMA DialogKept ==
  DialogIInv /\ [DialogNext]_dialogVars => DialogIInv'
<1> SUFFICES ASSUME DialogIInv, [DialogNext]_dialogVars PROVE DialogIInv'
  OBVIOUS
<1> USE PrintsAssumption
<1>1. /\ DialogTypeOK /\ LinesKnown /\ CanvasKnown /\ CalmKnown /\ ShownInOrder
      /\ prints \in Nat /\ moving \in 0 .. 4 /\ nefryPrintDisplayValue \in 0 .. 3 /\ drawing \in 0 .. 4
      /\ \A i \in 1 .. 3 : nefryPrintDisplay[i] \in Nat /\ canvas[i] \in Nat /\ shown[i] \in Nat
      /\ nefryPrintDisplay \in Triples /\ canvas \in Triples /\ shown \in Triples
  BY DEF DialogIInv, DialogTypeOK, Triples
<1>2. CASE UNCHANGED dialogVars
  BY <1>1, <1>2 DEF dialogVars, DialogIInv, DialogTypeOK, LinesKnown, CanvasKnown, CalmKnown, ShownInOrder
<1>3. CASE printDialog(prints + 1)
  <2>1. /\ moving = 0 /\ prints' = prints + 1 /\ prints + 1 <= MaxPrints
        /\ moving' = (IF nefryPrintDisplayValue < 3 THEN nefryPrintDisplayValue + 1 ELSE 1) /\ calm' = FALSE
        /\ nefryPrintDisplay' = nefryPrintDisplay /\ nefryPrintDisplayValue' = nefryPrintDisplayValue
        /\ func' = func /\ drawing' = drawing /\ canvas' = canvas /\ shown' = shown
    BY <1>3 DEF printDialog
  <2>2. DialogTypeOK'
    <3>1. prints' \in 0 .. MaxPrints /\ moving' \in 0 .. 4
      BY <1>1, <2>1
    <3>2. calm' \in BOOLEAN /\ func' \in BOOLEAN
      BY <1>1, <2>1, Zenon DEF DialogTypeOK
    <3> QED BY <1>1, <2>1, <3>1, <3>2 DEF DialogTypeOK
  <2>3. LinesKnown'
    <3>1. /\ \A i \in 1 .. 3 : nefryPrintDisplay[i] = LineAfter(prints, i)
          /\ prints >= 3 => nefryPrintDisplayValue = 3
          /\ prints < 3 => nefryPrintDisplayValue = prints
      BY <1>1, <2>1 DEF LinesKnown
    <3>2. CASE prints < 3
      <4>1. moving' \in 1 .. 3 /\ moving' = prints' /\ nefryPrintDisplayValue' = prints /\ prints' = prints + 1
        BY <1>1, <2>1, <3>1, <3>2
      <4> QED BY <1>1, <2>1, <3>1, <3>2, <4>1 DEF LinesKnown
    <3>3. CASE prints >= 3
      <4>1. moving' = 1 /\ nefryPrintDisplayValue' = 3 /\ prints' >= 4
        BY <1>1, <2>1, <3>1, <3>3
      <4>2. \A i \in 1 .. 3 : nefryPrintDisplay'[i] = (prints' - 4) + i
        BY <1>1, <2>1, <3>1, <3>3, <4>1 DEF LineAfter
      <4> QED BY <1>1, <4>1, <4>2 DEF LinesKnown
    <3> QED BY <1>1, <3>2, <3>3
  <2>4. CanvasKnown'
    BY <1>1, <2>1 DEF CanvasKnown
  <2>5. CalmKnown' /\ ShownInOrder'
    BY <1>1, <2>1 DEF CalmKnown, ShownInOrder
  <2> QED BY <2>2, <2>3, <2>4, <2>5 DEF DialogIInv
<1>4. CASE moveLine
  <2>1. /\ moving \in 1 .. 3 /\ prints' = prints /\ func' = func /\ drawing' = drawing /\ canvas' = canvas
        /\ shown' = shown /\ calm' = calm
    BY <1>4 DEF moveLine
  <2>2. ~calm
    BY <1>1, <2>1 DEF CalmKnown
  <2>3. CASE nefryPrintDisplayValue < 3
    <3>1. /\ nefryPrintDisplay' = [nefryPrintDisplay EXCEPT ![moving] = prints]
          /\ nefryPrintDisplayValue' = nefryPrintDisplayValue + 1 /\ moving' = 4
      BY <1>4, <2>3 DEF moveLine
    <3>2. /\ \A i \in 1 .. 3 : nefryPrintDisplay[i] = LineAfter(nefryPrintDisplayValue, i)
          /\ nefryPrintDisplayValue + 1 = prints /\ moving = prints
      BY <1>1, <2>1, <2>3 DEF LinesKnown
    <3>3. DialogTypeOK'
      BY <1>1, <2>1, <3>1, <3>2 DEF DialogTypeOK, Triples
    <3>4. \A i \in 1 .. 3 : nefryPrintDisplay'[i] = LineAfter(prints, i)
      <4>1. \A i \in 1 .. 3 : nefryPrintDisplay'[i] = IF i = moving THEN prints ELSE nefryPrintDisplay[i]
        BY <1>1, <2>1, <3>1 DEF Triples
      <4> QED BY <1>1, <2>1, <2>3, <3>2, <4>1 DEF LineAfter
    <3>5. LinesKnown'
      BY <1>1, <2>1, <2>3, <3>1, <3>2, <3>4 DEF LinesKnown
    <3>6. CanvasKnown'
      <4>1. \A j \in 1 .. 3 : nefryPrintDisplay'[j] = IF j = moving THEN prints ELSE nefryPrintDisplay[j]
        BY <1>1, <2>1, <3>1 DEF Triples
      <4> QED BY <1>1, <2>1, <4>1 DEF CanvasKnown
    <3> QED BY <1>1, <2>1, <2>2, <3>3, <3>5, <3>6 DEF DialogIInv, CalmKnown, ShownInOrder
  <2>4. CASE ~(nefryPrintDisplayValue < 3)
    <3>1. /\ nefryPrintDisplay' = [nefryPrintDisplay EXCEPT ![moving] = Moved(nefryPrintDisplay, moving)]
          /\ moving' = moving + 1 /\ nefryPrintDisplayValue' = nefryPrintDisplayValue
      BY <1>4, <2>4 DEF moveLine
    <3>2. /\ nefryPrintDisplayValue = 3 /\ prints >= 4
          /\ \A i \in 1 .. 3 : /\ i < moving => nefryPrintDisplay[i] = (prints - 3) + i
                               /\ i >= moving => nefryPrintDisplay[i] = (prints - 4) + i
      BY <1>1, <2>1, <2>4 DEF LinesKnown
    <3>3. Moved(nefryPrintDisplay, moving) = (prints - 3) + moving
      BY <1>1, <2>1, <3>2 DEF Moved
    <3>4. \A j \in 1 .. 3 : nefryPrintDisplay'[j] = IF j = moving THEN (prints - 3) + moving ELSE nefryPrintDisplay[j]
      BY <1>1, <2>1, <3>1, <3>3 DEF Triples
    <3>5. DialogTypeOK'
      <4>1. (prints - 3) + moving \in 0 .. MaxPrints
        BY <1>1, <2>1, <3>2 DEF DialogTypeOK
      <4>2. nefryPrintDisplay' \in Triples
        BY <1>1, <3>1, <3>3, <4>1 DEF Triples
      <4> QED BY <1>1, <2>1, <3>1, <4>2 DEF DialogTypeOK
    <3>6. LinesKnown'
      <4>1. CASE moving < 3
        BY <1>1, <2>1, <3>1, <3>2, <3>4, <4>1 DEF LinesKnown
      <4>2. CASE moving = 3
        <5>1. \A j \in 1 .. 3 : nefryPrintDisplay'[j] = LineAfter(prints, j)
          BY <1>1, <3>2, <3>4, <4>2 DEF LineAfter
        <5>2. moving' = 4
          BY <3>1, <4>2
        <5> QED BY <1>1, <2>1, <3>1, <3>2, <5>1, <5>2 DEF LinesKnown
      <4> QED BY <1>1, <2>1, <4>1, <4>2
    <3>7. CanvasKnown'
      <4>1. \A j \in 1 .. 3 : nefryPrintDisplay[j] # 0 /\ nefryPrintDisplay[j] <= nefryPrintDisplay'[j]
        BY <1>1, <2>1, <3>2, <3>4
      <4> QED BY <1>1, <2>1, <3>4, <4>1 DEF CanvasKnown
    <3> QED BY <1>1, <2>1, <2>2, <3>5, <3>6, <3>7 DEF DialogIInv, CalmKnown, ShownInOrder
  <2> QED BY <2>3, <2>4
<1>5. CASE endPrint
  <2>1. /\ moving = 4 /\ moving' = 0 /\ func' = TRUE
        /\ nefryPrintDisplay' = nefryPrintDisplay /\ nefryPrintDisplayValue' = nefryPrintDisplayValue
        /\ prints' = prints /\ drawing' = drawing /\ canvas' = canvas /\ shown' = shown /\ calm' = calm
    BY <1>5 DEF endPrint
  <2> QED BY <1>1, <2>1 DEF DialogIInv, DialogTypeOK, LinesKnown, CanvasKnown, CalmKnown, ShownInOrder
<1>6. CASE autoScrollTask
  <2>1. /\ drawing = 0 /\ drawing' = 1 /\ canvas' = Empty /\ calm' = (moving = 0)
        /\ nefryPrintDisplay' = nefryPrintDisplay /\ nefryPrintDisplayValue' = nefryPrintDisplayValue
        /\ moving' = moving /\ prints' = prints /\ func' = func /\ shown' = shown
    BY <1>6 DEF autoScrollTask
  <2>2. Empty \in Triples
    BY DEF Empty, Triples
  <2>3. DialogTypeOK'
    BY <1>1, <2>1, <2>2 DEF DialogTypeOK
  <2>4. LinesKnown'
    BY <1>1, <2>1 DEF LinesKnown
  <2>5. CanvasKnown' /\ ShownInOrder'
    BY <1>1, <2>1 DEF CanvasKnown, ShownInOrder
  <2>6. CalmKnown'
    <3>1. calm' => moving' = 0
      BY <2>1, Zenon
    <3> QED BY <2>1, <3>1 DEF CalmKnown
  <2> QED BY <2>3, <2>4, <2>5, <2>6 DEF DialogIInv
<1>7. CASE drawLineString
  <2>1. /\ drawing \in 1 .. 3 /\ drawing' = drawing + 1
        /\ canvas' = [canvas EXCEPT ![drawing] = nefryPrintDisplay[drawing]]
        /\ nefryPrintDisplay' = nefryPrintDisplay /\ nefryPrintDisplayValue' = nefryPrintDisplayValue
        /\ moving' = moving /\ prints' = prints /\ func' = func /\ shown' = shown /\ calm' = calm
    BY <1>7 DEF drawLineString, LineDrawn
  <2>2. \A j \in 1 .. 3 : canvas'[j] = IF j = drawing THEN nefryPrintDisplay[drawing] ELSE canvas[j]
    BY <1>1, <2>1 DEF Triples
  <2>3. DialogTypeOK'
    BY <1>1, <2>1 DEF DialogTypeOK, Triples
  <2>4. LinesKnown'
    BY <1>1, <2>1 DEF LinesKnown
  <2>5. CanvasKnown'
    <3>1. \A i \in 1 .. 3 : \A j \in i .. 3 : nefryPrintDisplay[j] # 0 => nefryPrintDisplay[i] <= nefryPrintDisplay[j]
      BY <1>1, LinesInOrder
    <3>2. nefryPrintDisplay[drawing] <= prints
      <4>1. CASE nefryPrintDisplay[drawing] = 0
        BY <1>1, <4>1
      <4>2. CASE nefryPrintDisplay[drawing] # 0
        <5>1. drawing \in 1 .. 3 /\ drawing \in drawing .. 3
          BY <2>1
        <5> QED BY <1>1, <4>2, <5>1, LinesInOrder
      <4> QED BY <4>1, <4>2
    <3> QED BY <1>1, <2>1, <2>2, <3>1, <3>2 DEF CanvasKnown
  <2>6. CalmKnown' /\ ShownInOrder'
    BY <1>1, <2>1, <2>2 DEF CalmKnown, ShownInOrder
  <2> QED BY <2>3, <2>4, <2>5, <2>6 DEF DialogIInv
<1>8. CASE endDraw
  <2>1. /\ drawing = 4 /\ drawing' = 0 /\ shown' = canvas /\ canvas' = canvas
        /\ nefryPrintDisplay' = nefryPrintDisplay /\ nefryPrintDisplayValue' = nefryPrintDisplayValue
        /\ moving' = moving /\ prints' = prints /\ func' = func /\ calm' = calm
    BY <1>8 DEF endDraw
  <2>2. DialogTypeOK' /\ LinesKnown'
    BY <1>1, <2>1 DEF DialogTypeOK, LinesKnown
  <2>3. CanvasKnown' /\ CalmKnown' /\ ShownInOrder'
    BY <1>1, <2>1 DEF CanvasKnown, CalmKnown, ShownInOrder
  <2> QED BY <2>2, <2>3 DEF DialogIInv
<1> QED BY <1>2, <1>3, <1>4, <1>5, <1>6, <1>7, <1>8 DEF DialogNext

LEMMA DialogImplied == DialogIInv => DialogInv
<1> SUFFICES ASSUME DialogIInv, drawing = 0, calm, NEW i \in 1 .. 3
             PROVE  shown[i] = IF prints >= 3 THEN prints - 3 + i ELSE IF i <= prints THEN i ELSE 0
  BY DEF DialogIInv, DialogInv, LatestShown
<1>1. moving = 0 /\ shown[i] = nefryPrintDisplay[i]
  BY DEF DialogIInv, CalmKnown
<1>2. nefryPrintDisplay[i] = LineAfter(prints, i)
  BY <1>1 DEF DialogIInv, LinesKnown
<1>3. prints \in Nat
  BY PrintsAssumption DEF DialogIInv, DialogTypeOK
<1> QED BY <1>1, <1>2, <1>3 DEF LineAfter

(***************************************************************************)
(* display() of the SSD1306 (SSD1306Wire).                                  *)
(***************************************************************************)
(* Up to where, and of which bytes, buffer_back is the frame buffer and the *)
(* panel buffer_back.  A byte that has not been drawn or hit is the frame   *)
(* buffer's once it is copied; one that was not found changed is as on the  *)
(* panel, and one that was is so once it is sent.                           *)
BackKnown ==
  /\ \A p \in Pos \ touched : p \notin changed => buffer_back[p] = panel[p]
  /\ displaying = "no" =>
       /\ changed = {}
       /\ \A p \in Pos \ drawn : buffer_back[p] = frame[p]
  /\ displaying \in {"compare", "copy"} =>
       /\ \A p \in Pos \ drawn : p < pos => buffer_back[p] = frame[p]
       /\ \A p \in Pos \ touched : p < pos => buffer_back[p] = frame[p]
       /\ \A p \in changed : p <= pos
  /\ displaying = "compare" => pos \notin changed
  /\ displaying = "copy" =>
       /\ pos \in Pos
       /\ pos \notin touched /\ pos \notin changed => buffer_back[pos] = frame[pos]
  /\ displaying = "send" =>
       /\ pos \in Box
       /\ \A p \in Pos \ drawn : buffer_back[p] = frame[p]
       /\ \A p \in Box \ touched : p >= pos => buffer_back[p] = frame[p]
       /\ \A p \in changed \ touched : p < pos => buffer_back[p] = panel[p]

PanelIInv == PanelTypeOK /\ BackKnown

LEMMA AreaKnown == Area \in Nat \ {0} /\ PanelWidth \in Nat \ {0}
<1>1. PanelWidth \in Nat \ {0} /\ PanelPages \in Nat \ {0}
  BY PanelAssumption
<1> QED BY <1>1 DEF Area

(* The box holds every byte that has changed.                               *)
LEMMA BoxHoldsChanged ==
  ASSUME changed \subseteq Pos
  PROVE  changed \subseteq Box /\ Box \subseteq Pos
<1> SUFFICES ASSUME NEW p \in changed PROVE p \in Box
  BY DEF Box
<1>1. p \in Pos /\ p \in Int
  BY AreaKnown DEF Pos
<1>2. X(p) \in Int /\ Y(p) \in Int
  BY <1>1, AreaKnown DEF X, Y
<1>3. X(p) <= X(p) /\ Y(p) <= Y(p)
  BY <1>2
<1> QED BY <1>1, <1>3 DEF Box

(* A set of bytes that is not empty has a first one.                        *)
LEMMA FirstByte ==
  ASSUME NEW S \in SUBSET Pos, S # {}
  PROVE  Min(S) \in S /\ \A p \in S : Min(S) <= p
<1>1. S \subseteq Nat
  BY AreaKnown DEF Pos
<1>2. PICK x \in S : \A y \in S : x <= y
  BY <1>1, LeastOne
<1> QED BY <1>2 DEF Min

LEMMA PanelInitial == PanelInit => PanelIInv
<1> SUFFICES ASSUME PanelInit PROVE PanelIInv
  OBVIOUS
<1>1. [p \in Pos |-> 0] \in [Pos -> Patterns]
  BY PanelAssumption
<1>2. PanelTypeOK
  BY <1>1, PanelAssumption, AreaKnown DEF PanelInit, PanelTypeOK
<1>3. BackKnown
  BY DEF PanelInit, BackKnown
<1> QED BY <1>2, <1>3 DEF PanelIInv

(* What another task draws meanwhile.                                       *)
LEMMA PanelRepainted ==
  ASSUME PanelIInv, NEW f \in [Pos -> Patterns], Repaint(f)
  PROVE  PanelIInv'
<1> DEFINE new == {p \in Pos : f[p] # frame[p]}
<1>1. /\ PanelTypeOK /\ BackKnown
  BY DEF PanelIInv
<1>2. /\ paints < MaxPaints /\ paints' = paints + 1 /\ frame' = f
      /\ buffer_back' = buffer_back /\ panel' = panel /\ displaying' = displaying /\ pos' = pos
      /\ changed' = changed /\ displays' = displays
      /\ drawn' = drawn \cup new /\ touched' = touched \cup (new \cap AtRisk)
  BY DEF Repaint, panelBuffers
<1>3. /\ new \subseteq Pos
      /\ \A p \in Pos : p \notin new => frame'[p] = frame[p]
  BY <1>2
<1> HIDE DEF new
<1>4. Box' = Box
  BY <1>2 DEF Box
<1>5. PanelTypeOK'
  BY <1>1, <1>2, <1>3, PanelAssumption DEF PanelTypeOK
<1>6. /\ pos \in Int /\ \A p \in Pos : p \in Int
      /\ drawn \subseteq Pos /\ touched \subseteq Pos /\ changed \subseteq Pos /\ Box \subseteq Pos
      /\ drawn \subseteq drawn' /\ touched \subseteq touched' /\ new \subseteq drawn'
  BY <1>1, <1>2, AreaKnown DEF PanelTypeOK, Pos, Box
<1>7. ASSUME displaying = "no" PROVE BackKnown'
  <2> QED BY <1>1, <1>2, <1>3, <1>6, <1>7 DEF BackKnown
<1>8. ASSUME displaying = "compare" PROVE BackKnown'
  <2>1. \A p \in Pos : p < pos /\ p \notin touched' => p \notin new
    BY <1>2, <1>8 DEF AtRisk
  <2> QED BY <1>1, <1>2, <1>3, <1>6, <1>8, <2>1 DEF BackKnown
<1>9. ASSUME displaying = "copy" PROVE BackKnown'
  <2>1. \A p \in Pos : p <= pos /\ p \notin touched' => p \notin new
    BY <1>2, <1>9 DEF AtRisk
  <2> QED BY <1>1, <1>2, <1>3, <1>6, <1>9, <2>1 DEF BackKnown
<1>10. ASSUME displaying = "send" PROVE BackKnown'
  <2>1. \A p \in Box : p >= pos /\ p \notin touched' => p \notin new
    BY <1>2, <1>10 DEF AtRisk
  <2> QED BY <1>1, <1>2, <1>3, <1>4, <1>6, <1>10, <2>1 DEF BackKnown
<1>11. displaying \in {"no", "compare", "copy", "send"}
  BY <1>1 DEF PanelTypeOK
<1>12. BackKnown'
  BY <1>7, <1>8, <1>9, <1>10, <1>11
<1> QED BY <1>5, <1>12 DEF PanelIInv

LEMMA PanelKept ==
  PanelIInv /\ [PanelNext]_panelVars => PanelIInv'
<1> SUFFICES ASSUME PanelIInv, [PanelNext]_panelVars PROVE PanelIInv'
  OBVIOUS
<1>1. /\ PanelTypeOK /\ BackKnown
      /\ frame \in [Pos -> Patterns] /\ buffer_back \in [Pos -> Patterns] /\ panel \in [Pos -> Patterns]
      /\ displaying \in {"no", "compare", "copy", "send"} /\ pos \in 0 .. Area
      /\ changed \subseteq Pos /\ drawn \subseteq Pos /\ touched \subseteq Pos
      /\ paints \in 0 .. MaxPaints /\ displays \in 0 .. MaxDisplays
      /\ MaxDisplays \in Nat
  BY PanelAssumption DEF PanelIInv, PanelTypeOK
<1>2. /\ Area \in Nat /\ pos \in Int /\ \A p \in Pos : p \in Int /\ 0 <= p /\ p < Area
      /\ \A p \in Int : 0 <= p /\ p < Area => p \in Pos
      /\ changed \subseteq Box /\ Box \subseteq Pos
  <2>1. changed \subseteq Box /\ Box \subseteq Pos
    BY <1>1, BoxHoldsChanged
  <2>2. \A p \in Pos : p \in Int /\ 0 <= p /\ p < Area
    BY AreaKnown DEF Pos
  <2> QED BY <1>1, <2>1, <2>2, AreaKnown DEF Pos
<1>3. CASE UNCHANGED panelVars
  <2>1. /\ frame' = frame /\ buffer_back' = buffer_back /\ panel' = panel /\ displaying' = displaying
        /\ pos' = pos /\ changed' = changed /\ paints' = paints /\ displays' = displays
        /\ drawn' = drawn /\ touched' = touched
    BY <1>3 DEF panelVars, panelBuffers
  <2>2. Box' = Box
    BY <2>1 DEF Box
  <2> QED BY <1>1, <2>1, <2>2 DEF PanelIInv, PanelTypeOK, BackKnown
<1>4. ASSUME NEW p \in Pos, NEW v \in Patterns, drawByte(p, v) PROVE PanelIInv'
  <2>1. [frame EXCEPT ![p] = v] \in [Pos -> Patterns]
    BY <1>1
  <2> QED BY <1>4, <2>1, PanelRepainted DEF drawByte
<1>5. CASE clearFrame
  <2>1. [p \in Pos |-> 0] \in [Pos -> Patterns]
    BY PanelAssumption
  <2> QED BY <1>5, <2>1, PanelRepainted DEF clearFrame
<1>6. CASE startDisplay
  <2>1. /\ displaying = "no" /\ displays < MaxDisplays /\ displays' = displays + 1 /\ displaying' = "compare"
        /\ pos' = 0 /\ changed' = {} /\ drawn' = {} /\ frame' = frame /\ buffer_back' = buffer_back
        /\ panel' = panel /\ paints' = paints /\ touched' = touched
    BY <1>6 DEF startDisplay, panelBuffers
  <2>2. PanelTypeOK'
    BY <1>1, <1>2, <2>1 DEF PanelTypeOK
  <2>3. BackKnown'
    BY <1>1, <1>2, <2>1 DEF BackKnown
  <2> QED BY <2>2, <2>3 DEF PanelIInv
<1>7. CASE compareByte
  <2>1. /\ displaying = "compare" /\ pos < Area /\ displaying' = "copy" /\ pos' = pos
        /\ changed' = (IF frame[pos] # buffer_back[pos] THEN changed \cup {pos} ELSE changed)
        /\ frame' = frame /\ buffer_back' = buffer_back /\ panel' = panel
        /\ paints' = paints /\ displays' = displays /\ drawn' = drawn /\ touched' = touched
    BY <1>7 DEF compareByte, panelBuffers
  <2>2. pos \in Pos
    BY <1>1, <1>2, <2>1
  <2>3. PanelTypeOK'
    BY <1>1, <2>1, <2>2 DEF PanelTypeOK
  <2>4. BackKnown'
    BY <1>1, <1>2, <2>1, <2>2 DEF BackKnown
  <2> QED BY <2>3, <2>4 DEF PanelIInv
<1>8. CASE copyByte
  <2>1. /\ displaying = "copy" /\ displaying' = "compare" /\ pos' = pos + 1
        /\ buffer_back' = [buffer_back EXCEPT ![pos] = frame[pos]]
        /\ changed' = changed /\ frame' = frame /\ panel' = panel
        /\ paints' = paints /\ displays' = displays /\ drawn' = drawn /\ touched' = touched
    BY <1>8 DEF copyByte
  <2>2. pos \in Pos
    BY <1>1, <2>1 DEF BackKnown
  <2>3. \A p \in Pos : buffer_back'[p] = IF p = pos THEN frame[pos] ELSE buffer_back[p]
    BY <1>1, <2>1, <2>2
  <2>4. PanelTypeOK'
    <3>1. pos + 1 \in 0 .. Area
      BY <1>1, <1>2, <2>2
    <3>2. buffer_back' \in [Pos -> Patterns]
      BY <1>1, <2>1, <2>2
    <3> QED BY <1>1, <2>1, <3>1, <3>2 DEF PanelTypeOK
  <2>5. BackKnown'
    <3>1. \A p \in Pos : p < pos + 1 <=> p < pos \/ p = pos
      BY <1>2
    <3>2. \A p \in Pos : p <= pos => p <= pos + 1 /\ p # pos + 1
      BY <1>2
    <3>3. \A p \in Pos \ touched : p \notin changed => buffer_back'[p] = panel[p]
      BY <1>1, <2>1, <2>2, <2>3 DEF BackKnown
    <3>4. \A p \in Pos \ drawn : p < pos + 1 => buffer_back'[p] = frame[p]
      BY <1>1, <2>1, <2>2, <2>3, <3>1 DEF BackKnown
    <3>5. \A p \in Pos \ touched : p < pos + 1 => buffer_back'[p] = frame[p]
      BY <1>1, <2>1, <2>2, <2>3, <3>1 DEF BackKnown
    <3>6. (\A p \in changed : p <= pos + 1) /\ pos + 1 \notin changed
      BY <1>1, <2>1, <3>2 DEF BackKnown
    <3> QED BY <2>1, <3>3, <3>4, <3>5, <3>6 DEF BackKnown
  <2> QED BY <2>4, <2>5 DEF PanelIInv
<1>9. CASE openBox
  <2>1. /\ displaying = "compare" /\ pos = Area
        /\ changed = {} => displaying' = "no" /\ pos' = 0
        /\ changed # {} => displaying' = "send" /\ pos' = Min(Box)
        /\ frame' = frame /\ buffer_back' = buffer_back /\ panel' = panel /\ changed' = changed
        /\ paints' = paints /\ displays' = displays /\ drawn' = drawn /\ touched' = touched
    BY <1>9 DEF openBox, panelBuffers
  <2>2. Box' = Box
    BY <2>1 DEF Box
  <2>3. CASE changed = {}
    BY <1>1, <1>2, <2>1, <2>3 DEF PanelIInv, PanelTypeOK, BackKnown
  <2>4. CASE changed # {}
    <3>1. pos' \in Box /\ \A p \in Box : pos' <= p
      BY <1>2, <2>1, <2>4, FirstByte
    <3>2. pos' \in 0 .. Area
      BY <1>2, <3>1
    <3>3. PanelTypeOK'
      BY <1>1, <2>1, <2>4, <3>2 DEF PanelTypeOK
    <3>4. BackKnown'
      <4>1. \A p \in changed : ~(p < pos')
        BY <1>2, <3>1
      <4> QED BY <1>1, <1>2, <2>1, <2>2, <2>4, <3>1, <4>1 DEF BackKnown
    <3> QED BY <3>3, <3>4 DEF PanelIInv
  <2> QED BY <2>3, <2>4
<1>10. CASE sendByte
  <2> DEFINE rest == {p \in Box : p > pos}
  <2>1. /\ displaying = "send" /\ panel' = [panel EXCEPT ![pos] = frame[pos]]
        /\ touched' = (IF pos \in drawn THEN touched ELSE touched \ {pos})
        /\ rest # {} => pos' = Min(rest) /\ displaying' = displaying /\ changed' = changed
        /\ rest = {} => displaying' = "no" /\ pos' = 0 /\ changed' = {}
        /\ frame' = frame /\ buffer_back' = buffer_back
        /\ paints' = paints /\ displays' = displays /\ drawn' = drawn
    BY <1>10 DEF sendByte
  <2>2. /\ pos \in Box /\ pos \in Pos
        /\ \A p \in Pos \ drawn : buffer_back[p] = frame[p]
        /\ \A p \in Box \ touched : p >= pos => buffer_back[p] = frame[p]
        /\ \A p \in changed \ touched : p < pos => buffer_back[p] = panel[p]
        /\ \A p \in Pos \ touched : p \notin changed => buffer_back[p] = panel[p]
    BY <1>1, <1>2, <2>1 DEF BackKnown
  <2>3. \A p \in Pos : panel'[p] = IF p = pos THEN frame[pos] ELSE panel[p]
    BY <1>1, <2>1, <2>2
  <2>4. pos \notin touched' => buffer_back[pos] = frame[pos]
    BY <1>2, <2>1, <2>2
  <2>5. \A p \in Pos : p \notin touched' /\ p # pos => p \notin touched
    BY <2>1
  <2>6. \A p \in Pos \ touched' : p \notin changed \/ p <= pos => buffer_back[p] = panel'[p]
    <3>1. \A p \in Pos \ touched' : p # pos /\ p <= pos => p < pos
      BY <1>2, <2>2
    <3>2. \A p \in Pos \ touched' : p # pos => panel'[p] = panel[p] /\ p \notin touched
      BY <2>3, <2>5
    <3>3. pos \notin touched' => buffer_back[pos] = panel'[pos]
      BY <2>2, <2>3, <2>4
    <3> QED BY <2>2, <3>1, <3>2, <3>3
  <2>7. /\ panel' \in [Pos -> Patterns] /\ touched' \subseteq Pos
    BY <1>1, <2>1, <2>2
  <2>8. CASE rest = {}
    <3>1. PanelTypeOK'
      BY <1>1, <1>2, <2>1, <2>7, <2>8 DEF PanelTypeOK
    <3>2. \A p \in changed : p <= pos
      BY <1>2, <2>8
    <3>3. BackKnown'
      BY <2>1, <2>2, <2>6, <2>8, <3>2 DEF BackKnown
    <3> QED BY <3>1, <3>3 DEF PanelIInv
  <2>9. CASE rest # {}
    <3>1. rest \in SUBSET Pos
      BY <1>2
    <3>2. pos' \in rest /\ \A p \in rest : pos' <= p
      BY <2>1, <2>9, <3>1, FirstByte
    <3>3. pos' \in Box /\ pos' \in Pos /\ pos' > pos /\ pos' \in 0 .. Area
      BY <1>2, <3>2
    <3>4. displaying' = "send" /\ changed' = changed
      BY <2>1, <2>9
    <3>5. Box' = Box
      BY <3>4 DEF Box
    <3>6. \A p \in Box : p < pos' => p <= pos
      BY <1>2, <3>2, <3>3
    <3>7. PanelTypeOK'
      BY <1>1, <2>1, <2>7, <3>3, <3>4 DEF PanelTypeOK
    <3>8. BackKnown'
      <4>1. \A p \in Box \ touched' : p >= pos' => buffer_back[p] = frame[p]
        <5> SUFFICES ASSUME NEW p \in Box \ touched', p >= pos' PROVE buffer_back[p] = frame[p]
          OBVIOUS
        <5>1. p \in Pos /\ pos \in Nat /\ pos' \in Nat /\ p \in Nat
          BY <1>2, <2>2, <3>3
        <5>2. p >= pos /\ p # pos
          BY <3>3, <5>1
        <5>3. p \notin touched
          BY <2>5, <5>1, <5>2
        <5> QED BY <2>2, <5>2, <5>3
      <4>2. \A p \in changed \ touched' : p < pos' => buffer_back[p] = panel'[p]
        BY <1>2, <2>6, <3>6
      <4>3. \A p \in Pos \ touched' : p \notin changed => buffer_back[p] = panel'[p]
        BY <2>6
      <4> HIDE DEF rest
      <4> QED BY <2>1, <2>2, <3>3, <3>4, <3>5, <4>1, <4>2, <4>3 DEF BackKnown
    <3> QED BY <3>7, <3>8 DEF PanelIInv
  <2> QED BY <2>8, <2>9
<1> QED BY <1>3, <1>4, <1>5, <1>6, <1>7, <1>8, <1>9, <1>10 DEF PanelNext

LEMMA PanelImplied == PanelIInv => PanelInv
BY DEF PanelIInv, PanelInv, BackKnown, PanelShowsFrame

(***************************************************************************)
(* The frame buffer (OLEDDrawing).                                          *)
(***************************************************************************)
Pictures == [0 .. Pages - 1 -> [0 .. DISPLAY_WIDTH - 1 -> Byte]]

LEMMA ScreenKnown ==
  /\ DISPLAY_WIDTH \in Nat \ {0} /\ Pages \in Nat \ {0} /\ DISPLAY_HEIGHT = 8 * Pages /\ DISPLAY_HEIGHT \in Nat
  /\ \A q \in Screen : /\ q[1] \in 0 .. DISPLAY_WIDTH - 1 /\ q[2] \in 0 .. DISPLAY_HEIGHT - 1
                       /\ q[1] \in Int /\ q[2] \in Int /\ q = <<q[1], q[2]>>
                       /\ q[2] \div 8 \in 0 .. Pages - 1 /\ q[2] % 8 \in 0 .. 7
                       /\ 8 * (q[2] \div 8) + (q[2] % 8) = q[2]
<1>1. DISPLAY_WIDTH \in Nat \ {0} /\ Pages \in Nat \ {0} /\ DISPLAY_HEIGHT = 8 * Pages /\ DISPLAY_HEIGHT \in Nat
  BY DrawingAssumption DEF DISPLAY_HEIGHT
<1>2. ASSUME NEW q \in Screen
      PROVE  /\ q[1] \in 0 .. DISPLAY_WIDTH - 1 /\ q[2] \in 0 .. DISPLAY_HEIGHT - 1
             /\ q[1] \in Int /\ q[2] \in Int /\ q = <<q[1], q[2]>>
  BY <1>1 DEF Screen
<1>3. ASSUME NEW q \in Screen
      PROVE  /\ q[2] \div 8 \in 0 .. Pages - 1 /\ q[2] % 8 \in 0 .. 7
             /\ 8 * (q[2] \div 8) + (q[2] % 8) = q[2]
  <2> DEFINE v == q[2]
  <2>1. v \in Nat /\ v < 8 * Pages
    BY <1>1, <1>2
  <2> HIDE DEF v
  <2>2. v \div 8 \in 0 .. Pages - 1 /\ v % 8 \in 0 .. 7 /\ 8 * (v \div 8) + (v % 8) = v
    BY <1>1, <2>1
  <2> QED BY <2>2 DEF v
<1> QED BY <1>1, <1>2, <1>3

(* What painting a byte does to each of its bits.                           *)
LEMMA PaintIs ==
  ASSUME NEW color \in Colors, NEW s, NEW mask
  PROVE  /\ color = "WHITE" => \A b : b \in Paint(color, s, mask) <=> b \in s \/ b \in mask
         /\ color = "BLACK" => \A b : b \in Paint(color, s, mask) <=> b \in s /\ b \notin mask
         /\ color = "INVERSE" => \A b : b \in Paint(color, s, mask) <=> (b \in s /\ b \notin mask) \/ (b \notin s /\ b \in mask)
         /\ \A b : b \in Paint(color, s, mask) => b \in s \/ b \in mask
BY DEF Colors, Paint, SymDiff

(* A picture that is painted so, of the points it should be.                *)
Shows(after, before, color, points) ==
  after \in Pictures /\ LitIn(after) = Paint(color, LitIn(before), points \cap Screen)

(* When the masks of the bytes hold the bits of the points, painting the    *)
(* bytes paints the points.                                                 *)
LEMMA MasksPaint ==
  ASSUME NEW color \in Colors, NEW before \in Pictures, NEW points,
         NEW M \in [0 .. Pages - 1 -> [0 .. DISPLAY_WIDTH - 1 -> SUBSET Int]],
         \A q \in Screen : q[2] % 8 \in M[q[2] \div 8][q[1]] <=> q \in points,
         \A p \in 0 .. Pages - 1, x \in 0 .. DISPLAY_WIDTH - 1 : M[p][x] \subseteq 0 .. 7
  PROVE  Shows([p \in 0 .. Pages - 1 |-> [x \in 0 .. DISPLAY_WIDTH - 1 |-> Paint(color, before[p][x], M[p][x])]],
               before, color, points)
<1> DEFINE after == [p \in 0 .. Pages - 1 |-> [x \in 0 .. DISPLAY_WIDTH - 1 |->
                       Paint(color, before[p][x], M[p][x])]]
<1>1. \A p \in 0 .. Pages - 1, x \in 0 .. DISPLAY_WIDTH - 1 : Paint(color, before[p][x], M[p][x]) \in Byte
  <2> TAKE p \in 0 .. Pages - 1, x \in 0 .. DISPLAY_WIDTH - 1
  <2>1. before[p][x] \subseteq 0 .. 7
    BY DEF Pictures, Byte
  <2> QED BY <2>1, PaintIs DEF Byte
<1>2. after \in Pictures
  BY <1>1 DEF Pictures
<1>3. ASSUME NEW q \in Screen
      PROVE  q \in LitIn(after) <=> q \in Paint(color, LitIn(before), points \cap Screen)
  <2> DEFINE p == q[2] \div 8
             x == q[1]
             b == q[2] % 8
  <2>1. p \in 0 .. Pages - 1 /\ x \in 0 .. DISPLAY_WIDTH - 1
    BY ScreenKnown
  <2>2. after[p][x] = Paint(color, before[p][x], M[p][x])
    BY <2>1
  <2>3. (q \in LitIn(after) <=> b \in Paint(color, before[p][x], M[p][x])) /\ (q \in LitIn(before) <=> b \in before[p][x])
    BY <2>2 DEF LitIn
  <2>4. b \in M[p][x] <=> q \in points \cap Screen
    OBVIOUS
  <2> HIDE DEF b, p, x, after
  <2>5. CASE color = "WHITE"
    BY <2>3, <2>4, <2>5, PaintIs
  <2>6. CASE color = "BLACK"
    BY <2>3, <2>4, <2>6, PaintIs
  <2>7. CASE color = "INVERSE"
    BY <2>3, <2>4, <2>7, PaintIs
  <2> QED BY <2>5, <2>6, <2>7 DEF Colors
<1>4. LitIn(after) \subseteq Screen
  BY DEF LitIn
<1>5. Paint(color, LitIn(before), points \cap Screen) \subseteq Screen
  BY PaintIs DEF LitIn
<1> HIDE DEF after
<1>6. LitIn(after) = Paint(color, LitIn(before), points \cap Screen)
  BY <1>3, <1>4, <1>5
<1> QED BY <1>2, <1>6 DEF after, Shows

LEMMA NothingPainted ==
  ASSUME NEW color \in Colors, NEW before \in Pictures, NEW points, points \cap Screen = {}
  PROVE  Shows(before, before, color, points)
<1>1. Paint(color, LitIn(before), {}) = LitIn(before)
  BY DEF Paint, Colors, SymDiff
<1> QED BY <1>1 DEF Shows

(* setPixel, many times.                                                    *)
LEMMA DotsPaint ==
  ASSUME NEW color \in Colors, buffer \in Pictures, NEW points
  PROVE  Shows(Dots(color, points), buffer, color, points)
<1> DEFINE M == [p \in 0 .. Pages - 1 |-> [x \in 0 .. DISPLAY_WIDTH - 1 |-> {b \in 0 .. 7 : <<x, 8 * p + b>> \in points}]]
<1>1. M \in [0 .. Pages - 1 -> [0 .. DISPLAY_WIDTH - 1 -> SUBSET Int]]
  OBVIOUS
<1>2. \A p \in 0 .. Pages - 1, x \in 0 .. DISPLAY_WIDTH - 1 :
        M[p][x] = {b \in 0 .. 7 : <<x, 8 * p + b>> \in points}
  OBVIOUS
<1>3. Dots(color, points) = [p \in 0 .. Pages - 1 |-> [x \in 0 .. DISPLAY_WIDTH - 1 |-> Paint(color, buffer[p][x], M[p][x])]]
  BY DEF Dots, Painted
<1> HIDE DEF M
<1>4. \A q \in Screen : q[2] % 8 \in M[q[2] \div 8][q[1]] <=> q \in points
  BY <1>2, ScreenKnown
<1>5. \A p \in 0 .. Pages - 1, x \in 0 .. DISPLAY_WIDTH - 1 : M[p][x] \subseteq 0 .. 7
  BY <1>2
<1> QED BY <1>1, <1>3, <1>4, <1>5, MasksPaint

LEMMA PixelPaints ==
  ASSUME NEW color \in Colors, buffer \in Pictures, NEW x \in Int, NEW y \in Int
  PROVE  Shows(IF x >= 0 /\ x < DISPLAY_WIDTH /\ y >= 0 /\ y < DISPLAY_HEIGHT
               THEN [buffer EXCEPT ![y \div 8][x] = Paint(color, @, {y % 8})] ELSE buffer,
               buffer, color, {<<x, y>>})
<1>1. CASE ~(x >= 0 /\ x < DISPLAY_WIDTH /\ y >= 0 /\ y < DISPLAY_HEIGHT)
  <2>1. {<<x, y>>} \cap Screen = {}
    BY <1>1, ScreenKnown DEF Screen
  <2> QED BY <1>1, <2>1, NothingPainted
<1>2. CASE x >= 0 /\ x < DISPLAY_WIDTH /\ y >= 0 /\ y < DISPLAY_HEIGHT
  <2> DEFINE after == [buffer EXCEPT ![y \div 8][x] = Paint(color, @, {y % 8})]
             dot(p, c) == {b \in 0 .. 7 : <<c, 8 * p + b>> \in {<<x, y>>}}
  <2>1. <<x, y>> \in Screen
    BY <1>2, ScreenKnown DEF Screen
  <2>2. y \div 8 \in 0 .. Pages - 1 /\ y % 8 \in 0 .. 7 /\ 8 * (y \div 8) + (y % 8) = y /\ x \in 0 .. DISPLAY_WIDTH - 1
    BY <2>1, ScreenKnown
  <2>3. \A p \in 0 .. Pages - 1, c \in 0 .. DISPLAY_WIDTH - 1 :
          Paint(color, buffer[p][c], dot(p, c)) =
            IF p = y \div 8 /\ c = x THEN Paint(color, buffer[p][c], {y % 8}) ELSE buffer[p][c]
    <3> TAKE p \in 0 .. Pages - 1, c \in 0 .. DISPLAY_WIDTH - 1
    <3>1. CASE p = y \div 8 /\ c = x
      <4>1. dot(p, c) = {y % 8}
        BY <2>2, <3>1
      <4> QED BY <3>1, <4>1
    <3>2. CASE ~(p = y \div 8 /\ c = x)
      <4>1. dot(p, c) = {}
        BY <2>2, <3>2
      <4>2. Paint(color, buffer[p][c], {}) = buffer[p][c]
        BY DEF Paint, Colors, SymDiff
      <4> HIDE DEF dot
      <4> QED BY <3>2, <4>1, <4>2
    <3> QED BY <3>1, <3>2
  <2>4. Dots(color, {<<x, y>>}) = [p \in 0 .. Pages - 1 |-> [c \in 0 .. DISPLAY_WIDTH - 1 |-> Paint(color, buffer[p][c], dot(p, c))]]
    BY DEF Dots, Painted
  <2>5. buffer = [p \in 0 .. Pages - 1 |-> [c \in 0 .. DISPLAY_WIDTH - 1 |-> buffer[p][c]]]
    BY DEF Pictures
  <2>6. after = [p \in 0 .. Pages - 1 |-> [c \in 0 .. DISPLAY_WIDTH - 1 |->
                   IF p = y \div 8 /\ c = x THEN Paint(color, buffer[p][c], {y % 8}) ELSE buffer[p][c]]]
    BY <2>2 DEF Pictures
  <2> HIDE DEF dot, after
  <2>7. after = Dots(color, {<<x, y>>})
    BY <2>3, <2>4, <2>6
  <2> QED BY <1>2, <2>7, DotsPaint DEF after
<1> QED BY <1>1, <1>2

(***************************************************************************)
(* Lines along the bytes and across them.                                   *)
(***************************************************************************)
(* Clipping keeps what lies on the display.                                 *)
LEMMA Clipped ==
  ASSUME NEW from \in Int, NEW length \in Nat, NEW limit \in Nat
  PROVE  LET l == ClippedLength(from, length, limit)
             a == Larger(from, 0)
         IN  /\ l \in Int /\ a \in Nat /\ a + l <= limit
             /\ \A v \in 0 .. limit - 1 : from <= v /\ v < from + length <=> a <= v /\ v < a + l
BY DEF ClippedLength, Larger, Smaller

LEMMA HorizontalPaints ==
  ASSUME NEW color \in Colors, NEW before \in Pictures, NEW x \in Int, NEW y \in Int, NEW length \in Nat
  PROVE  Shows(HorizontalLine(before, x, y, length, color), before, color, (x .. x + length - 1) \X {y})
<1> DEFINE l == ClippedLength(x, length, DISPLAY_WIDTH)
           a == Larger(x, 0)
           points == (x .. x + length - 1) \X {y}
<1>1. /\ l \in Int /\ a \in Nat /\ a + l <= DISPLAY_WIDTH
      /\ \A v \in 0 .. DISPLAY_WIDTH - 1 : x <= v /\ v < x + length <=> a <= v /\ v < a + l
  BY Clipped, ScreenKnown
<1>2. \A q \in Screen : q \in points <=> a <= q[1] /\ q[1] < a + l /\ q[2] = y
  <2>1. \A q \in Screen : q \in points <=> x <= q[1] /\ q[1] < x + length /\ q[2] = y
    BY ScreenKnown
  <2> QED BY <1>1, <2>1, ScreenKnown
<1>3. CASE y < 0 \/ y >= DISPLAY_HEIGHT \/ l <= 0
  <2>1. points \cap Screen = {}
    <3> SUFFICES ASSUME NEW q \in Screen, q \in points PROVE FALSE
      OBVIOUS
    <3>1. a <= q[1] /\ q[1] < a + l /\ q[2] = y /\ q[1] \in Int /\ q[2] \in 0 .. DISPLAY_HEIGHT - 1
      BY <1>2, ScreenKnown
    <3> QED BY <1>1, <1>3, <3>1, ScreenKnown
  <2> QED BY <1>3, <2>1, NothingPainted DEF HorizontalLine
<1>4. CASE ~(y < 0 \/ y >= DISPLAY_HEIGHT \/ l <= 0)
  <2> DEFINE M == [p \in 0 .. Pages - 1 |-> [c \in 0 .. DISPLAY_WIDTH - 1 |->
                    IF p = y \div 8 /\ c \in a .. a + l - 1 THEN {y % 8} ELSE {}]]
  <2>1. HorizontalLine(before, x, y, length, color) =
          [p \in 0 .. Pages - 1 |-> [c \in 0 .. DISPLAY_WIDTH - 1 |-> Paint(color, before[p][c], M[p][c])]]
    BY <1>4 DEF HorizontalLine, Painted
  <2>2. y % 8 \in 0 .. 7 /\ y \div 8 \in Int /\ 8 * (y \div 8) + (y % 8) = y
    OBVIOUS
  <2>3. M \in [0 .. Pages - 1 -> [0 .. DISPLAY_WIDTH - 1 -> SUBSET Int]]
    BY <2>2
  <2>4. \A p \in 0 .. Pages - 1, c \in 0 .. DISPLAY_WIDTH - 1 :
          M[p][c] = IF p = y \div 8 /\ c \in a .. a + l - 1 THEN {y % 8} ELSE {}
    OBVIOUS
  <2> HIDE DEF M, l, a
  <2>5. \A q \in Screen : q[2] % 8 \in M[q[2] \div 8][q[1]] <=> q \in points
    <3> TAKE q \in Screen
    <3>1. M[q[2] \div 8][q[1]] = IF q[2] \div 8 = y \div 8 /\ q[1] \in a .. a + l - 1 THEN {y % 8} ELSE {}
      BY <2>4, ScreenKnown
    <3>2. q[2] \div 8 \in Int /\ q[2] % 8 \in Int /\ q[1] \in Int /\ 8 * (q[2] \div 8) + (q[2] % 8) = q[2]
      BY ScreenKnown
    <3>3. q[2] = y <=> q[2] \div 8 = y \div 8 /\ q[2] % 8 = y % 8
      BY <2>2, <3>2
    <3>4. q[1] \in a .. a + l - 1 <=> a <= q[1] /\ q[1] < a + l
      BY <1>1, <3>2
    <3> QED BY <1>2, <3>1, <3>3, <3>4
  <2>6. \A p \in 0 .. Pages - 1, c \in 0 .. DISPLAY_WIDTH - 1 : M[p][c] \subseteq 0 .. 7
    BY <2>2, <2>4
  <2> HIDE DEF points
  <2>7. Shows(HorizontalLine(before, x, y, length, color), before, color, points)
    BY <2>1, <2>3, <2>5, <2>6, MasksPaint
  <2> QED BY <2>7 DEF points
<1> QED BY <1>3, <1>4

(* The masks of a line across the bytes: bit b of page p is in its mask     *)
(* when its row is in the line.                                             *)
LEMMA MaskOfLine ==
  ASSUME NEW p \in Nat, NEW b \in 0 .. 7, NEW y \in Nat, NEW length \in Nat \ {0}
  PROVE  /\ b \in VerticalMask(p, y, length) <=> y <= 8 * p + b /\ 8 * p + b < y + length
         /\ VerticalMask(p, y, length) \subseteq 0 .. 7
<1> DEFINE d == y \div 8
           m == y % 8
           yOffset == (8 - m) % 8
           rest == length - yOffset
           page == IF yOffset = 0 THEN p - d ELSE p - d - 1
<1>1. d \in Nat /\ m \in 0 .. 7 /\ y = 8 * d + m
  OBVIOUS
<1>2. yOffset = (IF m = 0 THEN 0 ELSE 8 - m) /\ yOffset \in 0 .. 7 /\ rest \in Int /\ page \in Int
  BY <1>1
<1>3. \A n \in 0 .. 8, k \in 0 .. 7 : k \in ShiftRight(0 .. 7, n) <=> k + n <= 7
  BY DEF ShiftRight
<1>4. CASE yOffset # 0 /\ p = d
  <2>1. VerticalMask(p, y, length) = FirstMask(yOffset, length)
    BY <1>4 DEF VerticalMask
  <2>2. b \notin ShiftRight(0 .. 7, yOffset) <=> b + yOffset > 7
    BY <1>2, <1>3
  <2>3. CASE length < yOffset
    <3>1. b \in ShiftRight(0 .. 7, yOffset - length) <=> b + (yOffset - length) <= 7
      BY <1>2, <1>3, <2>3
    <3>2. b \in FirstMask(yOffset, length) <=> b + yOffset > 7 /\ b + (yOffset - length) <= 7
      BY <2>2, <2>3, <3>1 DEF FirstMask
    <3>3. FirstMask(yOffset, length) \subseteq 0 .. 7
      BY <2>3 DEF FirstMask
    <3> HIDE DEF d, m, yOffset
    <3> QED BY <1>1, <1>2, <1>4, <2>1, <3>2, <3>3
  <2>4. CASE ~(length < yOffset)
    <3>1. b \in FirstMask(yOffset, length) <=> b + yOffset > 7
      BY <2>2, <2>4 DEF FirstMask
    <3>2. FirstMask(yOffset, length) \subseteq 0 .. 7
      BY <2>4 DEF FirstMask
    <3> HIDE DEF d, m, yOffset
    <3> QED BY <1>1, <1>2, <1>4, <2>1, <2>4, <3>1, <3>2
  <2> QED BY <2>3, <2>4
<1>5. CASE ~(yOffset # 0 /\ p = d)
  <2>1. CASE page >= 0 /\ 8 * (page + 1) <= rest
    <3>1. VerticalMask(p, y, length) = 0 .. 7
      BY <1>5, <2>1 DEF VerticalMask
    <3> HIDE DEF d, m, yOffset
    <3> QED BY <1>1, <1>2, <2>1, <3>1
  <2>2. CASE page >= 0 /\ 8 * page < rest /\ rest < 8 * (page + 1)
    <3>1. ~(8 * (page + 1) <= rest)
      BY <1>2, <2>2
    <3>2. VerticalMask(p, y, length) = 0 .. (rest % 8) - 1
      BY <1>5, <2>2, <3>1 DEF VerticalMask
    <3> HIDE DEF d, m, yOffset, rest, page
    <3>3. rest % 8 = rest - 8 * page
      BY <1>2, <2>2
    <3> QED BY <1>1, <1>2, <2>2, <3>2, <3>3 DEF rest, page
  <2>3. CASE ~(page >= 0 /\ 8 * (page + 1) <= rest) /\ ~(page >= 0 /\ 8 * page < rest /\ rest < 8 * (page + 1))
    <3>1. VerticalMask(p, y, length) = {}
      BY <1>5, <2>3 DEF VerticalMask
    <3>2. page < 0 \/ rest <= 8 * page
      BY <1>2, <2>3
    <3> HIDE DEF d, m, yOffset
    <3> QED BY <1>1, <1>2, <1>5, <3>1, <3>2
  <2> QED BY <2>1, <2>2, <2>3
<1> QED BY <1>4, <1>5

(* Columns of such lines: one of them, or those of a rectangle.             *)
LEMMA ColumnsPaint ==
  ASSUME NEW color \in Colors, NEW before \in Pictures, NEW y \in Int, NEW length \in Nat, NEW columns,
         NEW after,
         LET l == ClippedLength(y, length, DISPLAY_HEIGHT)
         IN  after = [p \in 0 .. Pages - 1 |-> [c \in 0 .. DISPLAY_WIDTH - 1 |->
                       Paint(color, before[p][c],
                             IF c \in columns /\ l > 0 THEN VerticalMask(p, Larger(y, 0), l) ELSE {})]]
  PROVE  Shows(after, before, color, columns \X (y .. y + length - 1))
<1> DEFINE l == ClippedLength(y, length, DISPLAY_HEIGHT)
           a == Larger(y, 0)
           points == columns \X (y .. y + length - 1)
           M == [p \in 0 .. Pages - 1 |-> [c \in 0 .. DISPLAY_WIDTH - 1 |->
                  IF c \in columns /\ l > 0 THEN VerticalMask(p, a, l) ELSE {}]]
<1>1. /\ l \in Int /\ a \in Nat /\ a + l <= DISPLAY_HEIGHT
      /\ \A v \in 0 .. DISPLAY_HEIGHT - 1 : y <= v /\ v < y + length <=> a <= v /\ v < a + l
  BY Clipped, ScreenKnown
<1>2. after = [p \in 0 .. Pages - 1 |-> [c \in 0 .. DISPLAY_WIDTH - 1 |-> Paint(color, before[p][c], M[p][c])]]
  OBVIOUS
<1>3. \A p \in 0 .. Pages - 1, c \in 0 .. DISPLAY_WIDTH - 1 :
        M[p][c] = IF c \in columns /\ l > 0 THEN VerticalMask(p, a, l) ELSE {}
  OBVIOUS
<1>4. \A q \in Screen : q \in points <=> q[1] \in columns /\ a <= q[2] /\ q[2] < a + l
  <2> SUFFICES ASSUME NEW q \in Screen PROVE q \in points <=> q[1] \in columns /\ a <= q[2] /\ q[2] < a + l
    OBVIOUS
  <2>1. q = <<q[1], q[2]>> /\ q[2] \in 0 .. DISPLAY_HEIGHT - 1 /\ q[2] \in Int
    BY ScreenKnown
  <2>2. q \in points <=> q[1] \in columns /\ q[2] \in y .. y + length - 1
    BY <2>1
  <2>3. q[2] \in y .. y + length - 1 <=> a <= q[2] /\ q[2] < a + l
    BY <1>1, <2>1
  <2> QED BY <2>2, <2>3
<1>5. M \in [0 .. Pages - 1 -> [0 .. DISPLAY_WIDTH - 1 -> SUBSET Int]]
  <2>1. ASSUME NEW p \in 0 .. Pages - 1, l > 0 PROVE VerticalMask(p, a, l) \subseteq Int
    <3>1. p \in Nat /\ 0 \in 0 .. 7 /\ l \in Nat \ {0}
      BY <1>1, <2>1, ScreenKnown
    <3> HIDE DEF a, l
    <3>2. VerticalMask(p, a, l) \subseteq 0 .. 7
      BY <1>1, <3>1, MaskOfLine
    <3> QED BY <3>2
  <2> QED BY <2>1
<1> HIDE DEF M, l, a
<1>6. \A p \in 0 .. Pages - 1, c \in 0 .. DISPLAY_WIDTH - 1 : M[p][c] \subseteq 0 .. 7
  <2> TAKE p \in 0 .. Pages - 1, c \in 0 .. DISPLAY_WIDTH - 1
  <2>1. CASE c \in columns /\ l > 0
    <3>1. p \in Nat /\ 0 \in 0 .. 7 /\ l \in Nat \ {0}
      BY <1>1, <2>1, ScreenKnown
    <3> QED BY <1>1, <1>3, <2>1, <3>1, MaskOfLine
  <2>2. CASE ~(c \in columns /\ l > 0)
    BY <1>3, <2>2
  <2> QED BY <2>1, <2>2
<1>7. \A q \in Screen : q[2] % 8 \in M[q[2] \div 8][q[1]] <=> q \in points
  <2> TAKE q \in Screen
  <2>1. /\ q[2] \div 8 \in 0 .. Pages - 1 /\ q[2] \div 8 \in Nat /\ q[2] % 8 \in 0 .. 7
        /\ 8 * (q[2] \div 8) + (q[2] % 8) = q[2] /\ q[1] \in 0 .. DISPLAY_WIDTH - 1 /\ q[2] \in Int
    BY ScreenKnown
  <2>2. CASE q[1] \in columns /\ l > 0
    <3>1. l \in Nat \ {0}
      BY <1>1, <2>2
    <3>2. q[2] % 8 \in VerticalMask(q[2] \div 8, a, l) <=> a <= q[2] /\ q[2] < a + l
      BY <1>1, <2>1, <3>1, MaskOfLine
    <3> QED BY <1>3, <1>4, <2>1, <2>2, <3>2
  <2>3. CASE ~(q[1] \in columns /\ l > 0)
    <3>1. M[q[2] \div 8][q[1]] = {}
      BY <1>3, <2>1, <2>3
    <3>2. q[1] \in columns => ~(a <= q[2] /\ q[2] < a + l)
      BY <1>1, <2>1, <2>3
    <3> QED BY <1>4, <3>1, <3>2
  <2> QED BY <2>2, <2>3
<1> HIDE DEF points
<1>8. Shows([p \in 0 .. Pages - 1 |-> [c \in 0 .. DISPLAY_WIDTH - 1 |-> Paint(color, before[p][c], M[p][c])]],
            before, color, points)
  BY <1>5, <1>6, <1>7, MasksPaint
<1>9. Shows(after, before, color, points)
  BY <1>2, <1>8, Zenon
<1> QED BY <1>9 DEF points

LEMMA VerticalPaints ==
  ASSUME NEW color \in Colors, NEW before \in Pictures, NEW x \in Int, NEW y \in Int, NEW length \in Nat
  PROVE  Shows(VerticalLine(before, x, y, length, color), before, color, {x} \X (y .. y + length - 1))
<1> DEFINE l == ClippedLength(y, length, DISPLAY_HEIGHT)
           points == {x} \X (y .. y + length - 1)
<1>1. CASE x < 0 \/ x >= DISPLAY_WIDTH \/ l <= 0
  <2>1. points \cap Screen = {}
    <3> SUFFICES ASSUME NEW q \in Screen, q \in points PROVE FALSE
      OBVIOUS
    <3>1. q[1] = x /\ y <= q[2] /\ q[2] < y + length
      OBVIOUS
    <3>2. q[2] < Larger(y, 0) + l /\ Larger(y, 0) <= q[2]
      <4>1. q[2] \in 0 .. DISPLAY_HEIGHT - 1
        BY ScreenKnown
      <4> QED BY <3>1, <4>1, Clipped, ScreenKnown
    <3>3. l \in Int /\ Larger(y, 0) \in Nat
      BY Clipped, ScreenKnown
    <3> HIDE DEF l
    <3> QED BY <1>1, <3>1, <3>2, <3>3, ScreenKnown
  <2> QED BY <1>1, <2>1, NothingPainted DEF VerticalLine
<1>2. CASE ~(x < 0 \/ x >= DISPLAY_WIDTH \/ l <= 0)
  <2>1. l > 0
    <3>1. l \in Int
      BY Clipped, ScreenKnown
    <3> HIDE DEF l
    <3> QED BY <1>2, <3>1
  <2>2. VerticalLine(before, x, y, length, color) =
          [p \in 0 .. Pages - 1 |-> [c \in 0 .. DISPLAY_WIDTH - 1 |->
             Paint(color, before[p][c], IF c = x THEN VerticalMask(p, Larger(y, 0), l) ELSE {})]]
    BY <1>2 DEF VerticalLine, Painted
  <2>3. VerticalLine(before, x, y, length, color) =
          [p \in 0 .. Pages - 1 |-> [c \in 0 .. DISPLAY_WIDTH - 1 |->
             Paint(color, before[p][c], IF c \in {x} /\ l > 0 THEN VerticalMask(p, Larger(y, 0), l) ELSE {})]]
    BY <2>1, <2>2
  <2> QED BY <2>3, ColumnsPaint
<1> QED BY <1>1, <1>2

LEMMA RectangleFilled ==
  ASSUME NEW color \in Colors, buffer \in Pictures, NEW x \in Int, NEW y \in Int,
         NEW width \in Nat, NEW height \in Nat, fillRect(x, y, width, height, color)
  PROVE  Shows(buffer', buffer, color, (x .. x + width - 1) \X (y .. y + height - 1))
<1> DEFINE l == ClippedLength(y, height, DISPLAY_HEIGHT)
<1>1. buffer' = [p \in 0 .. Pages - 1 |-> [c \in 0 .. DISPLAY_WIDTH - 1 |->
             Paint(color, buffer[p][c], IF c \in x .. x + width - 1 /\ l > 0 THEN VerticalMask(p, Larger(y, 0), l) ELSE {})]]
  BY DEF fillRect, Draw, Painted
<1> QED BY <1>1, ColumnsPaint

(* A rectangle is its four sides; with INVERSE, the pixels of an odd number *)
(* of them.                                                                 *)
LEMMA OddSides ==
  ASSUME NEW S
  PROVE  LET n(k) == IF k \in S THEN 1 ELSE 0
         IN  Cardinality({k \in 1 .. 4 : k \in S}) = n(1) + n(2) + n(3) + n(4)
<1> DEFINE D(m) == {k \in 1 .. m : k \in S}
           n(k) == IF k \in S THEN 1 ELSE 0
<1>1. D(0) = {} /\ IsFiniteSet(D(0)) /\ Cardinality(D(0)) = 0
  BY FS_EmptySet
<1>2. ASSUME NEW m \in 1 .. 4, IsFiniteSet(D(m - 1)), Cardinality(D(m - 1)) \in Nat
      PROVE  IsFiniteSet(D(m)) /\ Cardinality(D(m)) = Cardinality(D(m - 1)) + n(m)
  <2>1. m \notin D(m - 1)
    OBVIOUS
  <2>2. CASE m \in S
    <3>1. D(m) = D(m - 1) \cup {m}
      BY <2>2
    <3> HIDE DEF D
    <3> QED BY <1>2, <2>1, <2>2, <3>1, FS_AddElement
  <2>3. CASE m \notin S
    <3>1. D(m) = D(m - 1)
      BY <2>3
    <3> HIDE DEF D
    <3> QED BY <1>2, <2>3, <3>1
  <2> QED BY <2>2, <2>3
<1>3. IsFiniteSet(D(1)) /\ Cardinality(D(1)) = n(1)
  <2>1. 1 \in 1 .. 4 /\ 1 - 1 = 0
    OBVIOUS
  <2> HIDE DEF D
  <2> QED BY <1>1, <1>2, <2>1
<1>4. IsFiniteSet(D(2)) /\ Cardinality(D(2)) = n(1) + n(2)
  <2>1. 2 \in 1 .. 4 /\ 2 - 1 = 1
    OBVIOUS
  <2> HIDE DEF D
  <2> QED BY <1>2, <1>3, <2>1
<1>5. IsFiniteSet(D(3)) /\ Cardinality(D(3)) = n(1) + n(2) + n(3)
  <2>1. 3 \in 1 .. 4 /\ 3 - 1 = 2
    OBVIOUS
  <2> HIDE DEF D
  <2> QED BY <1>2, <1>4, <2>1
<1>6. IsFiniteSet(D(4)) /\ Cardinality(D(4)) = n(1) + n(2) + n(3) + n(4)
  <2>1. 4 \in 1 .. 4 /\ 4 - 1 = 3
    OBVIOUS
  <2> HIDE DEF D
  <2> QED BY <1>2, <1>5, <2>1
<1> QED BY <1>6

LEMMA SidesPaint ==
  ASSUME NEW color \in Colors, NEW width, NEW height, NEW x, NEW y, NEW start \in SUBSET Screen
  PROVE  LET S == Sides(x, y, width, height)
         IN  Paint(color, Paint(color, Paint(color, Paint(color, start, S[1] \cap Screen), S[2] \cap Screen),
                   S[3] \cap Screen), S[4] \cap Screen)
               = Paint(color, start, RectPixels(x, y, width, height, color) \cap Screen)
<1> DEFINE S == Sides(x, y, width, height)
           one == Paint(color, start, S[1] \cap Screen)
           two == Paint(color, one, S[2] \cap Screen)
           three == Paint(color, two, S[3] \cap Screen)
           four == Paint(color, three, S[4] \cap Screen)
           points == RectPixels(x, y, width, height, color)
           all == Paint(color, start, points \cap Screen)
           odd(q) == Cardinality({k \in 1 .. 4 : q \in S[k]}) % 2 = 1
<1>1. \A q : q \in points <=> (q \in S[1] \/ q \in S[2] \/ q \in S[3] \/ q \in S[4]) /\ (color = "INVERSE" => odd(q))
  <2>1. \A q : q \in UNION {S[k] : k \in 1 .. 4} <=> \E k \in 1 .. 4 : q \in S[k]
    OBVIOUS
  <2>2. \A q : q \in points <=> q \in UNION {S[k] : k \in 1 .. 4} /\ (color = "INVERSE" => odd(q))
    BY DEF RectPixels
  <2>3. \A q : (\E k \in 1 .. 4 : q \in S[k]) <=> q \in S[1] \/ q \in S[2] \/ q \in S[3] \/ q \in S[4]
    OBVIOUS
  <2> HIDE DEF S, points, odd
  <2> QED BY <2>1, <2>2, <2>3
<1>2. ASSUME NEW q
      PROVE  LET n(k) == IF q \in S[k] THEN 1 ELSE 0
             IN  Cardinality({k \in 1 .. 4 : q \in S[k]}) = n(1) + n(2) + n(3) + n(4)
  <2> DEFINE T == {k \in 1 .. 4 : q \in S[k]}
  <2>1. {k \in 1 .. 4 : k \in T} = T /\ \A k \in 1 .. 4 : k \in T <=> q \in S[k]
    OBVIOUS
  <2> HIDE DEF S, T
  <2>2. LET n(k) == IF k \in T THEN 1 ELSE 0 IN Cardinality(T) = n(1) + n(2) + n(3) + n(4)
    BY <2>1, OddSides
  <2>3. LET n(k) == IF q \in S[k] THEN 1 ELSE 0 IN Cardinality(T) = n(1) + n(2) + n(3) + n(4)
    BY <2>1, <2>2
  <2> QED BY <2>3 DEF T
<1> HIDE DEF S, points
<1>3. ASSUME NEW q
      PROVE  q \in four <=> q \in all
  <2>1. CASE q \notin Screen
    <3>1. q \notin start
      BY <2>1
    <3> QED BY <2>1, <3>1, PaintIs
  <2>2. CASE q \in Screen /\ color = "WHITE"
    <3>1. q \in all <=> q \in start \/ q \in points
      BY <2>2, PaintIs
    <3>2. /\ q \in one <=> q \in start \/ q \in S[1]
          /\ q \in two <=> q \in one \/ q \in S[2]
          /\ q \in three <=> q \in two \/ q \in S[3]
          /\ q \in four <=> q \in three \/ q \in S[4]
      BY <2>2, PaintIs
    <3> HIDE DEF one, two, three, four, all, odd
    <3> QED BY <1>1, <2>2, <3>1, <3>2
  <2>3. CASE q \in Screen /\ color = "BLACK"
    <3>1. q \in all <=> q \in start /\ q \notin points
      BY <2>3, PaintIs
    <3>2. /\ q \in one <=> q \in start /\ q \notin S[1]
          /\ q \in two <=> q \in one /\ q \notin S[2]
          /\ q \in three <=> q \in two /\ q \notin S[3]
          /\ q \in four <=> q \in three /\ q \notin S[4]
      BY <2>3, PaintIs
    <3> HIDE DEF one, two, three, four, all, odd
    <3> QED BY <1>1, <2>3, <3>1, <3>2
  <2>4. CASE q \in Screen /\ color = "INVERSE"
    <3>1. q \in all <=> (q \in start <=> q \notin points)
      BY <2>4, PaintIs
    <3>2. /\ q \in one <=> (q \in start <=> q \notin S[1])
          /\ q \in two <=> (q \in one <=> q \notin S[2])
          /\ q \in three <=> (q \in two <=> q \notin S[3])
          /\ q \in four <=> (q \in three <=> q \notin S[4])
      BY <2>4, PaintIs
    <3>3. q \in points <=> odd(q)
      <4>1. ~(q \in S[1] \/ q \in S[2] \/ q \in S[3] \/ q \in S[4]) => ~odd(q)
        <5> SUFFICES ASSUME ~(q \in S[1] \/ q \in S[2] \/ q \in S[3] \/ q \in S[4]) PROVE ~odd(q)
          OBVIOUS
        <5> DEFINE c == Cardinality({k \in 1 .. 4 : q \in S[k]})
        <5>1. c = 0
          <6> DEFINE n(k) == IF q \in S[k] THEN 1 ELSE 0
          <6>1. c = n(1) + n(2) + n(3) + n(4)
            BY <1>2
          <6> HIDE DEF c
          <6> QED BY <6>1
        <5> HIDE DEF c
        <5>2. c % 2 # 1
          BY <5>1
        <5> QED BY <5>2 DEF c
      <4> HIDE DEF odd
      <4> QED BY <1>1, <2>4, <4>1
    <3>4. odd(q) <=> ((q \in S[1] <=> q \in S[2]) <=> (q \in S[3] <=> q \notin S[4]))
      <4> DEFINE n(k) == IF q \in S[k] THEN 1 ELSE 0
                 c == Cardinality({k \in 1 .. 4 : q \in S[k]})
      <4>1. c = n(1) + n(2) + n(3) + n(4)
        BY <1>2
      <4> HIDE DEF c
      <4>2. c % 2 = 1 <=> ((q \in S[1] <=> q \in S[2]) <=> (q \in S[3] <=> q \notin S[4]))
        BY <4>1
      <4> QED BY <4>2 DEF c
    <3> HIDE DEF one, two, three, four, all, odd
    <3> QED BY <3>1, <3>2, <3>3, <3>4
  <2> QED BY <2>1, <2>2, <2>3, <2>4 DEF Colors
<1> HIDE DEF four, all
<1>4. four = all
  BY <1>3
<1> QED BY <1>4 DEF four, three, two, one, all, S, points

LEMMA RectangleDrawn ==
  ASSUME NEW color \in Colors, buffer \in Pictures, NEW x \in Int, NEW y \in Int,
         NEW width \in Nat, NEW height \in Nat, drawRect(x, y, width, height, color)
  PROVE  Shows(buffer', buffer, color, RectPixels(x, y, width, height, color))
<1> DEFINE S == Sides(x, y, width, height)
           top   == HorizontalLine(buffer, x, y, width, color)
           left  == VerticalLine(top, x, y, height, color)
           right == VerticalLine(left, x + width - 1, y, height, color)
           last  == HorizontalLine(right, x, y + height - 1, width, color)
<1>1. buffer' = last
  BY DEF drawRect, Draw
<1>2. Shows(top, buffer, color, S[1])
  BY HorizontalPaints DEF Sides
<1>3. Shows(left, top, color, S[2])
  <2>1. top \in Pictures
    BY <1>2 DEF Shows
  <2> HIDE DEF top
  <2> QED BY <2>1, VerticalPaints DEF Sides
<1>4. Shows(right, left, color, S[3])
  <2>1. left \in Pictures /\ x + width - 1 \in Int
    BY <1>3 DEF Shows
  <2> HIDE DEF left
  <2> QED BY <2>1, VerticalPaints DEF Sides
<1>5. Shows(last, right, color, S[4])
  <2>1. right \in Pictures /\ y + height - 1 \in Int
    BY <1>4 DEF Shows
  <2> HIDE DEF right
  <2> QED BY <2>1, HorizontalPaints DEF Sides
<1> HIDE DEF top, left, right, last
<1>6. LitIn(buffer) \in SUBSET Screen
  BY DEF LitIn
<1>7. LitIn(last) = Paint(color, Paint(color, Paint(color, Paint(color, LitIn(buffer), S[1] \cap Screen), S[2] \cap Screen),
                   S[3] \cap Screen), S[4] \cap Screen)
  BY <1>2, <1>3, <1>4, <1>5 DEF Shows
<1> HIDE DEF S
<1>8. LitIn(last) = Paint(color, LitIn(buffer), RectPixels(x, y, width, height, color) \cap Screen)
  BY <1>6, <1>7, SidesPaint DEF S
<1> QED BY <1>1, <1>5, <1>8 DEF Shows

(***************************************************************************)
(* Lines at an angle: after k steps along, c steps across leave the error   *)
(* err between 0 and dx, so the pixel is the nearest one.                   *)
(***************************************************************************)
LEMMA BresenhamIs ==
  ASSUME NEW dx \in Nat, NEW dy \in Nat
  PROVE  LET B == Bresenham(dx, dy)
         IN  /\ B \in [0 .. dx -> Int \X Int] /\ B[0] = <<0, dx \div 2>>
             /\ \A k \in 1 .. dx : B[k] = IF B[k - 1][2] < dy THEN <<B[k - 1][1] + 1, B[k - 1][2] - dy + dx>>
                                          ELSE <<B[k - 1][1], B[k - 1][2] - dy>>
<1> DEFINE D == Int \X Int
           Step(r) == IF r[2] < dy THEN <<r[1] + 1, r[2] - dy + dx>> ELSE <<r[1], r[2] - dy>>
           base == <<0, dx \div 2>>
           F == [p \in (1 .. dx) \X D |-> Step(p[2])]
           Is(f) == f = [k \in 0 .. dx |-> IF k = 0 THEN base ELSE Step(f[k - 1])]
<1>1. base \in D
  OBVIOUS
<1>2. ASSUME NEW r \in D PROVE Step(r) \in D
  OBVIOUS
<1> HIDE DEF D, Step, base
<1>3. F \in [(1 .. dx) \X D -> D]
  BY <1>2
<1>4. \A k \in 1 .. dx, r \in D : F[<<k, r>>] = Step(r)
  OBVIOUS
<1> HIDE DEF F
<1>5. PICK f : Loops(f, D, F, base, dx)
  BY <1>1, <1>3, LoopExists
<1>6. f \in [0 .. dx -> D] /\ f[0] = base /\ \A k \in 1 .. dx : f[k] = Step(f[k - 1])
  <2>1. f \in [0 .. dx -> D] /\ f[0] = base /\ \A k \in 1 .. dx : f[k] = F[<<k, f[k - 1]>>]
    BY <1>5 DEF Loops
  <2>2. \A k \in 1 .. dx : k - 1 \in 0 .. dx
    OBVIOUS
  <2> QED BY <1>4, <2>1, <2>2
<1>7. Is(f)
  <2>1. \A k \in 0 .. dx : f[k] = IF k = 0 THEN base ELSE Step(f[k - 1])
    BY <1>6
  <2>2. f = [k \in 0 .. dx |-> f[k]]
    BY <1>6
  <2> QED BY <2>1, <2>2
<1> DEFINE c == Bresenham(dx, dy)
<1>8. c = CHOOSE g : Is(g)
  BY DEF Bresenham, Step, base
<1>9. Is(c)
  BY <1>7, <1>8
<1> HIDE DEF c
<1>10. c[0] = base /\ \A k \in 1 .. dx : c[k] = Step(c[k - 1])
  BY <1>9
<1>11. \A k \in 0 .. dx : c[k] \in D
  <2> DEFINE P == {k \in 0 .. dx : c[k] \in D}
  <2>1. 0 \in P
    BY <1>1, <1>10
  <2>2. \A k \in 1 .. dx : k - 1 \in P => k \in P
    BY <1>2, <1>10
  <2> HIDE DEF P
  <2>3. 0 .. dx \subseteq P
    BY <2>1, <2>2, EveryTurn
  <2> QED BY <2>3 DEF P
<1>12. c \in [0 .. dx -> D]
  BY <1>9, <1>11
<1> QED BY <1>10, <1>12 DEF c, base, Step, D

LEMMA ErrorKnown ==
  ASSUME NEW dx \in Nat, NEW dy \in 0 .. dx, NEW n \in 0 .. dx
  PROVE  LET r == Bresenham(dx, dy)[n]
         IN  /\ r[1] \in Nat /\ r[2] \in Nat /\ (dx > 0 => r[2] < dx)
             /\ r[2] = dx \div 2 - dy * n + dx * r[1]
<1> DEFINE B == Bresenham(dx, dy)
           P == {k \in 0 .. dx : /\ B[k][1] \in Nat /\ B[k][2] \in Nat /\ (dx > 0 => B[k][2] < dx)
                                 /\ B[k][2] = dx \div 2 - dy * k + dx * B[k][1]}
<1>1. /\ B[0] = <<0, dx \div 2>>
      /\ \A k \in 1 .. dx : B[k] = IF B[k - 1][2] < dy THEN <<B[k - 1][1] + 1, B[k - 1][2] - dy + dx>>
                                   ELSE <<B[k - 1][1], B[k - 1][2] - dy>>
  <2>1. dy \in Nat
    OBVIOUS
  <2> QED BY <2>1, BresenhamIs
<1> HIDE DEF B
<1>2. 0 \in P
  <2>1. dy * 0 = 0 /\ dx * 0 = 0
    OBVIOUS
  <2> QED BY <1>1, <2>1
<1>3. ASSUME NEW k \in 1 .. dx, k - 1 \in P PROVE k \in P
  <2> DEFINE c == B[k - 1][1]
             e == B[k - 1][2]
             m == dx \div 2
  <2>1. c \in Nat /\ e \in Nat /\ e < dx /\ e = m - dy * (k - 1) + dx * c /\ m \in Nat
    BY <1>3
  <2>2. B[k] = IF e < dy THEN <<c + 1, e - dy + dx>> ELSE <<c, e - dy>>
    BY <1>1
  <2> HIDE DEF c, e, m
  <2>3. dy * k = dy * (k - 1) + dy /\ dx * (c + 1) = dx * c + dx /\ dy * k \in Int /\ dx * c \in Int
    BY <2>1
  <2>4. CASE e < dy
    BY <2>1, <2>2, <2>3, <2>4 DEF m
  <2>5. CASE ~(e < dy)
    BY <2>1, <2>2, <2>3, <2>5 DEF m
  <2> QED BY <2>4, <2>5
<1> HIDE DEF P
<1>4. 0 .. dx \subseteq P
  BY <1>2, <1>3, EveryTurn
<1>5. n \in P
  BY <1>4
<1> QED BY <1>5 DEF P, B

LEMMA StepsNearest ==
  ASSUME NEW dx \in Nat, NEW dy \in 0 .. dx, NEW n \in 0 .. dx
  PROVE  LET c == Bresenham(dx, dy)[n][1]
         IN  /\ c \in 0 .. dy
             /\ dx > 0 => -dx <= 2 * (dx * c - dy * n) /\ 2 * (dx * c - dy * n) < dx
             /\ \A t \in 0 .. dy : dx > 0 /\ -dx <= 2 * (dx * t - dy * n) /\ 2 * (dx * t - dy * n) < dx => t = c
<1> DEFINE c == Bresenham(dx, dy)[n][1]
           e == Bresenham(dx, dy)[n][2]
<1>1. c \in Nat /\ e \in Nat /\ (dx > 0 => e < dx) /\ e = dx \div 2 - dy * n + dx * c
  BY ErrorKnown
<1> HIDE DEF c, e
<1>2. dy * n \in Nat /\ dx * c \in Nat /\ dx \div 2 \in Nat /\ 2 * (dx \div 2) <= dx /\ dx <= 2 * (dx \div 2) + 1
  BY <1>1
<1>3. dx > 0 => -dx <= 2 * (dx * c - dy * n) /\ 2 * (dx * c - dy * n) < dx
  BY <1>1, <1>2
<1>4. c <= dy
  <2>1. CASE dx = 0
    <3>1. n = 0 /\ dy = 0
      BY <2>1
    <3>2. dy \in Nat
      OBVIOUS
    <3>3. Bresenham(dx, dy)[0] = <<0, dx \div 2>>
      BY <3>2, BresenhamIs
    <3> QED BY <3>1, <3>3 DEF c
  <2>2. CASE dx > 0
    <3> SUFFICES ASSUME c >= dy + 1 PROVE FALSE
      BY <1>1
    <3>1. dx * c >= dx * (dy + 1)
      BY <1>1, <2>2
    <3>2. dx * (dy + 1) = dx * dy + dx /\ dx * dy = dy * dx
      OBVIOUS
    <3>3. dy * n <= dy * dx
      OBVIOUS
    <3>4. dx * dy \in Nat /\ dy * dx \in Nat /\ dx * (dy + 1) \in Nat
      OBVIOUS
    <3> QED BY <1>2, <1>3, <2>2, <3>1, <3>2, <3>3, <3>4
  <2> QED BY <2>1, <2>2
<1>5. ASSUME NEW t \in 0 .. dy, dx > 0, -dx <= 2 * (dx * t - dy * n), 2 * (dx * t - dy * n) < dx PROVE t = c
  <2>1. dx * t \in Nat
    OBVIOUS
  <2>2. CASE t >= c + 1
    <3>1. dx * t >= dx * (c + 1) /\ dx * (c + 1) = dx * c + dx
      BY <1>1, <1>5, <2>2
    <3> QED BY <1>2, <1>3, <1>5, <2>1, <3>1
  <2>3. CASE t <= c - 1
    <3>1. dx * c >= dx * (t + 1) /\ dx * (t + 1) = dx * t + dx
      BY <1>1, <1>5, <2>3
    <3> QED BY <1>2, <1>3, <1>5, <2>1, <3>1
  <2> QED BY <1>1, <2>2, <2>3
<1>6. c \in 0 .. dy
  BY <1>1, <1>4
<1> QED BY <1>3, <1>5, <1>6 DEF c

(* The line from (a1, a2) to (b1, b2), the first coordinate along it: where *)
(* the code is, and what is nearest.                                        *)
OnLine(a1, a2, b1, b2, u, v) ==
  \E k \in 0 .. b1 - a1 :
    u = a1 + k /\ v = a2 + (IF a2 < b2 THEN 1 ELSE -1) * Bresenham(b1 - a1, Abs(b2 - a2))[k][1]

Beside(a1, a2, b1, b2, u, v) == 2 * ((b1 - a1) * (v - a2) - (b2 - a2) * (u - a1))

NearLine(a1, a2, b1, b2, u, v) ==
  /\ u \in a1 .. b1 /\ v \in Smaller(a2, b2) .. Larger(a2, b2)
  /\ \/ Abs(Beside(a1, a2, b1, b2, u, v)) < b1 - a1 \/ (u = a1 /\ v = a2)
     \/ (Abs(Beside(a1, a2, b1, b2, u, v)) = b1 - a1 /\ (Beside(a1, a2, b1, b2, u, v) < 0) = (b2 - a2 > 0))

(* drawLine, along its first coordinate: it draws exactly the points        *)
(* nearest to the line, and of two as near the one nearer to its start.     *)
THEOREM LineNearest ==
  ASSUME NEW a1 \in Int, NEW a2 \in Int, NEW b1 \in Int, NEW b2 \in Int, NEW u \in Int, NEW v \in Int,
         a1 <= b1, Abs(b2 - a2) <= b1 - a1
  PROVE  OnLine(a1, a2, b1, b2, u, v) <=> NearLine(a1, a2, b1, b2, u, v)
<1> DEFINE along == b1 - a1
           s == b2 - a2
           across == Abs(s)
           step == IF a2 < b2 THEN 1 ELSE -1
           k == u - a1
           t == IF a2 < b2 THEN v - a2 ELSE a2 - v
           off == 2 * (along * (v - a2) - s * k)
           c == Bresenham(along, across)[k][1]
<1>1. along \in Nat /\ across \in 0 .. along /\ k \in Int /\ t \in Int /\ s \in Int
      /\ s = (IF a2 < b2 THEN across ELSE -across)
  BY DEF Abs
<1>2. (\E j \in 0 .. along : u = a1 + j /\ v = a2 + step * Bresenham(along, across)[j][1])
        <=> k \in 0 .. along /\ t = c
  <2>1. ASSUME NEW j \in 0 .. along PROVE Bresenham(along, across)[j][1] \in Int
    <3> HIDE DEF along, across
    <3>1. Bresenham(along, across)[j][1] \in 0 .. across
      BY <1>1, StepsNearest
    <3> QED BY <1>1, <3>1
  <2>2. ASSUME NEW j \in 0 .. along, u = a1 + j PROVE j = k
    BY <2>2
  <2>3. k \in 0 .. along => (v = a2 + step * c <=> t = c) /\ u = a1 + k
    <3> SUFFICES ASSUME k \in 0 .. along PROVE (v = a2 + step * c <=> t = c) /\ u = a1 + k
      OBVIOUS
    <3>1. c \in Int
      BY <2>1
    <3> HIDE DEF c
    <3>2. v = a2 + step * c <=> t = c
      BY <3>1
    <3> QED BY <3>2
  <2> HIDE DEF c, along, across, step, t
  <2>4. ASSUME NEW j \in 0 .. along, u = a1 + j, v = a2 + step * Bresenham(along, across)[j][1]
        PROVE  k \in 0 .. along /\ t = c
    BY <2>2, <2>3, <2>4 DEF c
  <2>5. ASSUME k \in 0 .. along, t = c
        PROVE  \E j \in 0 .. along : u = a1 + j /\ v = a2 + step * Bresenham(along, across)[j][1]
    BY <2>3, <2>5 DEF c
  <2> QED BY <2>4, <2>5
<1>3. u \in a1 .. b1 <=> k \in 0 .. along
  OBVIOUS
<1>4. v \in Smaller(a2, b2) .. Larger(a2, b2) <=> t \in 0 .. across
  BY DEF Smaller, Larger, Abs
<1>5. off = IF a2 < b2 THEN 2 * (along * t - across * k) ELSE -(2 * (along * t - across * k))
  <2>1. CASE a2 < b2
    <3>1. v - a2 = t /\ s = across
      BY <1>1, <2>1
    <3> QED BY <2>1, <3>1
  <2>2. CASE ~(a2 < b2)
    <3>1. v - a2 = -t /\ s = -across
      BY <1>1, <2>2
    <3> HIDE DEF t, s, across, k, along
    <3>2. along * (-t) = -(along * t) /\ (-across) * k = -(across * k) /\ along * t \in Int /\ across * k \in Int
      BY <1>1
    <3>3. off = 2 * (-(along * t) - (-(across * k)))
      BY <3>1, <3>2
    <3> QED BY <2>2, <3>2, <3>3
  <2> QED BY <2>1, <2>2
<1>6. u = a1 /\ v = a2 <=> k = 0 /\ t = 0
  OBVIOUS
<1>7. along * t - across * k \in Int /\ off \in Int
  <2> HIDE DEF t, s, across, k, along
  <2>1. along * t \in Int /\ across * k \in Int
    BY <1>1
  <2> QED BY <1>5, <2>1
<1>8. (s > 0) = (a2 < b2)
  OBVIOUS
<1> HIDE DEF along, across, s, step, k, t, off, c
<1>9. ASSUME k \in 0 .. along, t \in 0 .. across
      PROVE  t = c <=> \/ Abs(off) < along \/ (k = 0 /\ t = 0)
                       \/ (Abs(off) = along /\ (off < 0) = (s > 0))
  <2>1. CASE along = 0
    <3>1. c \in 0 .. across
      BY <1>1, <1>9, StepsNearest DEF c
    <3> QED BY <1>1, <1>9, <2>1, <3>1
  <2>2. CASE along > 0
    <3> DEFINE d == along * t - across * k
    <3>1. c \in 0 .. across /\ -along <= 2 * (along * c - across * k) /\ 2 * (along * c - across * k) < along
      BY <1>1, <1>9, <2>2, StepsNearest DEF c
    <3>2. -along <= 2 * d /\ 2 * d < along => t = c
      BY <1>1, <1>9, <2>2, StepsNearest DEF c
    <3>3. t = c => -along <= 2 * d /\ 2 * d < along
      BY <3>1
    <3>4. k = 0 /\ t = 0 => d = 0
      BY <1>1
    <3>5. CASE ~(a2 < b2) /\ across = 0
      <4>1. t = 0 /\ across * k = 0 /\ along * t = 0 /\ c = 0
        BY <1>1, <1>9, <3>1, <3>5
      <4>2. off = 0
        BY <1>5, <3>5, <4>1
      <4> QED BY <2>2, <4>1, <4>2 DEF Abs
    <3>6. CASE ~(a2 < b2) /\ across # 0
      <4>1. off = -(2 * d) /\ (s > 0) = FALSE
        BY <1>5, <1>8, <3>6
      <4>2. d \in Int
        BY <1>7
      <4> HIDE DEF d
      <4>3. (-along <= 2 * d /\ 2 * d < along) <=> Abs(off) < along \/ (Abs(off) = along /\ ~(off < 0))
        BY <1>1, <2>2, <4>1, <4>2 DEF Abs
      <4> QED BY <1>1, <2>2, <3>2, <3>3, <3>4, <4>1, <4>3
    <3>7. CASE a2 < b2
      <4>1. off = 2 * d /\ (s > 0) = TRUE
        BY <1>5, <1>8, <3>7
      <4>2. d \in Int
        BY <1>7
      <4> HIDE DEF d
      <4>3. (-along <= 2 * d /\ 2 * d < along) <=> Abs(off) < along \/ (Abs(off) = along /\ off < 0)
        BY <1>1, <2>2, <4>1, <4>2 DEF Abs
      <4> QED BY <1>1, <2>2, <3>2, <3>3, <3>4, <4>1, <4>3
    <3> QED BY <3>5, <3>6, <3>7
  <2> QED BY <1>1, <2>1, <2>2
<1>10. k \in 0 .. along => c \in 0 .. across
  BY <1>1, StepsNearest DEF c
<1>11. (k \in 0 .. along /\ t = c)
        <=> /\ k \in 0 .. along /\ t \in 0 .. across
            /\ \/ Abs(off) < along \/ (k = 0 /\ t = 0)
               \/ (Abs(off) = along /\ (off < 0) = (s > 0))
  BY <1>9, <1>10
<1> QED BY <1>2, <1>3, <1>4, <1>6, <1>11 DEF along, across, s, step, off, k, OnLine, NearLine, Beside

(* Both ends and directions come down to a line along its first coordinate. *)
LEMMA RunIs ==
  ASSUME NEW x0 \in Int, NEW y0 \in Int, NEW x1 \in Int, NEW y1 \in Int
  PROVE  \E a1, a2, b1, b2 \in Int :
           /\ a1 <= b1 /\ Abs(b2 - a2) <= b1 - a1
           /\ LET steep  == Abs(y1 - y0) > Abs(x1 - x0)
                  turned == IF steep THEN <<y0, x0, y1, x1>> ELSE <<x0, y0, x1, y1>>
              IN  (IF turned[1] > turned[3] THEN <<turned[3], turned[4], turned[1], turned[2]>> ELSE turned)
                    = <<a1, a2, b1, b2>>
           /\ Abs(y1 - y0) > Abs(x1 - x0) =>
                /\ IF y0 <= y1 THEN <<x0, y0>> = <<a2, a1>> /\ <<x1, y1>> = <<b2, b1>>
                               ELSE <<x1, y1>> = <<a2, a1>> /\ <<x0, y0>> = <<b2, b1>>
                /\ Smaller(x0, x1) = Smaller(a2, b2) /\ Larger(x0, x1) = Larger(a2, b2)
                /\ Smaller(y0, y1) = a1 /\ Larger(y0, y1) = b1
           /\ ~(Abs(y1 - y0) > Abs(x1 - x0)) =>
                /\ IF x0 <= x1 THEN <<x0, y0>> = <<a1, a2>> /\ <<x1, y1>> = <<b1, b2>>
                               ELSE <<x1, y1>> = <<a1, a2>> /\ <<x0, y0>> = <<b1, b2>>
                /\ Smaller(y0, y1) = Smaller(a2, b2) /\ Larger(y0, y1) = Larger(a2, b2)
                /\ Smaller(x0, x1) = a1 /\ Larger(x0, x1) = b1
<1>1. CASE Abs(y1 - y0) > Abs(x1 - x0) /\ y0 <= y1
  <2> WITNESS y0 \in Int, x0 \in Int, y1 \in Int, x1 \in Int
  <2> QED BY <1>1 DEF Abs, Smaller, Larger
<1>2. CASE Abs(y1 - y0) > Abs(x1 - x0) /\ y0 > y1
  <2> WITNESS y1 \in Int, x1 \in Int, y0 \in Int, x0 \in Int
  <2> QED BY <1>2 DEF Abs, Smaller, Larger
<1>3. CASE ~(Abs(y1 - y0) > Abs(x1 - x0)) /\ x0 <= x1
  <2> WITNESS x0 \in Int, y0 \in Int, x1 \in Int, y1 \in Int
  <2> QED BY <1>3 DEF Abs, Smaller, Larger
<1>4. CASE ~(Abs(y1 - y0) > Abs(x1 - x0)) /\ x0 > x1
  <2> WITNESS x1 \in Int, y1 \in Int, x0 \in Int, y0 \in Int
  <2> QED BY <1>4 DEF Abs, Smaller, Larger
<1> QED BY <1>1, <1>2, <1>3, <1>4

LEMMA LineSame ==
  ASSUME NEW x0 \in Int, NEW y0 \in Int, NEW x1 \in Int, NEW y1 \in Int
  PROVE  LinePixels(x0, y0, x1, y1) = NearestPixels(x0, y0, x1, y1)
<1> DEFINE steep == Abs(y1 - y0) > Abs(x1 - x0)
           L == LinePixels(x0, y0, x1, y1)
           N == NearestPixels(x0, y0, x1, y1)
<1>1. PICK a1, a2, b1, b2 \in Int :
        /\ a1 <= b1 /\ Abs(b2 - a2) <= b1 - a1
        /\ LET turned == IF steep THEN <<y0, x0, y1, x1>> ELSE <<x0, y0, x1, y1>>
           IN  (IF turned[1] > turned[3] THEN <<turned[3], turned[4], turned[1], turned[2]>> ELSE turned)
                 = <<a1, a2, b1, b2>>
        /\ steep =>
             /\ IF y0 <= y1 THEN <<x0, y0>> = <<a2, a1>> /\ <<x1, y1>> = <<b2, b1>>
                            ELSE <<x1, y1>> = <<a2, a1>> /\ <<x0, y0>> = <<b2, b1>>
             /\ Smaller(x0, x1) = Smaller(a2, b2) /\ Larger(x0, x1) = Larger(a2, b2)
             /\ Smaller(y0, y1) = a1 /\ Larger(y0, y1) = b1
        /\ ~steep =>
             /\ IF x0 <= x1 THEN <<x0, y0>> = <<a1, a2>> /\ <<x1, y1>> = <<b1, b2>>
                            ELSE <<x1, y1>> = <<a1, a2>> /\ <<x0, y0>> = <<b1, b2>>
             /\ Smaller(y0, y1) = Smaller(a2, b2) /\ Larger(y0, y1) = Larger(a2, b2)
             /\ Smaller(x0, x1) = a1 /\ Larger(x0, x1) = b1
  BY RunIs
<1> DEFINE along == b1 - a1
           step  == IF a2 < b2 THEN 1 ELSE -1
           B     == Bresenham(along, Abs(b2 - a2))
           off(u, v) == Beside(a1, a2, b1, b2, u, v)
           Near(u, v) == NearLine(a1, a2, b1, b2, u, v)
           On(u, v) == OnLine(a1, a2, b1, b2, u, v)
<1>2. \A u, v \in Int : On(u, v) <=> Near(u, v)
  BY <1>1, LineNearest
<1>3. \A k \in 0 .. along : B[k][1] \in Int
  <2>1. along \in Nat /\ Abs(b2 - a2) \in 0 .. along
    BY <1>1 DEF Abs
  <2>2. Abs(b2 - a2) \in Nat
    BY <2>1
  <2> HIDE DEF along
  <2> QED BY <2>1, <2>2, BresenhamIs
<1>4. CASE steep
  <2>1. L = {<<a2 + step * B[k][1], a1 + k>> : k \in 0 .. along}
    BY <1>1, <1>4 DEF LinePixels, Beside
  <2>2. N = {p \in (Smaller(a2, b2) .. Larger(a2, b2)) \X (a1 .. b1) :
               \/ Abs(off(p[2], p[1])) < along \/ p = <<a2, a1>>
               \/ (Abs(off(p[2], p[1])) = along /\ (off(p[2], p[1]) < 0) = (b2 - a2 > 0))}
    <3>1. CASE y0 <= y1
      BY <1>1, <1>4, <3>1 DEF NearestPixels, Beside
    <3>2. CASE ~(y0 <= y1)
      BY <1>1, <1>4, <3>2 DEF NearestPixels, Beside
    <3> QED BY <3>1, <3>2
  <2> HIDE DEF L, N, B, along, step, off
  <2>3. \A p : p \in L <=> \E u, v \in Int : p = <<v, u>> /\ On(u, v)
    <3>1. ASSUME NEW p \in L PROVE \E u, v \in Int : p = <<v, u>> /\ On(u, v)
      <4>1. PICK k \in 0 .. along : p = <<a2 + step * B[k][1], a1 + k>>
        BY <2>1
      <4>2. a1 + k \in Int /\ a2 + step * B[k][1] \in Int
        BY <1>3 DEF step
      <4>3. On(a1 + k, a2 + step * B[k][1])
        BY DEF OnLine, B, step, along
      <4> QED BY <4>1, <4>2, <4>3
    <3>2. ASSUME NEW u \in Int, NEW v \in Int, On(u, v) PROVE <<v, u>> \in L
      BY <2>1, <3>2 DEF OnLine, B, step, along
    <3> QED BY <3>1, <3>2
  <2>4. Smaller(a2, b2) \in Int /\ Larger(a2, b2) \in Int
    BY DEF Smaller, Larger
  <2>5. \A p : p \in N <=> \E u, v \in Int : p = <<v, u>> /\ Near(u, v)
    <3>1. ASSUME NEW p \in N PROVE \E u, v \in Int : p = <<v, u>> /\ Near(u, v)
      <4>1. p = <<p[1], p[2]>> /\ p[1] \in Smaller(a2, b2) .. Larger(a2, b2) /\ p[2] \in a1 .. b1
            /\ p[1] \in Int /\ p[2] \in Int
        BY <2>2, <2>4
      <4>2. p = <<a2, a1>> => p[2] = a1 /\ p[1] = a2
        OBVIOUS
      <4>3. Near(p[2], p[1])
        BY <2>2, <4>1, <4>2 DEF NearLine, off, along
      <4> QED BY <4>1, <4>3
    <3>2. ASSUME NEW u \in Int, NEW v \in Int, Near(u, v) PROVE <<v, u>> \in N
      BY <2>2, <3>2 DEF NearLine, off, along
    <3> QED BY <3>1, <3>2
  <2> HIDE DEF On, Near
  <2> QED BY <1>2, <2>3, <2>5 DEF L, N
<1>5. CASE ~steep
  <2>1. L = {<<a1 + k, a2 + step * B[k][1]>> : k \in 0 .. along}
    BY <1>1, <1>5 DEF LinePixels, Beside
  <2>2. N = {p \in (a1 .. b1) \X (Smaller(a2, b2) .. Larger(a2, b2)) :
               \/ Abs(off(p[1], p[2])) < along \/ p = <<a1, a2>>
               \/ (Abs(off(p[1], p[2])) = along /\ (off(p[1], p[2]) < 0) = (b2 - a2 > 0))}
    <3>1. CASE x0 <= x1
      BY <1>1, <1>5, <3>1 DEF NearestPixels, Beside
    <3>2. CASE ~(x0 <= x1)
      BY <1>1, <1>5, <3>2 DEF NearestPixels, Beside
    <3> QED BY <3>1, <3>2
  <2> HIDE DEF L, N, B, along, step, off
  <2>3. \A p : p \in L <=> \E u, v \in Int : p = <<u, v>> /\ On(u, v)
    <3>1. ASSUME NEW p \in L PROVE \E u, v \in Int : p = <<u, v>> /\ On(u, v)
      <4>1. PICK k \in 0 .. along : p = <<a1 + k, a2 + step * B[k][1]>>
        BY <2>1
      <4>2. a1 + k \in Int /\ a2 + step * B[k][1] \in Int
        BY <1>3 DEF step
      <4>3. On(a1 + k, a2 + step * B[k][1])
        BY DEF OnLine, B, step, along
      <4> QED BY <4>1, <4>2, <4>3
    <3>2. ASSUME NEW u \in Int, NEW v \in Int, On(u, v) PROVE <<u, v>> \in L
      BY <2>1, <3>2 DEF OnLine, B, step, along
    <3> QED BY <3>1, <3>2
  <2>4. Smaller(a2, b2) \in Int /\ Larger(a2, b2) \in Int
    BY DEF Smaller, Larger
  <2>5. \A p : p \in N <=> \E u, v \in Int : p = <<u, v>> /\ Near(u, v)
    <3>1. ASSUME NEW p \in N PROVE \E u, v \in Int : p = <<u, v>> /\ Near(u, v)
      <4>1. p = <<p[1], p[2]>> /\ p[2] \in Smaller(a2, b2) .. Larger(a2, b2) /\ p[1] \in a1 .. b1
            /\ p[1] \in Int /\ p[2] \in Int
        BY <2>2, <2>4
      <4>2. p = <<a1, a2>> => p[1] = a1 /\ p[2] = a2
        OBVIOUS
      <4>3. Near(p[1], p[2])
        BY <2>2, <4>1, <4>2 DEF NearLine, off, along
      <4> QED BY <4>1, <4>3
    <3>2. ASSUME NEW u \in Int, NEW v \in Int, Near(u, v) PROVE <<u, v>> \in N
      BY <2>2, <3>2 DEF NearLine, off, along
    <3> QED BY <3>1, <3>2
  <2> HIDE DEF On, Near
  <2> QED BY <1>2, <2>3, <2>5 DEF L, N
<1> QED BY <1>4, <1>5

(***************************************************************************)
(* Circles: dp is a polynomial of x and y, and its sign keeps it near zero. *)
(***************************************************************************)
Round(last) ==
  LET x == last[1] + 1
      y == IF last[3] < 0 THEN last[2] ELSE last[2] - 1
  IN  <<x, y, last[3] + 2 * x + (IF last[3] < 0 THEN 3 ELSE 5 - 2 * y)>>

LEMMA RoundsAre ==
  ASSUME NEW r \in Nat
  PROVE  LET R == CircleRounds(r)
         IN  /\ R \in [0 .. r + 1 -> Int \X Int \X Int] /\ R[0] = <<0, r, 1 - r>>
             /\ \A n \in 1 .. r + 1 : R[n] = Round(R[n - 1])
<1> DEFINE D == Int \X Int \X Int
           base == <<0, r, 1 - r>>
           F == [p \in (1 .. r + 1) \X D |-> Round(p[2])]
           Is(f) == f = [n \in 0 .. r + 1 |-> IF n = 0 THEN base ELSE Round(f[n - 1])]
<1>1. base \in D
  OBVIOUS
<1>2. ASSUME NEW l \in D PROVE Round(l) \in D
  BY DEF Round
<1> HIDE DEF D, base
<1>3. F \in [(1 .. r + 1) \X D -> D]
  BY <1>2
<1>4. \A n \in 1 .. r + 1, l \in D : F[<<n, l>>] = Round(l)
  OBVIOUS
<1> HIDE DEF F
<1>5. PICK f : Loops(f, D, F, base, r + 1)
  <2>1. r + 1 \in Nat
    OBVIOUS
  <2> QED BY <1>1, <1>3, <2>1, LoopExists
<1>6. f \in [0 .. r + 1 -> D] /\ f[0] = base /\ \A n \in 1 .. r + 1 : f[n] = Round(f[n - 1])
  <2>1. f \in [0 .. r + 1 -> D] /\ f[0] = base /\ \A n \in 1 .. r + 1 : f[n] = F[<<n, f[n - 1]>>]
    BY <1>5 DEF Loops
  <2>2. \A n \in 1 .. r + 1 : n - 1 \in 0 .. r + 1
    OBVIOUS
  <2> QED BY <1>4, <2>1, <2>2
<1>7. Is(f)
  <2>1. \A n \in 0 .. r + 1 : f[n] = IF n = 0 THEN base ELSE Round(f[n - 1])
    BY <1>6
  <2>2. f = [n \in 0 .. r + 1 |-> f[n]]
    BY <1>6
  <2> QED BY <2>1, <2>2
<1> DEFINE c == CircleRounds(r)
<1>8. c = CHOOSE g : Is(g)
  BY DEF CircleRounds, Round, base
<1>9. Is(c)
  BY <1>7, <1>8
<1> HIDE DEF c
<1>10. c[0] = base /\ \A n \in 1 .. r + 1 : c[n] = Round(c[n - 1])
  BY <1>9
<1>11. \A n \in 0 .. r + 1 : c[n] \in D
  <2> DEFINE P == {n \in 0 .. r + 1 : c[n] \in D}
  <2>1. 0 \in P
    BY <1>1, <1>10
  <2>2. \A n \in 1 .. r + 1 : n - 1 \in P => n \in P
    BY <1>2, <1>10
  <2> HIDE DEF P
  <2>3. 0 .. r + 1 \subseteq P
    BY <2>1, <2>2, EveryTurn
  <2> QED BY <2>3 DEF P
<1>12. c \in [0 .. r + 1 -> D]
  BY <1>9, <1>11
<1> QED BY <1>10, <1>12 DEF c, base, D

(* What holds of <<x, y, d>> while the rounds go on.                        *)
RoundKnown(r, x, y, d) ==
  /\ x \in Nat /\ y \in Nat /\ d \in Int /\ y <= r /\ y >= x - 1
  /\ d = (x * x + y * y - r * r) + 4 * x - 3 * y + 2 * r + 1
  /\ y - x >= 2 => d <= 2 * x + 2
  /\ y - x = 1 => d <= 2 * x + 3
  /\ y = x => d <= 2 * x + 5
  /\ y = x - 1 => d <= 2 * x + 8
  /\ d >= 2 * x - 2 * y + 2 /\ (r >= 4 => d >= 2 * x - 2 * y + 5)
  /\ x = 0 => y = r /\ d = 1 - r
  /\ x = 1 /\ r >= 2 => y = r

LEMMA RoundKept ==
  ASSUME NEW r \in Nat \ {0}, NEW l, RoundKnown(r, l[1], l[2], l[3]), l[1] < l[2]
  PROVE  /\ RoundKnown(r, Round(l)[1], Round(l)[2], Round(l)[3])
         /\ Round(l)[2] \in {l[2], l[2] - 1}
         /\ Round(l)[2] # l[2] => l[3] >= 0
<1> DEFINE x == l[1]
           y == l[2]
           d == l[3]
<1>1. RoundKnown(r, x, y, d) /\ x < y
  OBVIOUS
<1>2. d < 0 => Round(l)[1] = x + 1 /\ Round(l)[2] = y /\ Round(l)[3] = d + 2 * (x + 1) + 3
  BY DEF Round
<1>3. ~(d < 0) => Round(l)[1] = x + 1 /\ Round(l)[2] = y - 1 /\ Round(l)[3] = d + 2 * (x + 1) + (5 - 2 * (y - 1))
  BY DEF Round
<1> HIDE DEF x, y, d
<1>4. /\ x \in Nat /\ y \in Nat /\ d \in Int /\ y <= r /\ y >= x - 1
      /\ d = (x * x + y * y - r * r) + 4 * x - 3 * y + 2 * r + 1
      /\ y - x >= 2 => d <= 2 * x + 2
      /\ y - x = 1 => d <= 2 * x + 3
      /\ d >= 2 * x - 2 * y + 2 /\ (r >= 4 => d >= 2 * x - 2 * y + 5)
      /\ x = 0 => y = r /\ d = 1 - r
  BY <1>1 DEF RoundKnown
<1>5. /\ (x + 1) * (x + 1) = x * x + 2 * x + 1 /\ (y - 1) * (y - 1) = y * y - 2 * y + 1
      /\ x * x \in Int /\ y * y \in Int /\ r * r \in Int
  BY <1>4
<1>6. CASE d < 0
  <2> DEFINE e == d + 2 * (x + 1) + 3
  <2>1. e = ((x + 1) * (x + 1) + y * y - r * r) + 4 * (x + 1) - 3 * y + 2 * r + 1
    BY <1>4, <1>5
  <2>2. /\ y - (x + 1) >= 2 => e <= 2 * (x + 1) + 2
        /\ y - (x + 1) = 1 => e <= 2 * (x + 1) + 3
        /\ y = x + 1 => e <= 2 * (x + 1) + 5
        /\ y >= (x + 1) - 1 /\ y # (x + 1) - 1
        /\ e >= 2 * (x + 1) - 2 * y + 2 /\ (r >= 4 => e >= 2 * (x + 1) - 2 * y + 5)
        /\ x + 1 = 1 => y = r
    BY <1>1, <1>4, <1>6
  <2>3. RoundKnown(r, x + 1, y, e)
    BY <1>4, <2>1, <2>2 DEF RoundKnown
  <2> QED BY <1>2, <1>4, <1>6, <2>3 DEF y
<1>7. CASE ~(d < 0)
  <2> DEFINE e == d + 2 * (x + 1) + (5 - 2 * (y - 1))
  <2>1. e = ((x + 1) * (x + 1) + (y - 1) * (y - 1) - r * r) + 4 * (x + 1) - 3 * (y - 1) + 2 * r + 1
    BY <1>4, <1>5
  <2>2. /\ (y - 1) - (x + 1) >= 2 => e <= 2 * (x + 1) + 2
        /\ (y - 1) - (x + 1) = 1 => e <= 2 * (x + 1) + 3
        /\ y - 1 = x + 1 => e <= 2 * (x + 1) + 5
        /\ y - 1 = (x + 1) - 1 => e <= 2 * (x + 1) + 8
        /\ y - 1 >= (x + 1) - 1
        /\ e >= 2 * (x + 1) - 2 * (y - 1) + 2 /\ (r >= 4 => e >= 2 * (x + 1) - 2 * (y - 1) + 5)
        /\ ~(x + 1 = 1 /\ r >= 2) /\ y - 1 \in Nat
    BY <1>1, <1>4, <1>7
  <2>3. RoundKnown(r, x + 1, y - 1, e)
    BY <1>4, <2>1, <2>2 DEF RoundKnown
  <2> QED BY <1>3, <1>4, <1>7, <2>3 DEF y, d
<1> QED BY <1>6, <1>7

(* The octant: its rounds 1 .. N, the last of which reaches the diagonal.   *)
OctantHas(r, N, R) ==
  /\ N \in 1 .. r /\ R[0] = <<0, r, 1 - r>>
  /\ Octant(r) = {<<n, R[n][2]>> : n \in 1 .. N}
  /\ R[N][2] <= N
  /\ \A n \in 0 .. N : R[n][1] = n /\ RoundKnown(r, n, R[n][2], R[n][3])
  /\ \A n \in 1 .. N : /\ R[n][2] \in {R[n - 1][2], R[n - 1][2] - 1}
                       /\ R[n][2] # R[n - 1][2] => R[n - 1][3] >= 0

LEMMA OctantIs ==
  ASSUME NEW r \in Nat \ {0}
  PROVE  \E N, R : OctantHas(r, N, R)
<1> DEFINE R == CircleRounds(r)
           P == {n \in 0 .. r + 1 : R[n][1] = n /\ R[n][2] <= r}
           T == {n \in 0 .. r : R[n][2] <= n}
<1>1. /\ R \in [0 .. r + 1 -> Int \X Int \X Int] /\ R[0] = <<0, r, 1 - r>>
      /\ \A n \in 1 .. r + 1 : R[n] = Round(R[n - 1])
  BY RoundsAre
<1>2. Octant(r) = {<<R[n][1], R[n][2]>> : n \in {m \in 1 .. r + 1 : \A k \in 0 .. m - 1 : R[k][1] < R[k][2]}}
  BY DEF Octant
<1> HIDE DEF R
<1>3. \A n \in 0 .. r + 1 : R[n][1] \in Int /\ R[n][2] \in Int /\ R[n][3] \in Int
  BY <1>1
<1>4. 0 .. r + 1 \subseteq P
  <2>1. 0 \in P
    <3>1. R[0][1] = 0 /\ R[0][2] = r
      BY <1>1
    <3>2. 0 \in 0 .. r + 1
      OBVIOUS
    <3> QED BY <3>1, <3>2
  <2>2. ASSUME NEW n \in 1 .. r + 1, n - 1 \in P PROVE n \in P
    <3>1. n - 1 \in 0 .. r + 1
      OBVIOUS
    <3>2. R[n - 1][1] = n - 1 /\ R[n - 1][2] <= r /\ R[n - 1][2] \in Int
      BY <1>3, <2>2, <3>1
    <3>3. R[n][1] = R[n - 1][1] + 1 /\ (R[n][2] = R[n - 1][2] \/ R[n][2] = R[n - 1][2] - 1)
      <4>1. R[n] = Round(R[n - 1])
        BY <1>1
      <4> QED BY <4>1 DEF Round
    <3> QED BY <3>2, <3>3
  <2>3. r + 1 \in Nat
    OBVIOUS
  <2> HIDE DEF P
  <2> QED BY <2>1, <2>2, <2>3, EveryTurn
<1>5. r \in T
  <2>1. r \in P
    BY <1>4
  <2> QED BY <2>1
<1>6. PICK N \in T : \A n \in T : N <= n
  <2>1. T \subseteq Nat /\ T # {}
    BY <1>5
  <2> HIDE DEF T
  <2> QED BY <2>1, LeastOne
<1>7. N \in 1 .. r /\ R[N][2] <= N
  <2>1. 0 \notin T
    BY <1>1
  <2> QED BY <1>6, <2>1
<1>8. \A k \in 0 .. r + 1 : R[k][1] = k
  BY <1>4
<1>9. \A k \in 0 .. N - 1 : k < R[k][2]
  <2> TAKE k \in 0 .. N - 1
  <2>1. k \notin T /\ k \in 0 .. r
    BY <1>6, <1>7
  <2> QED BY <1>3, <2>1
<1>10. {m \in 1 .. r + 1 : \A k \in 0 .. m - 1 : R[k][1] < R[k][2]} = 1 .. N
  <2>1. ASSUME NEW m \in 1 .. N PROVE m \in 1 .. r + 1 /\ \A k \in 0 .. m - 1 : R[k][1] < R[k][2]
    BY <1>7, <1>8, <1>9
  <2>2. ASSUME NEW m \in 1 .. r + 1, \A k \in 0 .. m - 1 : R[k][1] < R[k][2] PROVE m \in 1 .. N
    <3> SUFFICES ASSUME m > N PROVE FALSE
      BY <1>7
    <3>1. N \in 0 .. m - 1 /\ N \in 0 .. r + 1 /\ R[N][1] = N
      BY <1>7, <1>8
    <3> QED BY <1>3, <1>7, <2>2, <3>1
  <2> QED BY <2>1, <2>2
<1>11. Octant(r) = {<<n, R[n][2]>> : n \in 1 .. N}
  <2>1. Octant(r) = {<<R[n][1], R[n][2]>> : n \in 1 .. N}
    BY <1>2, <1>10
  <2>2. \A n \in 1 .. N : R[n][1] = n
    BY <1>7, <1>8
  <2> QED BY <2>1, <2>2
<1>12. \A n \in 0 .. N : RoundKnown(r, n, R[n][2], R[n][3])
  <2> DEFINE Q == {n \in 0 .. N : RoundKnown(r, n, R[n][2], R[n][3])}
  <2>1. 0 \in Q
    <3>1. RoundKnown(r, 0, r, 1 - r)
      BY DEF RoundKnown
    <3> QED BY <1>1, <1>7, <3>1
  <2>2. ASSUME NEW n \in 1 .. N, n - 1 \in Q PROVE n \in Q
    <3>1. n - 1 \in 0 .. N - 1 /\ n \in 1 .. r + 1 /\ n \in 0 .. r + 1 /\ n - 1 \in 0 .. r + 1
      BY <1>7
    <3>2. R[n - 1][1] = n - 1 /\ R[n - 1][1] < R[n - 1][2] /\ RoundKnown(r, R[n - 1][1], R[n - 1][2], R[n - 1][3])
      BY <1>8, <1>9, <2>2, <3>1
    <3>3. R[n] = Round(R[n - 1]) /\ R[n][1] = n
      BY <1>1, <1>8, <3>1
    <3>4. RoundKnown(r, Round(R[n - 1])[1], Round(R[n - 1])[2], Round(R[n - 1])[3])
      BY <3>2, RoundKept
    <3> QED BY <3>3, <3>4
  <2> HIDE DEF Q
  <2>3. 0 .. N \subseteq Q
    <3>1. N \in Nat
      BY <1>7
    <3> QED BY <2>1, <2>2, <3>1, EveryTurn
  <2> QED BY <2>3 DEF Q
<1>13. ASSUME NEW n \in 1 .. N
       PROVE  R[n][2] \in {R[n - 1][2], R[n - 1][2] - 1} /\ (R[n][2] # R[n - 1][2] => R[n - 1][3] >= 0)
  <2>1. n - 1 \in 0 .. N - 1 /\ n \in 1 .. r + 1 /\ n - 1 \in 0 .. r + 1 /\ n - 1 \in 0 .. N
    BY <1>7
  <2>2. R[n - 1][1] = n - 1 /\ R[n - 1][1] < R[n - 1][2] /\ RoundKnown(r, R[n - 1][1], R[n - 1][2], R[n - 1][3])
    BY <1>8, <1>9, <1>12, <2>1
  <2>3. R[n] = Round(R[n - 1])
    BY <1>1, <2>1
  <2> QED BY <2>2, <2>3, RoundKept
<1>14. \A n \in 0 .. N : R[n][1] = n
  BY <1>7, <1>8
<1> WITNESS N, R
<1> QED BY <1>1, <1>7, <1>11, <1>12, <1>13, <1>14 DEF OctantHas

LEMMA Squares ==
  ASSUME NEW a \in Int, NEW b \in Int
  PROVE  /\ a * a \in Nat
         /\ (a + b) * (a + b) = a * a + 2 * (a * b) + b * b
         /\ a * b = b * a
         /\ (-a) * (-a) = a * a
         /\ a >= 0 /\ a <= b => a * a <= b * b
         /\ a >= 0 /\ b >= 0 /\ a * a <= b * b => a <= b
<1>1. (a + b) * (a + b) = a * a + 2 * (a * b) + b * b /\ a * b = b * a /\ (-a) * (-a) = a * a
  OBVIOUS
<1>2. a * a \in Nat
  <2>1. CASE a >= 0
    BY <2>1
  <2>2. CASE a < 0
    <3>1. -a \in Nat /\ (-a) * (-a) \in Nat
      BY <2>2
    <3> QED BY <1>1, <3>1
  <2> QED BY <2>1, <2>2
<1>3. ASSUME NEW u \in Nat, NEW v \in Nat, u <= v PROVE u * u <= v * v
  <2>1. u * u <= u * v /\ u * v <= v * v
    BY <1>3
  <2> QED BY <2>1
<1>4. ASSUME NEW u \in Nat, NEW v \in Nat, v + 1 <= u PROVE v * v < u * u
  <2>1. (v + 1) * (v + 1) <= u * u
    BY <1>3, <1>4
  <2>2. (v + 1) * (v + 1) = v * v + 2 * v + 1
    OBVIOUS
  <2>3. u * u \in Int /\ v * v \in Int
    OBVIOUS
  <2> QED BY <2>1, <2>2, <2>3
<1>5. a >= 0 /\ a <= b => a * a <= b * b
  BY <1>3
<1>6. a >= 0 /\ b >= 0 /\ a * a <= b * b => a <= b
  <2> SUFFICES ASSUME a >= 0, b >= 0, a * a <= b * b, b + 1 <= a PROVE FALSE
    OBVIOUS
  <2>1. b * b < a * a
    BY <1>4
  <2>2. a * a \in Int /\ b * b \in Int
    OBVIOUS
  <2> QED BY <2>1, <2>2
<1> QED BY <1>1, <1>2, <1>5, <1>6

(* A pixel outside and two inside of the radius.                            *)
LEMMA OnTheRing ==
  ASSUME NEW r \in Nat \ {0}, NEW x \in 1 .. r, NEW y, NEW d, RoundKnown(r, x, y, d)
  PROVE  /\ x * x + y * y <= (r + 1) * (r + 1)
         /\ x * x + y * y >= (r - 2) * (r - 2)
<1>1. /\ x \in Nat /\ y \in Nat /\ d \in Int /\ y <= r /\ y >= x - 1
      /\ d = (x * x + y * y - r * r) + 4 * x - 3 * y + 2 * r + 1
      /\ y - x >= 2 => d <= 2 * x + 2
      /\ y - x = 1 => d <= 2 * x + 3
      /\ y = x => d <= 2 * x + 5
      /\ y = x - 1 => d <= 2 * x + 8
      /\ r >= 4 => d >= 2 * x - 2 * y + 5
  BY DEF RoundKnown
<1>2. /\ x * x \in Nat /\ y * y \in Nat /\ r * r \in Nat
      /\ (r + 1) * (r + 1) = r * r + 2 * r + 1 /\ (r - 2) * (r - 2) = r * r - 4 * r + 4
  BY <1>1
<1>3. x * x + y * y <= (r + 1) * (r + 1)
  <2> DEFINE sx == x * x
             sy == y * y
             sr == r * r
  <2>1. sx \in Nat /\ sy \in Nat /\ sr \in Nat /\ d = (sx + sy - sr) + 4 * x - 3 * y + 2 * r + 1
    BY <1>1, <1>2
  <2>2. (r + 1) * (r + 1) = sr + 2 * r + 1
    BY <1>2
  <2> HIDE DEF sx, sy, sr
  <2>3. sx + sy <= sr + 2 * r + 1
    BY <1>1, <2>1
  <2> QED BY <2>2, <2>3 DEF sx, sy
<1>4. x * x + y * y >= (r - 2) * (r - 2)
  <2>1. CASE r >= 4
    <3> DEFINE sx == x * x
               sy == y * y
               sr == r * r
    <3>1. sx \in Nat /\ sy \in Nat /\ sr \in Nat /\ d = (sx + sy - sr) + 4 * x - 3 * y + 2 * r + 1
      BY <1>1, <1>2
    <3>2. (r - 2) * (r - 2) = sr - 4 * r + 4
      BY <1>2
    <3> HIDE DEF sx, sy, sr
    <3>3. sx + sy >= sr - 4 * r + 4
      BY <1>1, <2>1, <3>1
    <3> QED BY <3>2, <3>3 DEF sx, sy
  <2>2. CASE r \in {1, 2, 3}
    <3>1. (r - 2) * (r - 2) <= 1
      BY <2>2
    <3>2. x * x >= 1
      <4>1. 1 * 1 <= x * x
        BY <1>1, Squares
      <4> QED BY <4>1
    <3> QED BY <1>2, <3>1, <3>2
  <2> QED BY <2>1, <2>2
<1> QED BY <1>3, <1>4

(* drawCircle stays within a pixel outside and two inside of its radius.    *)
THEOREM CircleOnTheRing ==
  ASSUME NEW r \in Nat \ {0}, NEW o \in CircleOffsets(r)
  PROVE  /\ o[1] \in Int /\ o[2] \in Int /\ o = <<o[1], o[2]>>
         /\ o[1] * o[1] + o[2] * o[2] <= (r + 1) * (r + 1)
         /\ o[1] * o[1] + o[2] * o[2] >= (r - 2) * (r - 2)
<1>1. PICK N, R : OctantHas(r, N, R)
  BY OctantIs
<1>2. ASSUME NEW x \in Int, NEW y \in Int, o \in Mirrored(<<x, y>>)
      PROVE  /\ o[1] \in Int /\ o[2] \in Int /\ o = <<o[1], o[2]>>
             /\ o[1] * o[1] + o[2] * o[2] = x * x + y * y
  <2>1. \A a \in {1, -1}, v \in Int : a * v \in Int /\ (a * v) * (a * v) = v * v
    <3> TAKE a \in {1, -1}, v \in Int
    <3>1. CASE a = 1
      BY <3>1
    <3>2. CASE a = -1
      <4>1. a * v = -v
        BY <3>2
      <4> QED BY <4>1, Squares
    <3> QED BY <3>1, <3>2
  <2>2. x * x \in Int /\ y * y \in Int
    OBVIOUS
  <2>3. CASE o \in {<<a * x, b * y>> : a \in {1, -1}, b \in {1, -1}}
    <3>1. PICK a \in {1, -1}, b \in {1, -1} : o = <<a * x, b * y>>
      BY <2>3
    <3> QED BY <2>1, <3>1
  <2>4. CASE o \in {<<a * y, b * x>> : a \in {1, -1}, b \in {1, -1}}
    <3>1. PICK a \in {1, -1}, b \in {1, -1} : o = <<a * y, b * x>>
      BY <2>4
    <3>2. o[1] * o[1] = y * y /\ o[2] * o[2] = x * x /\ o[1] \in Int /\ o[2] \in Int
      BY <2>1, <3>1
    <3> QED BY <2>2, <3>1, <3>2
  <2> QED BY <1>2, <2>3, <2>4 DEF Mirrored
<1>3. CASE o \in Mirrored(<<r, 0>>)
  <2>1. o[1] \in Int /\ o[2] \in Int /\ o = <<o[1], o[2]>> /\ o[1] * o[1] + o[2] * o[2] = r * r + 0 * 0
    BY <1>2, <1>3
  <2>2. /\ r * r \in Nat
        /\ (r + 1) * (r + 1) = r * r + 2 * r + 1 /\ (r - 2) * (r - 2) = r * r - 4 * r + 4
    OBVIOUS
  <2> QED BY <2>1, <2>2
<1>4. CASE o \in UNION {Mirrored(p) : p \in Octant(r)}
  <2>1. PICK n \in 1 .. N : o \in Mirrored(<<n, R[n][2]>>)
    BY <1>1, <1>4 DEF OctantHas
  <2>2. n \in 1 .. r /\ n \in Int /\ RoundKnown(r, n, R[n][2], R[n][3])
    BY <1>1 DEF OctantHas
  <2>3. R[n][2] \in Int
    BY <2>2 DEF RoundKnown
  <2> QED BY <1>2, <2>1, <2>2, <2>3, OnTheRing
<1>5. o \in UNION {Mirrored(p) : p \in Octant(r)} \/ o \in Mirrored(<<r, 0>>)
  BY SMT DEF CircleOffsets
<1> QED BY <1>3, <1>4, <1>5, Zenon

LEMMA DiscIs ==
  ASSUME NEW r
  PROVE  /\ DiscOffsets(r) = (UNION {(-p[1] .. p[1] - 1) \X {p[2], -p[2]} \cup (-p[2] .. p[2] - 1) \X {p[1], -p[1]} : p \in Octant(r)})
                              \cup (-r .. r - 1) \X {0}
BY DEF DiscOffsets

LEMMA DiscWithin ==
  ASSUME NEW r \in Nat \ {0}, NEW o \in DiscOffsets(r)
  PROVE  /\ o[1] \in Int /\ o[2] \in Int /\ o = <<o[1], o[2]>>
         /\ o[1] * o[1] + o[2] * o[2] <= (r + 1) * (r + 1)
<1>1. PICK N, R : OctantHas(r, N, R)
  BY OctantIs
<1>2. ASSUME NEW x \in Nat, NEW y \in Int, o \in (-x .. x - 1) \X {y, -y}
      PROVE  /\ o[1] \in Int /\ o[2] \in Int /\ o = <<o[1], o[2]>>
             /\ o[1] * o[1] + o[2] * o[2] <= x * x + y * y
  <2>1. o = <<o[1], o[2]>> /\ o[1] \in -x .. x - 1 /\ (o[2] = y \/ o[2] = -y)
    BY <1>2
  <2>2. o[1] * o[1] <= x * x
    <3>1. CASE o[1] >= 0
      BY <2>1, <3>1, Squares
    <3>2. CASE o[1] < 0
      <4>1. -o[1] \in Nat /\ -o[1] <= x /\ (-o[1]) * (-o[1]) = o[1] * o[1]
        BY <2>1, <3>2, Squares
      <4> QED BY <4>1, Squares
    <3> QED BY <2>1, <3>1, <3>2
  <2>3. o[2] * o[2] = y * y
    BY <2>1, Squares
  <2>4. o[1] * o[1] \in Int /\ x * x \in Int /\ y * y \in Int
    BY <2>1
  <2> QED BY <2>1, <2>2, <2>3, <2>4
<1>3. CASE o \in (-r .. r - 1) \X {0}
  <2>1. o \in (-r .. r - 1) \X {0, -0}
    BY <1>3
  <2>2. o[1] \in Int /\ o[2] \in Int /\ o = <<o[1], o[2]>> /\ o[1] * o[1] + o[2] * o[2] <= r * r + 0 * 0
    BY <1>2, <2>1
  <2>3. r * r \in Nat /\ (r + 1) * (r + 1) = r * r + 2 * r + 1 /\ o[1] * o[1] + o[2] * o[2] \in Int
    BY <2>2
  <2> QED BY <2>2, <2>3
<1>4. CASE o \in UNION {(-p[1] .. p[1] - 1) \X {p[2], -p[2]} \cup (-p[2] .. p[2] - 1) \X {p[1], -p[1]} : p \in Octant(r)}
  <2>1. PICK n \in 1 .. N : LET y == R[n][2] IN o \in (-n .. n - 1) \X {y, -y} \cup (-y .. y - 1) \X {n, -n}
    BY <1>1, <1>4 DEF OctantHas
  <2>2. n \in 1 .. r /\ n \in Nat /\ n \in Int /\ RoundKnown(r, n, R[n][2], R[n][3])
    BY <1>1 DEF OctantHas
  <2>3. R[n][2] \in Nat /\ R[n][2] \in Int
    BY <2>2 DEF RoundKnown
  <2> DEFINE y == R[n][2]
  <2>4. /\ o[1] \in Int /\ o[2] \in Int /\ o = <<o[1], o[2]>>
        /\ o[1] * o[1] + o[2] * o[2] <= n * n + y * y
    <3>1. CASE o \in (-n .. n - 1) \X {y, -y}
      BY <1>2, <2>2, <2>3, <3>1
    <3>2. CASE o \in (-y .. y - 1) \X {n, -n}
      <4>1. o[1] \in Int /\ o[2] \in Int /\ o = <<o[1], o[2]>> /\ o[1] * o[1] + o[2] * o[2] <= y * y + n * n
        BY <1>2, <2>2, <2>3, <3>2
      <4>2. n * n \in Int /\ y * y \in Int
        BY <2>2, <2>3
      <4> QED BY <4>1, <4>2
    <3> QED BY <2>1, <3>1, <3>2
  <2>5. n * n + y * y <= (r + 1) * (r + 1)
    BY <2>2, OnTheRing
  <2>6. n * n + y * y \in Int /\ (r + 1) * (r + 1) \in Int /\ o[1] * o[1] + o[2] * o[2] \in Int
    BY <2>2, <2>3, <2>4
  <2> QED BY <2>4, <2>5, <2>6
<1>5. \/ o \in UNION {(-p[1] .. p[1] - 1) \X {p[2], -p[2]} \cup (-p[2] .. p[2] - 1) \X {p[1], -p[1]} : p \in Octant(r)}
      \/ o \in (-r .. r - 1) \X {0}
  BY DiscIs, Zenon
<1> QED BY <1>3, <1>4, <1>5, Zenon

(* A row of the disc, up to the pixel before the edge of the radius.        *)
DiscRow(r, w, h) == \A v \in -w .. w - 1 : <<v, h>> \in DiscOffsets(r) /\ <<v, -h>> \in DiscOffsets(r)

LEMMA RowsOfDisc ==
  ASSUME NEW r \in Nat \ {0}, NEW N, NEW R, OctantHas(r, N, R), NEW n \in 1 .. N
  PROVE  DiscRow(r, n, R[n][2]) /\ DiscRow(r, R[n][2], n)
<1> DEFINE p == <<n, R[n][2]>>
<1>1. p \in Octant(r) /\ p[1] = n /\ p[2] = R[n][2]
  BY DEF OctantHas
<1> HIDE DEF p
<1>2. (-p[1] .. p[1] - 1) \X {p[2], -p[2]} \subseteq DiscOffsets(r) /\ (-p[2] .. p[2] - 1) \X {p[1], -p[1]} \subseteq DiscOffsets(r)
  <2> DEFINE part(q) == (-q[1] .. q[1] - 1) \X {q[2], -q[2]} \cup (-q[2] .. q[2] - 1) \X {q[1], -q[1]}
  <2>1. part(p) \subseteq UNION {part(q) : q \in Octant(r)}
    BY <1>1, Zenon
  <2>2. part(p) \subseteq DiscOffsets(r)
    BY <2>1, DiscIs, Zenon
  <2> QED BY <2>2
<1> QED BY <1>1, <1>2 DEF DiscRow

(* The rows of the octant: a pixel beside the last of row x would be        *)
(* outside.                                                                 *)
LEMMA UpperRows ==
  ASSUME NEW r \in Nat \ {0}, NEW x \in 1 .. r, NEW y, NEW d, RoundKnown(r, x, y, d), NEW a \in Nat,
         (a + 1) * (a + 1) + (x + 1) * (x + 1) <= r * r
  PROVE  a <= y - 1
<1> SUFFICES ASSUME a >= y PROVE FALSE
  BY DEF RoundKnown
<1>1. /\ x \in Nat /\ y \in Nat /\ d \in Int /\ y <= r /\ y >= x - 1
      /\ d = (x * x + y * y - r * r) + 4 * x - 3 * y + 2 * r + 1
      /\ r >= 4 => d >= 2 * x - 2 * y + 5
      /\ x = 1 /\ r >= 2 => y = r
  BY DEF RoundKnown
<1>2. (y + 1) * (y + 1) <= (a + 1) * (a + 1)
  BY <1>1, Squares
<1>3. (y + 1) * (y + 1) + (x + 1) * (x + 1) <= r * r
  <2>1. (y + 1) * (y + 1) \in Int /\ (a + 1) * (a + 1) \in Int /\ (x + 1) * (x + 1) \in Int /\ r * r \in Int
    BY <1>1
  <2> QED BY <1>2, <2>1
<1>4. CASE r >= 4
  <2> DEFINE sx == x * x
             sy == y * y
             sr == r * r
  <2>1. sx \in Nat /\ sy \in Nat /\ sr \in Nat /\ d = (sx + sy - sr) + 4 * x - 3 * y + 2 * r + 1
    BY <1>1, Squares
  <2>2. (sy + 2 * y + 1) + (sx + 2 * x + 1) <= sr
    <3>1. (y + 1) * (y + 1) = sy + 2 * y + 1 /\ (x + 1) * (x + 1) = sx + 2 * x + 1
      BY <1>1
    <3> QED BY <1>3, <3>1
  <2>3. sx + 2 * x <= sy + 4 * y + 3
    <3>1. (x + 1) * (x + 1) <= (y + 2) * (y + 2)
      BY <1>1, Squares
    <3>2. (y + 2) * (y + 2) = sy + 4 * y + 4 /\ (x + 1) * (x + 1) = sx + 2 * x + 1
      BY <1>1
    <3> HIDE DEF sx, sy
    <3> QED BY <1>1, <2>1, <3>1, <3>2
  <2>4. (3 * y + 4) * (3 * y + 4) = 9 * sy + 24 * y + 16 /\ (2 * r - 2) * (2 * r - 2) = 4 * sr - 8 * r + 4
    BY <1>1
  <2>5. (3 * y + 6 <= 2 * r) => (3 * y + 4) * (3 * y + 4) <= (2 * r - 2) * (2 * r - 2)
    <3>1. 3 * y + 4 \in Int /\ 2 * r - 2 \in Int /\ 3 * y + 4 >= 0
      BY <1>1
    <3>2. 3 * y + 4 <= 2 * r - 2 => (3 * y + 4) * (3 * y + 4) <= (2 * r - 2) * (2 * r - 2)
      BY <3>1, Squares
    <3>3. 3 * y + 6 <= 2 * r => 3 * y + 4 <= 2 * r - 2
      BY <1>1
    <3> QED BY <3>2, <3>3
  <2> HIDE DEF sx, sy, sr
  <2>6. 3 * y + 6 <= 2 * r
    BY <1>1, <1>4, <2>1, <2>2
  <2>7. sr - 2 * r <= 2 * sy + 3 * y - 1
    BY <1>1, <1>4, <2>1, <2>3
  <2>8. 9 * sy + 24 * y + 16 <= 4 * sr - 8 * r + 4
    BY <2>4, <2>5, <2>6
  <2> QED BY <1>1, <2>1, <2>7, <2>8
<1>5. CASE r = 1
  <2>1. (x + 1) * (x + 1) >= 4 /\ (y + 1) * (y + 1) \in Nat /\ (x + 1) * (x + 1) \in Nat
    <3>1. x = 1
      BY <1>5
    <3> QED BY <1>1, <3>1, Squares
  <2>2. r * r = 1
    BY <1>5
  <2> QED BY <1>3, <2>1, <2>2
<1>6. CASE r = 2
  <2>1. (x + 1) * (x + 1) >= 4 /\ (x + 1) * (x + 1) \in Nat
    <3>1. x \in {1, 2}
      BY <1>6
    <3> QED BY <3>1
  <2>2. r * r = 4
    BY <1>6
  <2>3. (y + 1) * (y + 1) \in Nat /\ (y + 1) * (y + 1) >= 1
    <3>1. (y + 1) * (y + 1) = y * y + 2 * y + 1 /\ y * y \in Nat
      BY <1>1, Squares
    <3> QED BY <1>1, <3>1
  <2> QED BY <1>3, <2>1, <2>2, <2>3
<1>7. CASE r = 3
  <2>1. r * r = 9 /\ x \in {1, 2, 3} /\ y \in {0, 1, 2, 3} /\ (x = 1 => y = 3)
    BY <1>1, <1>7
  <2>2. CASE x = 1
    BY <1>3, <2>1, <2>2
  <2>3. CASE x = 2
    BY <1>3, <2>1, <2>3
  <2>4. CASE x = 3
    BY <1>3, <2>1, <2>4
  <2> QED BY <2>1, <2>2, <2>3, <2>4
<1>8. r = 1 \/ r = 2 \/ r = 3 \/ r >= 4
  OBVIOUS
<1> QED BY <1>4, <1>5, <1>6, <1>7, <1>8

(* The rows between the octant and the top: y is counted down after x, so   *)
(* such a row is as long as x was then.                                     *)
LEMMA OuterRows ==
  ASSUME NEW r \in Nat \ {0}, NEW n \in 0 .. r, NEW b, NEW d, RoundKnown(r, n, b, d), d >= 0, n + 2 <= b,
         NEW a \in Nat, (a + 1) * (a + 1) + (b + 1) * (b + 1) <= r * r
  PROVE  a <= n - 1
<1> SUFFICES ASSUME a >= n PROVE FALSE
  OBVIOUS
<1>1. /\ n \in Nat /\ b \in Nat /\ d \in Int
      /\ d = (n * n + b * b - r * r) + 4 * n - 3 * b + 2 * r + 1
  BY DEF RoundKnown
<1> DEFINE sx == n * n
           sy == b * b
           sr == r * r
<1>2. sx \in Nat /\ sy \in Nat /\ sr \in Nat /\ d = (sx + sy - sr) + 4 * n - 3 * b + 2 * r + 1
  BY <1>1, Squares
<1>3. (sx + 2 * n + 1) + (sy + 2 * b + 1) <= sr
  <2>1. (n + 1) * (n + 1) <= (a + 1) * (a + 1)
    BY <1>1, Squares
  <2>2. (n + 1) * (n + 1) = sx + 2 * n + 1 /\ (b + 1) * (b + 1) = sy + 2 * b + 1 /\ (a + 1) * (a + 1) \in Int
    BY <1>1
  <2> HIDE DEF sx, sy
  <2>3. sr = r * r
    OBVIOUS
  <2> HIDE DEF sr
  <2> QED BY <1>1, <1>2, <2>1, <2>2, <2>3
<1>4. sx + 4 * n <= sy - 4
  <2>1. (n + 2) * (n + 2) <= b * b
    BY <1>1, Squares
  <2>2. (n + 2) * (n + 2) = sx + 4 * n + 4
    BY <1>1
  <2> QED BY <1>1, <2>1, <2>2
<1>5. (3 * b + 3) * (3 * b + 3) = 9 * sy + 18 * b + 9 /\ (2 * r - 2) * (2 * r - 2) = 4 * sr - 8 * r + 4
  BY <1>1
<1>6. 3 * b + 5 <= 2 * r => (3 * b + 3) * (3 * b + 3) <= (2 * r - 2) * (2 * r - 2)
  <2>1. 3 * b + 3 \in Int /\ 2 * r - 2 \in Int /\ 3 * b + 3 >= 0
    BY <1>1
  <2>2. 3 * b + 3 <= 2 * r - 2 => (3 * b + 3) * (3 * b + 3) <= (2 * r - 2) * (2 * r - 2)
    BY <2>1, Squares
  <2>3. 3 * b + 5 <= 2 * r => 3 * b + 3 <= 2 * r - 2
    BY <1>1
  <2> QED BY <2>2, <2>3
<1> HIDE DEF sx, sy, sr
<1>7. 3 * b + 5 <= 2 * r
  BY <1>1, <1>2, <1>3
<1>8. sr <= 2 * sy - 3 * b - 3 + 2 * r
  BY <1>1, <1>2, <1>4
<1>9. 9 * sy + 18 * b + 9 <= 4 * sr - 8 * r + 4
  BY <1>5, <1>6, <1>7
<1> QED BY <1>1, <1>2, <1>8, <1>9

(* A filled circle leaves no hole.                                          *)
LEMMA OneBefore ==
  ASSUME NEW n \in Nat, NEW m \in 0 .. n, m # 0
  PROVE  m \in 1 .. n /\ m - 1 \in 0 .. n /\ ~(m <= m - 1)
  OBVIOUS

(* fillCircle draws every point that is a pixel inside of its radius.       *)
THEOREM DiscFull ==
  ASSUME NEW r \in Nat \ {0}, NEW v \in Int, NEW h \in Int, NEW a \in Nat, NEW b \in Nat,
         v = a \/ v = -a, h = b \/ h = -b, (a + 1) * (a + 1) + (b + 1) * (b + 1) <= r * r
  PROVE  <<v, h>> \in DiscOffsets(r)
<1>1. PICK N, R : OctantHas(r, N, R)
  BY OctantIs
<1>2. /\ N \in 1 .. r /\ R[0] = <<0, r, 1 - r>> /\ R[N][2] <= N
      /\ \A n \in 0 .. N : R[n][1] = n /\ RoundKnown(r, n, R[n][2], R[n][3])
      /\ \A n \in 1 .. N : /\ R[n][2] \in {R[n - 1][2], R[n - 1][2] - 1}
                           /\ R[n][2] # R[n - 1][2] => R[n - 1][3] >= 0
  BY <1>1 DEF OctantHas
<1>3. \A n \in 0 .. N : R[n][2] \in Nat /\ R[n][3] \in Int
  BY <1>2 DEF RoundKnown
<1>4. a + 1 <= r /\ b + 1 <= r
  <2>1. (a + 1) * (a + 1) \in Nat /\ (b + 1) * (b + 1) \in Nat /\ r * r \in Nat
    OBVIOUS
  <2>2. (a + 1) * (a + 1) <= r * r /\ (b + 1) * (b + 1) <= r * r
    BY <2>1
  <2>3. a + 1 \in Int /\ b + 1 \in Int /\ a + 1 >= 0 /\ b + 1 >= 0 /\ r >= 0
    OBVIOUS
  <2> QED BY <2>2, <2>3, Squares
<1>5. ASSUME NEW w \in Int, DiscRow(r, w, b), a <= w - 1
      PROVE  <<v, h>> \in DiscOffsets(r)
  <2>1. v \in -w .. w - 1
    BY <1>5
  <2> QED BY <1>5, <2>1 DEF DiscRow
<1>6. CASE b = 0
  <2>1. v \in -r .. r - 1 /\ h = 0
    BY <1>4, <1>6
  <2>2. <<v, h>> \in (-r .. r - 1) \X {0}
    BY <2>1
  <2> QED BY <2>2, DiscIs, Zenon
<1>7. CASE b \in 1 .. N
  <2>1. b \in 1 .. r /\ RoundKnown(r, b, R[b][2], R[b][3]) /\ R[b][2] \in Int
    BY <1>2, <1>3, <1>7
  <2>2. a <= R[b][2] - 1
    BY <2>1, UpperRows
  <2>3. DiscRow(r, R[b][2], b)
    BY <1>1, <1>7, RowsOfDisc
  <2> QED BY <1>5, <2>1, <2>2, <2>3
<1>8. CASE b > N
  <2> DEFINE T == {m \in 0 .. N : R[m][2] < b}
  <2>1. T \subseteq Nat /\ T # {}
    <3>1. N \in T
      BY <1>2, <1>3, <1>8
    <3> QED BY <3>1
  <2>2. PICK m \in T : \A n \in T : m <= n
    <3> HIDE DEF T
    <3> QED BY <2>1, LeastOne
  <2>3. m # 0
    BY <1>2, <1>4
  <2>4. m \in 1 .. N /\ m - 1 \in 0 .. N /\ m - 1 \notin T
    <3>1. m \in 0 .. N /\ N \in Nat
      BY <1>2
    <3> HIDE DEF T
    <3>2. m \in 1 .. N /\ m - 1 \in 0 .. N /\ ~(m <= m - 1)
      BY <2>3, <3>1, OneBefore, Zenon
    <3> QED BY <2>2, <3>2
  <2> DEFINE n == m - 1
  <2>5. R[n][2] >= b /\ R[m][2] < b /\ R[m][2] \in {R[n][2], R[n][2] - 1}
    BY <1>2, <1>3, <2>2, <2>4
  <2>6. R[n][2] = b /\ R[n][3] >= 0
    <3>1. R[n][2] \in Int /\ R[m][2] \in Int
      BY <1>3, <2>4
    <3>2. R[n][2] = b /\ R[m][2] # R[n][2]
      BY <2>5, <3>1
    <3> QED BY <1>2, <2>4, <3>2
  <2>7. n # 0
    BY <1>2, <1>4, <2>6
  <2>8. n \in 1 .. N /\ n \in 0 .. r /\ n + 2 <= b /\ RoundKnown(r, n, b, R[n][3])
    BY <1>2, <1>8, <2>4, <2>6, <2>7
  <2> HIDE DEF n
  <2>9. a <= n - 1
    BY <2>6, <2>8, OuterRows
  <2>10. DiscRow(r, n, b)
    BY <1>1, <2>6, <2>8, RowsOfDisc
  <2> QED BY <1>5, <2>8, <2>9, <2>10
<1>9. b = 0 \/ b \in 1 .. N \/ b > N
  BY <1>2
<1> QED BY <1>6, <1>7, <1>8, <1>9

(* The quarters of a circle beside a point.                                 *)
QuartersBy(o) == (IF o[1] < 0 THEN {2, 4} ELSE IF o[1] > 0 THEN {1, 8} ELSE {1, 2, 4, 8})
               \cap (IF o[2] < 0 THEN {1, 2} ELSE IF o[2] > 0 THEN {4, 8} ELSE {1, 2, 4, 8})

LEMMA ZeroTurned == \E z \in Int : z = 0 /\ -z = z
<1>1. PICK z \in Int : z = 0 /\ z <= 0 /\ z >= 0
  OBVIOUS
<1>2. \A v \in Int : v <= 0 /\ v >= 0 => -v = v
  OBVIOUS
<1>3. -z = z
  <2>1. z <= 0 /\ z >= 0
    BY <1>1
  <2> QED BY <1>2, <2>1
<1> QED BY <1>1, <1>3

LEMMA MirroredIs ==
  ASSUME NEW x \in Int, NEW y \in Int
  PROVE  Mirrored(<<x, y>>) = {<<x, y>>, <<x, -y>>, <<-x, y>>, <<-x, -y>>, <<y, x>>, <<y, -x>>, <<-y, x>>, <<-y, -x>>}
<1>1. 1 * x = x /\ 1 * y = y /\ (-1) * x = -x /\ (-1) * y = -y
  OBVIOUS
<1> DEFINE A == {<<a * x, b * y>> : a \in {1, -1}, b \in {1, -1}}
           B == {<<a * y, b * x>> : a \in {1, -1}, b \in {1, -1}}
<1>2. A = {<<x, y>>, <<x, -y>>, <<-x, y>>, <<-x, -y>>}
  <2>1. \A o : o \in A <=> \E a \in {1, -1}, b \in {1, -1} : o = <<a * x, b * y>>
    OBVIOUS
  <2> HIDE DEF A
  <2>2. \A o : o \in A <=> o = <<1 * x, 1 * y>> \/ o = <<1 * x, (-1) * y>> \/ o = <<(-1) * x, 1 * y>> \/ o = <<(-1) * x, (-1) * y>>
    BY <2>1, Zenon
  <2> QED BY <1>1, <2>2
<1>3. B = {<<y, x>>, <<y, -x>>, <<-y, x>>, <<-y, -x>>}
  <2>1. \A o : o \in B <=> \E a \in {1, -1}, b \in {1, -1} : o = <<a * y, b * x>>
    OBVIOUS
  <2> HIDE DEF B
  <2>2. \A o : o \in B <=> o = <<1 * y, 1 * x>> \/ o = <<1 * y, (-1) * x>> \/ o = <<(-1) * y, 1 * x>> \/ o = <<(-1) * y, (-1) * x>>
    BY <2>1, Zenon
  <2> QED BY <1>1, <2>2
<1>4. Mirrored(<<x, y>>) = A \cup B
  BY DEF Mirrored
<1> HIDE DEF A, B
<1> QED BY <1>2, <1>3, <1>4

LEMMA OctantOfOne == Octant(1) = {<<1, 0>>}
<1> DEFINE R == CircleRounds(1)
<1>1. R[0] = <<0, 1, 0>> /\ R[1] = Round(R[0])
  <2>1. R[0] = <<0, 1, 1 - 1>> /\ \A n \in 1 .. 1 + 1 : R[n] = Round(R[n - 1])
    BY RoundsAre
  <2>2. 1 \in 1 .. 1 + 1 /\ 1 - 1 = 0
    OBVIOUS
  <2> HIDE DEF R
  <2> QED BY <2>1, <2>2
<1>2. Octant(1) = {<<R[n][1], R[n][2]>> : n \in {m \in 1 .. 1 + 1 : \A k \in 0 .. m - 1 : R[k][1] < R[k][2]}}
  BY DEF Octant
<1> HIDE DEF R
<1>3. R[1][1] = 1 /\ R[1][2] = 0
  BY <1>1 DEF Round
<1>4. {m \in 1 .. 1 + 1 : \A k \in 0 .. m - 1 : R[k][1] < R[k][2]} = {1}
  <2>1. 1 .. 1 + 1 = {1, 2}
    OBVIOUS
  <2>2. \A k \in 0 .. 1 - 1 : R[k][1] < R[k][2]
    BY <1>1
  <2>3. 1 \in 0 .. 2 - 1 /\ ~(R[1][1] < R[1][2])
    BY <1>3
  <2> QED BY <2>1, <2>2, <2>3
<1> QED BY <1>2, <1>3, <1>4

(* A pixel off the axes lies in one quarter: there InQuad has it.           *)
LEMMA QuadHas ==
  ASSUME NEW x \in Nat \ {0}, NEW y \in Nat \ {0}, NEW o
  PROVE  /\ \A quad \in {1, 2, 4, 8} : o \in InQuad(<<x, y>>, quad) => o \in Mirrored(<<x, y>>) /\ QuartersBy(o) = {quad}
         /\ o \in Mirrored(<<x, y>>) => \E quad \in {1, 2, 4, 8} : QuartersBy(o) = {quad} /\ o \in InQuad(<<x, y>>, quad)
<1>1. \A u \in Nat \ {0}, v \in Nat \ {0} :
        QuartersBy(<<u, -v>>) = {1} /\ QuartersBy(<<-u, -v>>) = {2} /\ QuartersBy(<<-u, v>>) = {4} /\ QuartersBy(<<u, v>>) = {8}
  <2> TAKE u \in Nat \ {0}, v \in Nat \ {0}
  <2>1. -u < 0 /\ ~(u < 0) /\ u > 0 /\ -v < 0 /\ ~(v < 0) /\ v > 0
    OBVIOUS
  <2> QED BY <2>1 DEF QuartersBy
<1>6. /\ QuartersBy(<<x, -y>>) = {1} /\ QuartersBy(<<-x, -y>>) = {2} /\ QuartersBy(<<-x, y>>) = {4} /\ QuartersBy(<<x, y>>) = {8}
       /\ QuartersBy(<<y, -x>>) = {1} /\ QuartersBy(<<-y, -x>>) = {2} /\ QuartersBy(<<-y, x>>) = {4} /\ QuartersBy(<<y, x>>) = {8}
  BY <1>1
<1>2. /\ InQuad(<<x, y>>, 1) = {<<x, -y>>, <<y, -x>>} /\ InQuad(<<x, y>>, 2) = {<<-y, -x>>, <<-x, -y>>}
      /\ InQuad(<<x, y>>, 4) = {<<-y, x>>, <<-x, y>>} /\ InQuad(<<x, y>>, 8) = {<<x, y>>, <<y, x>>}
  BY DEF InQuad
<1>3. Mirrored(<<x, y>>) = {<<x, y>>, <<x, -y>>, <<-x, y>>, <<-x, -y>>, <<y, x>>, <<y, -x>>, <<-y, x>>, <<-y, -x>>}
  BY MirroredIs
<1>4. ASSUME NEW quad \in {1, 2, 4, 8}, o \in InQuad(<<x, y>>, quad) PROVE o \in Mirrored(<<x, y>>) /\ QuartersBy(o) = {quad}
  <2>1. CASE quad = 1
    <3>1. o = <<x, -y>> \/ o = <<y, -x>>
      BY <1>2, <1>4, <2>1
    <3> QED BY <1>6, <1>3, <2>1, <3>1
  <2>2. CASE quad = 2
    <3>1. o = <<-y, -x>> \/ o = <<-x, -y>>
      BY <1>2, <1>4, <2>2
    <3> QED BY <1>6, <1>3, <2>2, <3>1
  <2>3. CASE quad = 4
    <3>1. o = <<-y, x>> \/ o = <<-x, y>>
      BY <1>2, <1>4, <2>3
    <3> QED BY <1>6, <1>3, <2>3, <3>1
  <2>4. CASE quad = 8
    <3>1. o = <<x, y>> \/ o = <<y, x>>
      BY <1>2, <1>4, <2>4
    <3> QED BY <1>6, <1>3, <2>4, <3>1
  <2> QED BY <2>1, <2>2, <2>3, <2>4
<1>5. ASSUME o \in Mirrored(<<x, y>>) PROVE \E quad \in {1, 2, 4, 8} : QuartersBy(o) = {quad} /\ o \in InQuad(<<x, y>>, quad)
  <2>1. CASE o \in {<<x, -y>>, <<y, -x>>}
    <3>1. QuartersBy(o) = {1} /\ o \in InQuad(<<x, y>>, 1)
      BY <1>6, <1>2, <2>1
    <3> QED BY <3>1
  <2>2. CASE o \in {<<-y, -x>>, <<-x, -y>>}
    <3>1. QuartersBy(o) = {2} /\ o \in InQuad(<<x, y>>, 2)
      BY <1>6, <1>2, <2>2
    <3> QED BY <3>1
  <2>3. CASE o \in {<<-y, x>>, <<-x, y>>}
    <3>1. QuartersBy(o) = {4} /\ o \in InQuad(<<x, y>>, 4)
      BY <1>6, <1>2, <2>3
    <3> QED BY <3>1
  <2>4. CASE o \in {<<x, y>>, <<y, x>>}
    <3>1. QuartersBy(o) = {8} /\ o \in InQuad(<<x, y>>, 8)
      BY <1>6, <1>2, <2>4
    <3> QED BY <3>1
  <2> QED BY <1>3, <1>5, <2>1, <2>2, <2>3, <2>4
<1> QED BY <1>4, <1>5

(* The pixels on the axes: the quarters beside them, and Between.           *)
LEMMA AxesHave ==
  ASSUME NEW r \in Nat \ {0}, NEW quads
  PROVE  /\ QuartersBy(<<r, 0>>) = {1, 8} /\ QuartersBy(<<-r, 0>>) = {2, 4} /\ QuartersBy(<<0, r>>) = {4, 8} /\ QuartersBy(<<0, -r>>) = {1, 2}
         /\ Mirrored(<<r, 0>>) = {<<r, 0>>, <<-r, 0>>, <<0, r>>, <<0, -r>>}
         /\ Between(quads, r) = {o \in Mirrored(<<r, 0>>) : QuartersBy(o) \subseteq quads}
<1>1. QuartersBy(<<r, 0>>) = {1, 8} /\ QuartersBy(<<-r, 0>>) = {2, 4} /\ QuartersBy(<<0, r>>) = {4, 8} /\ QuartersBy(<<0, -r>>) = {1, 2}
  <2>1. -r < 0 /\ ~(r < 0) /\ r > 0 /\ ~(0 < 0) /\ ~(0 > 0)
    OBVIOUS
  <2> QED BY <2>1 DEF QuartersBy
<1>2. Mirrored(<<r, 0>>) = {<<r, 0>>, <<-r, 0>>, <<0, r>>, <<0, -r>>}
  <2>1. PICK z \in Int : z = 0 /\ -z = z
    BY ZeroTurned
  <2>2. Mirrored(<<r, z>>) = {<<r, z>>, <<r, -z>>, <<-r, z>>, <<-r, -z>>, <<z, r>>, <<z, -r>>, <<-z, r>>, <<-z, -r>>}
    BY MirroredIs
  <2> QED BY <2>1, <2>2
<1> DEFINE part(join) == IF {join[1], join[2]} \subseteq quads THEN {join[3]} ELSE {}
           joins == {<<1, 8, <<r, 0>>>>, <<4, 8, <<0, r>>>>, <<2, 4, <<-r, 0>>>>, <<1, 2, <<0, -r>>>>}
<1>3. Between(quads, r) = UNION {part(join) : join \in joins}
  BY DEF Between
<1>4. \A o : o \in Between(quads, r) <=> \E join \in joins : o \in part(join)
  <2> HIDE DEF part, joins
  <2> QED BY <1>3, Zenon
<1>5. \A o : o \in Between(quads, r) <=>
        \/ {1, 8} \subseteq quads /\ o = <<r, 0>>
        \/ {4, 8} \subseteq quads /\ o = <<0, r>>
        \/ {2, 4} \subseteq quads /\ o = <<-r, 0>>
        \/ {1, 2} \subseteq quads /\ o = <<0, -r>>
  <2> TAKE o
  <2>1. /\ o \in part(<<1, 8, <<r, 0>>>>) <=> {1, 8} \subseteq quads /\ o = <<r, 0>>
        /\ o \in part(<<4, 8, <<0, r>>>>) <=> {4, 8} \subseteq quads /\ o = <<0, r>>
        /\ o \in part(<<2, 4, <<-r, 0>>>>) <=> {2, 4} \subseteq quads /\ o = <<-r, 0>>
        /\ o \in part(<<1, 2, <<0, -r>>>>) <=> {1, 2} \subseteq quads /\ o = <<0, -r>>
    OBVIOUS
  <2>2. (\E join \in joins : o \in part(join)) <=>
          \/ o \in part(<<1, 8, <<r, 0>>>>) \/ o \in part(<<4, 8, <<0, r>>>>)
          \/ o \in part(<<2, 4, <<-r, 0>>>>) \/ o \in part(<<1, 2, <<0, -r>>>>)
    <3> HIDE DEF part
    <3> QED BY Zenon
  <2> HIDE DEF part, joins
  <2> QED BY <1>4, <2>1, <2>2, Zenon
<1>6. \A o : o \in Mirrored(<<r, 0>>) /\ QuartersBy(o) \subseteq quads <=>
        \/ {1, 8} \subseteq quads /\ o = <<r, 0>>
        \/ {4, 8} \subseteq quads /\ o = <<0, r>>
        \/ {2, 4} \subseteq quads /\ o = <<-r, 0>>
        \/ {1, 2} \subseteq quads /\ o = <<0, -r>>
  <2> HIDE DEF Mirrored, QuartersBy
  <2> QED BY <1>1, <1>2
<1>7. \A o : o \in Between(quads, r) <=> o \in Mirrored(<<r, 0>>) /\ QuartersBy(o) \subseteq quads
  BY <1>5, <1>6, Zenon
<1> QED BY <1>1, <1>2, <1>7

(* drawCircleQuads against the quarters of the circle.                      *)
LEMMA QuartersDrawn ==
  ASSUME NEW r \in Nat \ {0}, NEW quads \in SUBSET {1, 2, 4, 8}
  PROVE  QuadOffsets(r, quads) = Quarters(r, quads)
<1> DEFINE arcs == UNION {InQuad(p, quad) : p \in Octant(r), quad \in quads}
<1>1. QuadOffsets(r, quads) = arcs \cup Between(quads, r)
  BY DEF QuadOffsets
<1>2. Quarters(r, quads) = {o \in CircleOffsets(r) : IF r = 1 THEN QuartersBy(o) \cap quads # {} ELSE QuartersBy(o) \subseteq quads}
  BY DEF Quarters, QuartersBy
<1>3. CircleOffsets(r) = (UNION {Mirrored(p) : p \in Octant(r)}) \cup Mirrored(<<r, 0>>)
  BY DEF CircleOffsets
<1>4. \A o : o \in arcs <=> \E p \in Octant(r), quad \in quads : o \in InQuad(p, quad)
  OBVIOUS
<1> HIDE DEF arcs
<1>5. CASE r = 1
  <2>1. Octant(r) = {<<r, 0>>}
    BY <1>5, OctantOfOne
  <2>2. /\ QuartersBy(<<r, 0>>) = {1, 8} /\ QuartersBy(<<-r, 0>>) = {2, 4} /\ QuartersBy(<<0, r>>) = {4, 8} /\ QuartersBy(<<0, -r>>) = {1, 2}
        /\ Mirrored(<<r, 0>>) = {<<r, 0>>, <<-r, 0>>, <<0, r>>, <<0, -r>>}
        /\ Between(quads, r) = {o \in Mirrored(<<r, 0>>) : QuartersBy(o) \subseteq quads}
    BY AxesHave
  <2>3. CircleOffsets(r) = Mirrored(<<r, 0>>)
    <3>1. UNION {Mirrored(p) : p \in {<<r, 0>>}} = Mirrored(<<r, 0>>)
      BY Zenon
    <3> QED BY <1>3, <1>5, <2>1, <3>1
  <2>4. /\ InQuad(<<r, 0>>, 1) = {<<r, 0>>, <<0, -r>>} /\ InQuad(<<r, 0>>, 2) = {<<0, -r>>, <<-r, 0>>}
        /\ InQuad(<<r, 0>>, 4) = {<<0, r>>, <<-r, 0>>} /\ InQuad(<<r, 0>>, 8) = {<<r, 0>>, <<0, r>>}
    <3>1. PICK z \in Int : z = 0 /\ -z = z
      BY ZeroTurned
    <3>3. /\ InQuad(<<r, z>>, 1) = {<<r, -z>>, <<z, -r>>} /\ InQuad(<<r, z>>, 2) = {<<-z, -r>>, <<-r, -z>>}
          /\ InQuad(<<r, z>>, 4) = {<<-z, r>>, <<-r, z>>} /\ InQuad(<<r, z>>, 8) = {<<r, z>>, <<z, r>>}
      BY DEF InQuad
    <3> QED BY <3>1, <3>3
  <2>5. \A o : o \in arcs <=> \E quad \in quads : o \in InQuad(<<r, 0>>, quad)
    BY <1>4, <2>1
  <2>6. \A o : o \in arcs <=> o \in Mirrored(<<r, 0>>) /\ QuartersBy(o) \cap quads # {}
    <3> TAKE o
    <3>1. o \in arcs <=> \/ 1 \in quads /\ o \in InQuad(<<r, 0>>, 1)
                         \/ 2 \in quads /\ o \in InQuad(<<r, 0>>, 2)
                         \/ 4 \in quads /\ o \in InQuad(<<r, 0>>, 4)
                         \/ 8 \in quads /\ o \in InQuad(<<r, 0>>, 8)
      BY <2>5
    <3>2. o \in arcs <=> \/ (1 \in quads \/ 8 \in quads) /\ o = <<r, 0>>
                         \/ (1 \in quads \/ 2 \in quads) /\ o = <<0, -r>>
                         \/ (2 \in quads \/ 4 \in quads) /\ o = <<-r, 0>>
                         \/ (4 \in quads \/ 8 \in quads) /\ o = <<0, r>>
      BY <2>4, <3>1
    <3> QED BY <2>2, <3>2
  <2>7. \A o \in Mirrored(<<r, 0>>) : QuartersBy(o) \subseteq quads => QuartersBy(o) \cap quads # {}
    BY <2>2
  <2>8. QuadOffsets(r, quads) = {o \in Mirrored(<<r, 0>>) : QuartersBy(o) \cap quads # {}}
    BY <1>1, <1>5, <2>2, <2>6, <2>7
  <2> QED BY <1>2, <1>5, <2>3, <2>8
<1>6. CASE r # 1
  <2>1. PICK N, R : OctantHas(r, N, R)
    BY OctantIs
  <2>2. \A p \in Octant(r) : p = <<p[1], p[2]>> /\ p[1] \in Nat \ {0} /\ p[2] \in Nat \ {0}
    <3> TAKE p \in Octant(r)
    <3>1. PICK n \in 1 .. N : p = <<n, R[n][2]>>
      BY <2>1 DEF OctantHas
    <3>2. n \in 1 .. r /\ RoundKnown(r, n, R[n][2], R[n][3])
      BY <2>1 DEF OctantHas
    <3>3. R[n][2] \in Nat \ {0}
      BY <1>6, <3>2 DEF RoundKnown
    <3> QED BY <3>1, <3>2, <3>3
  <2>3. \A o : o \in arcs <=> (\E p \in Octant(r) : o \in Mirrored(p)) /\ QuartersBy(o) \subseteq quads
    <3> TAKE o
    <3>1. ASSUME o \in arcs PROVE (\E p \in Octant(r) : o \in Mirrored(p)) /\ QuartersBy(o) \subseteq quads
      <4>1. PICK p \in Octant(r), quad \in quads : o \in InQuad(p, quad)
        BY <1>4, <3>1
      <4>2. o \in InQuad(<<p[1], p[2]>>, quad) /\ p[1] \in Nat \ {0} /\ p[2] \in Nat \ {0} /\ quad \in {1, 2, 4, 8}
        BY <2>2, <4>1
      <4>3. o \in Mirrored(<<p[1], p[2]>>) /\ QuartersBy(o) = {quad}
        BY <4>2, QuadHas
      <4>4. o \in Mirrored(p)
        BY <2>2, <4>3
      <4> QED BY <4>3, <4>4
    <3>2. ASSUME NEW p \in Octant(r), o \in Mirrored(p), QuartersBy(o) \subseteq quads PROVE o \in arcs
      <4>1. o \in Mirrored(<<p[1], p[2]>>) /\ p[1] \in Nat \ {0} /\ p[2] \in Nat \ {0}
        BY <2>2, <3>2
      <4>2. PICK quad \in {1, 2, 4, 8} : QuartersBy(o) = {quad} /\ o \in InQuad(<<p[1], p[2]>>, quad)
        BY <4>1, QuadHas
      <4>3. o \in InQuad(p, quad) /\ quad \in quads
        BY <2>2, <3>2, <4>2
      <4> QED BY <1>4, <4>3
    <3> QED BY <3>1, <3>2
  <2>4. Between(quads, r) = {o \in Mirrored(<<r, 0>>) : QuartersBy(o) \subseteq quads}
    BY AxesHave
  <2>5. \A o : o \in CircleOffsets(r) <=> (\E p \in Octant(r) : o \in Mirrored(p)) \/ o \in Mirrored(<<r, 0>>)
    <3>1. \A o : o \in UNION {Mirrored(p) : p \in Octant(r)} <=> \E p \in Octant(r) : o \in Mirrored(p)
      BY Zenon
    <3> QED BY <1>3, <3>1, Zenon
  <2>6. \A o : o \in QuadOffsets(r, quads) <=> o \in CircleOffsets(r) /\ QuartersBy(o) \subseteq quads
    BY <1>1, <2>3, <2>4, <2>5, Zenon
  <2>7. Quarters(r, quads) = {o \in CircleOffsets(r) : QuartersBy(o) \subseteq quads}
    BY <1>2, <1>6
  <2> QED BY <2>6, <2>7
<1> QED BY <1>5, <1>6

(***************************************************************************)
(* Images.                                                                  *)
(***************************************************************************)
(* A row of w bytes, and the place of a byte in it.                         *)
LEMMA RowAndColumn ==
  ASSUME NEW w \in Nat \ {0}, NEW a \in 0 .. w - 1, NEW v \in Nat
  PROVE  (a + v * w) % w = a /\ (a + v * w) \div w = v
<1> DEFINE i == a + v * w
           q == i \div w
           m == i % w
<1>1. i \in Int /\ v * w \in Int
  OBVIOUS
<1>2. q \in Int /\ m \in 0 .. w - 1 /\ i = w * q + m
  BY <1>1
<1>3. a + v * w = w * q + m
  BY <1>2
<1> HIDE DEF i, q, m
<1>4. CASE q = v
  <2>1. w * q = v * w
    BY <1>4
  <2> QED BY <1>1, <1>2, <1>3, <1>4, <2>1 DEF q, m, i
<1>5. CASE q <= v - 1
  <2>1. w * q <= w * (v - 1)
    BY <1>2, <1>5
  <2>2. w * (v - 1) = v * w - w /\ w * q \in Int
    BY <1>2
  <2> QED BY <1>1, <1>2, <1>3, <2>1, <2>2
<1>6. CASE q >= v + 1
  <2>1. w * q >= w * (v + 1)
    BY <1>2, <1>6
  <2>2. w * (v + 1) = v * w + w /\ w * q \in Int
    BY <1>2
  <2> QED BY <1>1, <1>2, <1>3, <2>1, <2>2
<1> QED BY <1>2, <1>4, <1>5, <1>6

LEMMA ImageKnown ==
  /\ ImageWidth \in Nat /\ ImageHeight \in Nat
  /\ \A o \in Image : /\ o = <<o[1], o[2]>> /\ o[1] \in 0 .. ImageWidth - 1 /\ o[2] \in 0 .. ImageHeight - 1
                      /\ o[1] \in Int /\ o[2] \in Int
BY DrawingAssumption

(* drawXbm finds the pixel in the row and the byte it is in.                *)
LEMMA XbmHasPixels == {p \in (0 .. ImageWidth - 1) \X (0 .. ImageHeight - 1) : XbmBit(p[1], p[2])} = Image
<1>1. ASSUME NEW u \in 0 .. ImageWidth - 1, NEW v \in 0 .. ImageHeight - 1
      PROVE  XbmBit(u, v) <=> <<u, v>> \in Image
  <2> DEFINE w == widthInXbm
             a == u \div 8
             m == u % 8
             i == a + v * w
  <2>1. ImageWidth \in Nat \ {0} /\ ImageHeight \in Nat
    BY ImageKnown
  <2>2. w \in Nat \ {0} /\ a \in 0 .. w - 1 /\ m \in 0 .. 7 /\ 8 * a + m = u /\ v \in Nat
    BY <2>1 DEF widthInXbm
  <2>3. i % w = a /\ i \div w = v
    <3> HIDE DEF w, a
    <3> QED BY <2>2, RowAndColumn
  <2>4. XbmByte(i) = {b \in 0 .. 7 : <<8 * a + b, v>> \in Image}
    <3>1. XbmByte(i) = {b \in 0 .. 7 : <<8 * (i % w) + b, i \div w>> \in Image}
      BY DEF XbmByte
    <3> HIDE DEF w, a, i
    <3> QED BY <2>3, <3>1
  <2>5. XbmBit(u, v) <=> 0 \in ShiftRight(XbmByte(i), m)
    BY DEF XbmBit
  <2> HIDE DEF w, a, m, i
  <2>6. 0 \in ShiftRight(XbmByte(i), m) <=> m \in XbmByte(i)
    <3>1. XbmByte(i) \subseteq 0 .. 7
      BY <2>4
    <3>2. 0 \in ShiftRight(XbmByte(i), m) <=> \E b \in XbmByte(i) : b - m = 0
      BY DEF ShiftRight
    <3>3. \A b \in XbmByte(i) : b - m = 0 <=> b = m
      BY <2>2, <3>1
    <3> QED BY <3>2, <3>3
  <2> QED BY <2>2, <2>4, <2>5, <2>6
<1>2. \A p \in (0 .. ImageWidth - 1) \X (0 .. ImageHeight - 1) : XbmBit(p[1], p[2]) <=> p \in Image
  BY <1>1
<1>3. Image \subseteq (0 .. ImageWidth - 1) \X (0 .. ImageHeight - 1)
  BY DrawingAssumption
<1> QED BY <1>2, <1>3

LEMMA AroundHas ==
  ASSUME NEW x0 \in Int, NEW y0 \in Int, NEW offsets, \A o \in offsets : o = <<o[1], o[2]>> /\ o[1] \in Int /\ o[2] \in Int
  PROVE  \A u \in Int, v \in Int : <<u, v>> \in Around(x0, y0, offsets) <=> <<u - x0, v - y0>> \in offsets
<1> TAKE u \in Int, v \in Int
<1>1. ASSUME <<u, v>> \in Around(x0, y0, offsets) PROVE <<u - x0, v - y0>> \in offsets
  <2>1. PICK o \in offsets : <<u, v>> = <<x0 + o[1], y0 + o[2]>>
    BY <1>1 DEF Around
  <2>2. u = x0 + o[1] /\ v = y0 + o[2] /\ o[1] \in Int /\ o[2] \in Int
    BY <2>1
  <2>3. u - x0 = o[1] /\ v - y0 = o[2]
    BY <2>2
  <2> QED BY <2>3
<1>2. ASSUME <<u - x0, v - y0>> \in offsets PROVE <<u, v>> \in Around(x0, y0, offsets)
  <2> DEFINE o == <<u - x0, v - y0>>
  <2>1. x0 + o[1] = u /\ y0 + o[2] = v
    OBVIOUS
  <2>2. <<x0 + o[1], y0 + o[2]>> \in Around(x0, y0, offsets)
    <3>1. o \in offsets
      BY <1>2
    <3> HIDE DEF o
    <3> QED BY <3>1 DEF Around
  <2> QED BY <2>1, <2>2
<1> QED BY <1>1, <1>2

(* The two bytes an image byte falls on: bit b of page p is bit b - m of    *)
(* the byte on that page, or bit b + 8 - m of the byte above it.            *)
LEMMA MaskOfImage ==
  ASSUME NEW p \in Nat, NEW b \in 0 .. 7, NEW row \in Int, row = 8 * p + b, NEW c \in Int, NEW x \in Int, NEW y \in Int
  PROVE  /\ b \in ImageMask(p, c, x, y) <=> <<c - x, row - y>> \in Image /\ row \notin LostAbove(y)
         /\ ImageMask(p, c, x, y) \subseteq 0 .. 7
<1> DEFINE e == y \div 8
           m == y % 8
           column == c - x
           BitsOn(q) == IF column \in 0 .. ImageWidth - 1 /\ q - e \in 0 .. RasterHeight - 1 /\ q >= 0
                      THEN ImageByte(column, q - e) ELSE {}
<1>1. e \in Int /\ m \in 0 .. 7 /\ y = 8 * e + m /\ column \in Int
  OBVIOUS
<1>2. ImageMask(p, c, x, y) = ShiftLeft(BitsOn(p), m) \cup ShiftRight(BitsOn(p - 1), 8 - m)
  BY DEF ImageMask
<1>3. row \in LostAbove(y) <=> p = 0 /\ e <= -1 /\ b < m
  BY <1>1 DEF LostAbove
<1>4. ASSUME NEW q \in Int, NEW k \in 0 .. 7
      PROVE  /\ k \in BitsOn(q) <=> <<column, 8 * (q - e) + k>> \in Image /\ q >= 0
             /\ BitsOn(q) \subseteq 0 .. 7
  <2>1. <<column, 8 * (q - e) + k>> \in Image => column \in 0 .. ImageWidth - 1 /\ q - e \in 0 .. RasterHeight - 1
    <3> SUFFICES ASSUME <<column, 8 * (q - e) + k>> \in Image
                 PROVE  column \in 0 .. ImageWidth - 1 /\ q - e \in 0 .. RasterHeight - 1
      OBVIOUS
    <3>1. column \in 0 .. ImageWidth - 1 /\ 8 * (q - e) + k \in 0 .. ImageHeight - 1 /\ ImageHeight \in Nat
      BY ImageKnown
    <3> HIDE DEF e, column
    <3>2. q - e <= (ImageHeight - 1) \div 8 /\ q - e >= 0 /\ (ImageHeight - 1) \div 8 \in Int
      BY <1>1, <3>1
    <3> QED BY <1>1, <3>1, <3>2 DEF RasterHeight
  <2> HIDE DEF e, column
  <2> QED BY <2>1 DEF ImageByte
<1> HIDE DEF BitsOn
<1>5. b \in ShiftLeft(BitsOn(p), m) <=> b >= m /\ <<column, 8 * (p - e) + (b - m)>> \in Image
  <2> HIDE DEF e, m, column
  <2>1. p \in Int /\ BitsOn(p) \subseteq 0 .. 7
    <3>1. p \in Int /\ 0 \in 0 .. 7
      OBVIOUS
    <3> QED BY <1>4, <3>1
  <2>2. b \in ShiftLeft(BitsOn(p), m) <=> b - m \in BitsOn(p)
    BY <1>1, <2>1 DEF ShiftLeft
  <2>3. CASE b >= m
    <3>1. b - m \in 0 .. 7
      BY <1>1, <2>3
    <3>2. b - m \in BitsOn(p) <=> <<column, 8 * (p - e) + (b - m)>> \in Image /\ p >= 0
      BY <1>4, <2>1, <3>1
    <3> QED BY <2>2, <2>3, <3>2
  <2>4. CASE b < m
    BY <1>1, <2>1, <2>2, <2>4
  <2> QED BY <1>1, <2>3, <2>4
<1>6. b \in ShiftRight(BitsOn(p - 1), 8 - m) <=> b < m /\ <<column, 8 * (p - 1 - e) + (b + 8 - m)>> \in Image /\ p >= 1
  <2> HIDE DEF e, m, column
  <2>1. p - 1 \in Int /\ BitsOn(p - 1) \subseteq 0 .. 7
    <3>1. p - 1 \in Int /\ 0 \in 0 .. 7
      OBVIOUS
    <3> QED BY <1>4, <3>1
  <2>2. b \in ShiftRight(BitsOn(p - 1), 8 - m) <=> b + 8 - m \in BitsOn(p - 1)
    BY <1>1, <2>1 DEF ShiftRight
  <2>3. CASE b < m
    <3>1. b + 8 - m \in 0 .. 7
      BY <1>1, <2>3
    <3>2. b + 8 - m \in BitsOn(p - 1) <=> <<column, 8 * (p - 1 - e) + (b + 8 - m)>> \in Image /\ p - 1 >= 0
      BY <1>4, <2>1, <3>1
    <3> QED BY <2>2, <2>3, <3>2
  <2>4. CASE b >= m
    BY <1>1, <2>1, <2>2, <2>4
  <2> QED BY <1>1, <2>3, <2>4
<1>7. ImageMask(p, c, x, y) \subseteq 0 .. 7
  BY <1>2 DEF ShiftLeft, ShiftRight
<1> HIDE DEF e, m, column
<1>8. 8 * (p - e) + (b - m) = row - y /\ 8 * (p - 1 - e) + (b + 8 - m) = row - y
  BY <1>1
<1>9. b \in ImageMask(p, c, x, y) <=> <<column, row - y>> \in Image /\ (b >= m \/ p >= 1)
  BY <1>1, <1>2, <1>5, <1>6, <1>8
<1>10. CASE <<column, row - y>> \in Image
  <2>1. row - y >= 0
    BY <1>10, ImageKnown
  <2>2. ~(b >= m \/ p >= 1) <=> p = 0 /\ e <= -1 /\ b < m
    BY <1>1, <2>1
  <2> QED BY <1>3, <1>7, <1>9, <1>10, <2>2 DEF column
<1>11. CASE <<column, row - y>> \notin Image
  BY <1>7, <1>9, <1>11 DEF column
<1> QED BY <1>10, <1>11

LEMMA ImagePaints ==
  ASSUME NEW color \in Colors, buffer \in Pictures, NEW x \in Int, NEW y \in Int
  PROVE  Shows(IF y + ImageHeight < 0 \/ y > DISPLAY_HEIGHT \/ x + ImageWidth < 0 \/ x > DISPLAY_WIDTH
               THEN buffer ELSE Painted(buffer, color, LAMBDA p, c : ImageMask(p, c, x, y)),
               buffer, color, {p \in Around(x, y, Image) : p[2] \notin LostAbove(y)})
<1> DEFINE points == {p \in Around(x, y, Image) : p[2] \notin LostAbove(y)}
           off == y + ImageHeight < 0 \/ y > DISPLAY_HEIGHT \/ x + ImageWidth < 0 \/ x > DISPLAY_WIDTH
<1>1. \A u \in Int, v \in Int : <<u, v>> \in Around(x, y, Image) <=> <<u - x, v - y>> \in Image
  BY AroundHas, ImageKnown
<1>2. \A q \in Screen : q \in points <=> <<q[1] - x, q[2] - y>> \in Image /\ q[2] \notin LostAbove(y)
  <2> TAKE q \in Screen
  <2>1. q = <<q[1], q[2]>> /\ q[1] \in Int /\ q[2] \in Int
    BY ScreenKnown
  <2>2. q \in Around(x, y, Image) <=> <<q[1] - x, q[2] - y>> \in Image
    BY <1>1, <2>1
  <2> QED BY <2>2
<1> HIDE DEF points
<1>3. CASE off
  <2>1. points \cap Screen = {}
    <3> SUFFICES ASSUME NEW q \in Screen, q \in points PROVE FALSE
      OBVIOUS
    <3>1. <<q[1] - x, q[2] - y>> \in Image
      BY <1>2
    <3>2. q[1] - x \in 0 .. ImageWidth - 1 /\ q[2] - y \in 0 .. ImageHeight - 1 /\ ImageWidth \in Nat /\ ImageHeight \in Nat
      BY <3>1, ImageKnown
    <3>3. q[1] \in 0 .. DISPLAY_WIDTH - 1 /\ q[2] \in 0 .. DISPLAY_HEIGHT - 1 /\ DISPLAY_WIDTH \in Nat /\ DISPLAY_HEIGHT \in Nat
      BY ScreenKnown
    <3> QED BY <1>3, <3>2, <3>3
  <2>2. Shows(buffer, buffer, color, points)
    BY <2>1, NothingPainted
  <2> QED BY <1>3, <2>2 DEF points
<1>4. CASE ~off
  <2> DEFINE M == [p \in 0 .. Pages - 1 |-> [c \in 0 .. DISPLAY_WIDTH - 1 |-> ImageMask(p, c, x, y)]]
  <2>1. Painted(buffer, color, LAMBDA p, c : ImageMask(p, c, x, y)) =
          [p \in 0 .. Pages - 1 |-> [c \in 0 .. DISPLAY_WIDTH - 1 |-> Paint(color, buffer[p][c], M[p][c])]]
    BY DEF Painted
  <2>2. \A p \in 0 .. Pages - 1, c \in 0 .. DISPLAY_WIDTH - 1 : M[p][c] = ImageMask(p, c, x, y)
    OBVIOUS
  <2>3. \A p \in 0 .. Pages - 1, c \in 0 .. DISPLAY_WIDTH - 1 : ImageMask(p, c, x, y) \subseteq 0 .. 7
    <3> TAKE p \in 0 .. Pages - 1, c \in 0 .. DISPLAY_WIDTH - 1
    <3>1. p \in Nat /\ c \in Int /\ 0 \in 0 .. 7 /\ 8 * p + 0 \in Int
      BY ScreenKnown
    <3> QED BY <3>1, MaskOfImage
  <2>4. M \in [0 .. Pages - 1 -> [0 .. DISPLAY_WIDTH - 1 -> SUBSET Int]]
    BY <2>3
  <2> HIDE DEF M
  <2>5. \A q \in Screen : q[2] % 8 \in M[q[2] \div 8][q[1]] <=> q \in points
    <3> TAKE q \in Screen
    <3>1. /\ q[2] \div 8 \in 0 .. Pages - 1 /\ q[2] \div 8 \in Nat /\ q[2] % 8 \in 0 .. 7
          /\ 8 * (q[2] \div 8) + (q[2] % 8) = q[2] /\ q[1] \in 0 .. DISPLAY_WIDTH - 1 /\ q[1] \in Int /\ q[2] \in Int
      BY ScreenKnown
    <3> DEFINE P == q[2] \div 8
               B == q[2] % 8
    <3>2. 8 * P + B = q[2] /\ P \in 0 .. Pages - 1 /\ P \in Nat /\ B \in 0 .. 7
      BY <3>1
    <3> HIDE DEF P, B
    <3>3. B \in ImageMask(P, q[1], x, y) <=> <<q[1] - x, q[2] - y>> \in Image /\ q[2] \notin LostAbove(y)
      <4>1. \A row \in Int : row = 8 * P + B =>
              (B \in ImageMask(P, q[1], x, y) <=> <<q[1] - x, row - y>> \in Image /\ row \notin LostAbove(y))
        BY <3>1, <3>2, MaskOfImage
      <4>2. q[2] \in Int /\ q[2] = 8 * P + B
        BY <3>1, <3>2
      <4> QED BY <4>1, <4>2
    <3>4. B \in M[P][q[1]] <=> q \in points
      <4>1. M[P][q[1]] = ImageMask(P, q[1], x, y)
        BY <2>2, <3>1, <3>2
      <4>2. q \in points <=> <<q[1] - x, q[2] - y>> \in Image /\ q[2] \notin LostAbove(y)
        BY <1>2
      <4> QED BY <3>3, <4>1, <4>2
    <3> QED BY <3>4 DEF P, B
  <2>6. \A p \in 0 .. Pages - 1, c \in 0 .. DISPLAY_WIDTH - 1 : M[p][c] \subseteq 0 .. 7
    BY <2>2, <2>3
  <2>7. Shows([p \in 0 .. Pages - 1 |-> [c \in 0 .. DISPLAY_WIDTH - 1 |-> Paint(color, buffer[p][c], M[p][c])]],
              buffer, color, points)
    BY <2>4, <2>5, <2>6, MasksPaint
  <2>8. Shows(Painted(buffer, color, LAMBDA p, c : ImageMask(p, c, x, y)), buffer, color, points)
    BY <2>1, <2>7
  <2> QED BY <1>4, <2>8 DEF points
<1> QED BY <1>3, <1>4

(***************************************************************************)
(* The invariant: the buffer shows what should be lit, and after a circle   *)
(* that is what its offsets say.                                            *)
(***************************************************************************)
OffsetsOf(s) == IF s.disc THEN DiscOffsets(s.radius) ELSE CircleOffsets(s.radius)

DrawingIInv ==
  /\ DrawingTypeOK /\ PixelsAgree /\ (draws = -1 => shape = <<>>)
  /\ shape # <<>> => lit = Around(shape.x0, shape.y0, OffsetsOf(shape)) \cap Screen

LEMMA BlankShown == Blank \in Pictures /\ LitIn(Blank) = {}
<1>1. Blank \in Pictures
  BY DEF Blank, Pictures, Byte
<1>2. \A q \in Screen : q[2] % 8 \notin Blank[q[2] \div 8][q[1]]
  BY ScreenKnown DEF Blank
<1> QED BY <1>1, <1>2 DEF LitIn

LEMMA DrawingInitial == DrawingInit => DrawingIInv
<1> SUFFICES ASSUME DrawingInit PROVE DrawingIInv
  OBVIOUS
<1>1. buffer = Blank /\ lit = {} /\ shape = <<>> /\ draws = -1
  BY DEF DrawingInit
<1>2. -1 \in -1 .. MaxDraws
  BY DrawingAssumption
<1> QED BY <1>1, <1>2, BlankShown DEF DrawingIInv, DrawingTypeOK, PixelsAgree, Pictures

(* A call that paints the picture as the reference.                         *)
LEMMA DrawKept ==
  ASSUME DrawingIInv, NEW color \in Colors, NEW points, NEW picture,
         Draw(picture, color, points), Shows(picture, buffer, color, points)
  PROVE  DrawingIInv'
<1>1. /\ draws' \in -1 .. MaxDraws /\ draws' # -1 /\ buffer' = picture /\ shape' = <<>>
      /\ lit' = Paint(color, lit, points \cap Screen)
  BY DrawingAssumption DEF Draw
<1>2. LitIn(buffer) = lit
  BY DEF DrawingIInv, PixelsAgree
<1>3. picture \in Pictures /\ LitIn(picture) = Paint(color, LitIn(buffer), points \cap Screen)
  BY DEF Shows
<1>4. LitIn(picture) \subseteq Screen
  BY DEF LitIn
<1>5. LitIn(buffer') = lit' /\ lit' \subseteq Screen /\ buffer' \in Pictures
  BY <1>1, <1>2, <1>3, <1>4
<1> QED BY <1>1, <1>5 DEF DrawingIInv, DrawingTypeOK, PixelsAgree, Pictures

LEMMA RoundDrawn ==
  ASSUME DrawingIInv, NEW isDisc \in BOOLEAN, NEW x0 \in Xs, NEW y0 \in Ys, NEW radius \in Radii, NEW offsets, NEW color,
         offsets = (IF isDisc THEN DiscOffsets(radius) ELSE CircleOffsets(radius)),
         DrawRound(isDisc, x0, y0, radius, offsets, color)
  PROVE  DrawingIInv'
<1> DEFINE points == Around(x0, y0, offsets)
           s == [disc |-> isDisc, x0 |-> x0, y0 |-> y0, radius |-> radius]
<1>1. /\ color = "WHITE" /\ lit = {} /\ draws' \in -1 .. MaxDraws /\ draws' # -1 /\ buffer' = Dots(color, points)
      /\ lit' = LitIn(buffer') /\ shape' = s
  BY DrawingAssumption DEF DrawRound
<1>2. buffer \in Pictures /\ LitIn(buffer) = {}
  BY <1>1 DEF DrawingIInv, DrawingTypeOK, PixelsAgree, Pictures
<1>3. "WHITE" \in Colors
  BY DEF Colors
<1> HIDE DEF points
<1>4. Shows(buffer', buffer, "WHITE", points)
  BY <1>1, <1>2, <1>3, DotsPaint
<1>5. buffer' \in Pictures /\ lit' = points \cap Screen
  BY <1>1, <1>2, <1>4 DEF Shows, Paint
<1>6. s \in [disc : BOOLEAN, x0 : Xs, y0 : Ys, radius : Radii]
  OBVIOUS
<1>7. s.disc = isDisc /\ s.x0 = x0 /\ s.y0 = y0 /\ s.radius = radius
  OBVIOUS
<1> HIDE DEF s
<1>8. points = Around(s.x0, s.y0, OffsetsOf(s))
  BY <1>7 DEF points, OffsetsOf
<1>9. lit' = Around(shape'.x0, shape'.y0, OffsetsOf(shape')) \cap Screen
  BY <1>1, <1>5, <1>8
<1>10. DrawingTypeOK' /\ PixelsAgree'
  BY <1>1, <1>5, <1>6 DEF DrawingTypeOK, PixelsAgree, Pictures
<1> QED BY <1>1, <1>9, <1>10 DEF DrawingIInv

LEMMA BackdropKept ==
  ASSUME DrawingIInv, NEW lines \in Backdrops, Backdrop(lines)
  PROVE  DrawingIInv'
<1> DEFINE M == [p \in 0 .. Pages - 1 |-> [x \in 0 .. DISPLAY_WIDTH - 1 |-> {b \in 0 .. 7 : 8 * p + b \in lines}]]
           points == {q \in Screen : q[2] \in lines}
           after == [p \in 0 .. Pages - 1 |-> [x \in 0 .. DISPLAY_WIDTH - 1 |-> Paint("WHITE", Blank[p][x], M[p][x])]]
<1>1. draws = -1 /\ draws' = 0 /\ lit' = points /\ shape' = shape /\ buffer' = after
  BY DEF Backdrop, Painted
<1>2. \A p \in 0 .. Pages - 1, x \in 0 .. DISPLAY_WIDTH - 1 : M[p][x] = {b \in 0 .. 7 : 8 * p + b \in lines}
  OBVIOUS
<1>3. M \in [0 .. Pages - 1 -> [0 .. DISPLAY_WIDTH - 1 -> SUBSET Int]]
  OBVIOUS
<1> HIDE DEF M
<1>4. \A q \in Screen : q[2] % 8 \in M[q[2] \div 8][q[1]] <=> q \in points
  BY <1>2, ScreenKnown
<1>5. \A p \in 0 .. Pages - 1, x \in 0 .. DISPLAY_WIDTH - 1 : M[p][x] \subseteq 0 .. 7
  BY <1>2
<1>6. Shows(after, Blank, "WHITE", points)
  <2>1. "WHITE" \in Colors
    BY DEF Colors
  <2> HIDE DEF points
  <2> QED BY <1>3, <1>4, <1>5, <2>1, BlankShown, MasksPaint
<1> HIDE DEF after
<1>7. after \in Pictures /\ LitIn(after) = points
  BY <1>6, BlankShown DEF Shows, Paint
<1>8. shape = <<>>
  BY <1>1 DEF DrawingIInv
<1> QED BY <1>1, <1>7, <1>8, DrawingAssumption DEF DrawingIInv, DrawingTypeOK, PixelsAgree, Pictures

LEMMA DrawingKept == DrawingIInv /\ [DrawingNext]_drawVars => DrawingIInv'
<1> SUFFICES ASSUME DrawingIInv, [DrawingNext]_drawVars PROVE DrawingIInv'
  OBVIOUS
<1> DEFINE Step(x, y, c) ==
       \/ setPixel(x, y, c)
       \/ \E l \in Sizes : drawHorizontalLine(x, y, l, c) \/ drawVerticalLine(x, y, l, c)
       \/ \E w \in Sizes, h \in Sizes : fillRect(x, y, w, h, c) \/ drawRect(x, y, w, h, c)
       \/ \E x1 \in Xs, y1 \in Ys : drawLine(x, y, x1, y1, c)
       \/ \E r \in Radii : drawCircle(x, y, r, c) \/ fillCircle(x, y, r, c)
       \/ \E r \in Radii, quads \in SUBSET {1, 2, 4, 8} : drawCircleQuads(x, y, r, quads, c)
       \/ drawFastImage(x, y, c) \/ drawXbm(x, y, c)
<1>1. CASE UNCHANGED drawVars
  BY <1>1 DEF drawVars, DrawingIInv, DrawingTypeOK, PixelsAgree, LitIn, OffsetsOf
<1>2. ASSUME NEW lines \in Backdrops, Backdrop(lines) PROVE DrawingIInv'
  BY <1>2, BackdropKept
<1>3. ASSUME NEW x \in Xs, NEW y \in Ys, NEW c \in Colors, Step(x, y, c) PROVE DrawingIInv'
  <2>1. /\ x \in Int /\ y \in Int /\ Sizes \subseteq Nat /\ Radii \subseteq Nat \ {0}
        /\ Xs \subseteq Int /\ Ys \subseteq Int /\ buffer \in Pictures
    BY DrawingAssumption DEF DrawingIInv, DrawingTypeOK, Pictures
  <2>2. CASE setPixel(x, y, c)
    BY <2>1, <2>2, PixelPaints, DrawKept DEF setPixel
  <2>3. ASSUME NEW l \in Sizes, drawHorizontalLine(x, y, l, c) PROVE DrawingIInv'
    BY <2>1, <2>3, HorizontalPaints, DrawKept DEF drawHorizontalLine
  <2>4. ASSUME NEW l \in Sizes, drawVerticalLine(x, y, l, c) PROVE DrawingIInv'
    BY <2>1, <2>4, VerticalPaints, DrawKept DEF drawVerticalLine
  <2>5. ASSUME NEW w \in Sizes, NEW h \in Sizes, fillRect(x, y, w, h, c) PROVE DrawingIInv'
    <3>1. Shows(buffer', buffer, c, (x .. x + w - 1) \X (y .. y + h - 1))
      BY <2>1, <2>5, RectangleFilled
    <3>2. Draw(buffer', c, (x .. x + w - 1) \X (y .. y + h - 1))
      BY <2>5 DEF fillRect, Draw
    <3> QED BY <3>1, <3>2, DrawKept
  <2>6. ASSUME NEW w \in Sizes, NEW h \in Sizes, drawRect(x, y, w, h, c) PROVE DrawingIInv'
    <3>1. Shows(buffer', buffer, c, RectPixels(x, y, w, h, c))
      BY <2>1, <2>6, RectangleDrawn
    <3>2. Draw(buffer', c, RectPixels(x, y, w, h, c))
      BY <2>6 DEF drawRect, Draw
    <3> QED BY <3>1, <3>2, DrawKept
  <2>7. ASSUME NEW x1 \in Xs, NEW y1 \in Ys, drawLine(x, y, x1, y1, c) PROVE DrawingIInv'
    <3> DEFINE points == LinePixels(x, y, x1, y1)
    <3>1. x1 \in Int /\ y1 \in Int
      BY <2>1
    <3>2. NearestPixels(x, y, x1, y1) = points
      BY <2>1, <3>1, LineSame
    <3>3. Draw(Dots(c, points), c, points)
      BY <2>7, <3>2 DEF drawLine
    <3> HIDE DEF points
    <3>4. Shows(Dots(c, points), buffer, c, points)
      BY <2>1, DotsPaint
    <3> QED BY <3>3, <3>4, DrawKept
  <2>8. ASSUME NEW r \in Radii, drawCircle(x, y, r, c) PROVE DrawingIInv'
    <3>1. CircleOffsets(r) = (IF FALSE THEN DiscOffsets(r) ELSE CircleOffsets(r)) /\ FALSE \in BOOLEAN
      OBVIOUS
    <3> QED BY <2>8, <3>1, RoundDrawn DEF drawCircle
  <2>9. ASSUME NEW r \in Radii, fillCircle(x, y, r, c) PROVE DrawingIInv'
    <3>1. DiscOffsets(r) = (IF TRUE THEN DiscOffsets(r) ELSE CircleOffsets(r)) /\ TRUE \in BOOLEAN
      OBVIOUS
    <3> QED BY <2>9, <3>1, RoundDrawn DEF fillCircle
  <2>10. ASSUME NEW r \in Radii, NEW quads \in SUBSET {1, 2, 4, 8}, drawCircleQuads(x, y, r, quads, c) PROVE DrawingIInv'
    <3> DEFINE points == Around(x, y, QuadOffsets(r, quads))
    <3>1. QuadOffsets(r, quads) = Quarters(r, quads)
      BY <2>1, QuartersDrawn
    <3>2. Draw(Dots(c, points), c, points)
      BY <2>10, <3>1 DEF drawCircleQuads
    <3> HIDE DEF points
    <3>3. Shows(Dots(c, points), buffer, c, points)
      BY <2>1, DotsPaint
    <3> QED BY <3>2, <3>3, DrawKept
  <2>11. CASE drawFastImage(x, y, c)
    BY <2>1, <2>11, ImagePaints, DrawKept DEF drawFastImage
  <2>12. CASE drawXbm(x, y, c)
    <3> DEFINE points == Around(x, y, Image)
    <3>1. Draw(Dots(c, points), c, points)
      BY <2>12, XbmHasPixels DEF drawXbm
    <3> HIDE DEF points
    <3>2. Shows(Dots(c, points), buffer, c, points)
      BY <2>1, DotsPaint
    <3> QED BY <3>1, <3>2, DrawKept
  <2> QED BY <1>3, <2>2, <2>3, <2>4, <2>5, <2>6, <2>7, <2>8, <2>9, <2>10, <2>11, <2>12
<1> HIDE DEF Step
<1>4. ASSUME DrawingNext
      PROVE  (\E lines \in Backdrops : Backdrop(lines)) \/ \E x \in Xs, y \in Ys, c \in Colors : Step(x, y, c)
  BY <1>4 DEF DrawingNext, Step
<1> QED BY <1>1, <1>2, <1>3, <1>4

(* So the circles keep to their radius.                                     *)
LEMMA DrawingImplied == DrawingIInv => DrawingInv
<1> SUFFICES ASSUME DrawingIInv, shape # <<>>, NEW p \in Screen
             PROVE  LET r  == shape.radius
                        dx == Abs(p[1] - shape.x0)
                        dy == Abs(p[2] - shape.y0)
                        d  == dx * dx + dy * dy
                    IN  /\ p \in lit => d <= (r + 1) * (r + 1)
                        /\ p \in lit /\ ~shape.disc => d >= (r - 2) * (r - 2)
                        /\ shape.disc /\ (dx + 1) * (dx + 1) + (dy + 1) * (dy + 1) <= r * r => p \in lit
  BY DEF DrawingIInv, DrawingInv, CircleRound
<1> DEFINE r  == shape.radius
           dx == Abs(p[1] - shape.x0)
           dy == Abs(p[2] - shape.y0)
           v  == p[1] - shape.x0
           h  == p[2] - shape.y0
<1>1. r \in Nat \ {0} /\ shape.x0 \in Int /\ shape.y0 \in Int /\ shape.disc \in BOOLEAN
  BY DrawingAssumption DEF DrawingIInv, DrawingTypeOK
<1>2. p[1] \in Int /\ p[2] \in Int /\ p = <<p[1], p[2]>>
  BY ScreenKnown
<1>3. /\ v \in Int /\ h \in Int /\ dx \in Nat /\ dy \in Nat
      /\ (v = dx \/ v = -dx) /\ (h = dy \/ h = -dy)
  BY <1>1, <1>2 DEF Abs
<1>4. lit = Around(shape.x0, shape.y0, OffsetsOf(shape)) \cap Screen
  BY DEF DrawingIInv
<1>5. CASE shape.disc
  <2>1. OffsetsOf(shape) = DiscOffsets(r)
    BY <1>5 DEF OffsetsOf
  <2>2. \A o \in DiscOffsets(r) : o = <<o[1], o[2]>> /\ o[1] \in Int /\ o[2] \in Int
    BY <1>1, DiscWithin
  <2>3. p \in lit <=> <<v, h>> \in DiscOffsets(r)
    <3> HIDE DEF r
    <3>1. <<p[1], p[2]>> \in Around(shape.x0, shape.y0, DiscOffsets(r)) <=> <<v, h>> \in DiscOffsets(r)
      BY <1>1, <1>2, <2>2, AroundHas
    <3> QED BY <1>2, <1>4, <2>1, <3>1
  <2> HIDE DEF r, dx, dy, v, h
  <2>4. <<v, h>> \in DiscOffsets(r) => v * v + h * h <= (r + 1) * (r + 1)
    <3> SUFFICES ASSUME <<v, h>> \in DiscOffsets(r) PROVE v * v + h * h <= (r + 1) * (r + 1)
      OBVIOUS
    <3>1. <<v, h>>[1] * <<v, h>>[1] + <<v, h>>[2] * <<v, h>>[2] <= (r + 1) * (r + 1)
      BY <1>1, DiscWithin
    <3> QED BY <3>1
  <2>5. dx * dx = v * v /\ dy * dy = h * h
    BY <1>3, Squares
  <2>6. (dx + 1) * (dx + 1) + (dy + 1) * (dy + 1) <= r * r => <<v, h>> \in DiscOffsets(r)
    BY <1>1, <1>3, DiscFull
  <2> QED BY <1>5, <2>3, <2>4, <2>5, <2>6 DEF r, dx, dy
<1>6. CASE ~shape.disc
  <2>1. OffsetsOf(shape) = CircleOffsets(r)
    BY <1>6 DEF OffsetsOf
  <2>2. \A o \in CircleOffsets(r) : o = <<o[1], o[2]>> /\ o[1] \in Int /\ o[2] \in Int
    BY <1>1, CircleOnTheRing
  <2>3. p \in lit <=> <<v, h>> \in CircleOffsets(r)
    <3> HIDE DEF r
    <3>1. <<p[1], p[2]>> \in Around(shape.x0, shape.y0, CircleOffsets(r)) <=> <<v, h>> \in CircleOffsets(r)
      BY <1>1, <1>2, <2>2, AroundHas
    <3> QED BY <1>2, <1>4, <2>1, <3>1
  <2> HIDE DEF r, dx, dy, v, h
  <2>4. <<v, h>> \in CircleOffsets(r) => v * v + h * h <= (r + 1) * (r + 1) /\ v * v + h * h >= (r - 2) * (r - 2)
    <3> SUFFICES ASSUME <<v, h>> \in CircleOffsets(r)
                 PROVE  v * v + h * h <= (r + 1) * (r + 1) /\ v * v + h * h >= (r - 2) * (r - 2)
      OBVIOUS
    <3>1. /\ <<v, h>>[1] * <<v, h>>[1] + <<v, h>>[2] * <<v, h>>[2] <= (r + 1) * (r + 1)
          /\ <<v, h>>[1] * <<v, h>>[1] + <<v, h>>[2] * <<v, h>>[2] >= (r - 2) * (r - 2)
      BY <1>1, CircleOnTheRing
    <3> QED BY <3>1
  <2>5. dx * dx = v * v /\ dy * dy = h * h
    BY <1>3, Squares
  <2> QED BY <1>6, <2>3, <2>4, <2>5 DEF r, dx, dy
<1> QED BY <1>1, <1>5, <1>6

(***************************************************************************)
(* The drivers of the display (OLEDPanels).                                 *)
(***************************************************************************)
CellByte          == {0, 1}
Fields        == {"contrast", "other", "first", "last", "top", "bottom"}
Operations    ==
  {"DISPLAYON", "DISPLAYOFF", "INVERTDISPLAY", "NORMALDISPLAY", "SEGREMAP", "page", "low", "high", "byte",
   "SETCONTRAST", "COLUMNADDR", "PAGEADDR", "SETDISPLAYCLOCKDIV", "SETMULTIPLEX", "SETDISPLAYOFFSET",
   "CHARGEPUMP", "MEMORYMODE", "SETCOMPINS", "SETPRECHARGE", "SETSTARTLINE", "COMSCANINC", "COMSCANDEC",
   "DISPLAYALLON_RESUME", "STOPSCROLL"}
PanelOrders   == [op : Operations, n : Nat]
Transmissions == [data : {TRUE}, of : Seq(CellByte)] \cup [data : {FALSE}, of : Seq(PanelOrders)]
Controllers   ==
  [ram : [Ram -> CellByte], col : Nat, page : Nat, first : Nat, last : Nat, top : Nat, bottom : Nat,
   awaits : Seq(Fields), lit : BOOLEAN, inverted : BOOLEAN, flipped : BOOLEAN, contrast : Nat]

LEMMA PanelConstants ==
  /\ Columns \in Nat \ {0} /\ PageCount \in Nat \ {0} /\ CHUNK \in Nat \ {0} /\ NIBBLE \in Nat \ {0}
  /\ Columns <= 128 /\ PageCount <= 8
BY PanelsAssumption

LEMMA AwaitedTyped ==
  ASSUME NEW sh \in BOOLEAN, NEW op
  PROVE  Awaited(sh, op) \in Seq(Fields)
<1>1. <<>> \in Seq(Fields) /\ <<"contrast">> \in Seq(Fields) /\ <<"other">> \in Seq(Fields)
      /\ <<"first", "last">> \in Seq(Fields) /\ <<"top", "bottom">> \in Seq(Fields)
  BY DEF Fields
<1> QED BY <1>1 DEF Awaited

LEMMA ObeyTyped ==
  ASSUME NEW c \in Controllers, NEW command \in PanelOrders, NEW sh \in BOOLEAN
  PROVE  Obey(sh, c, command) \in Controllers
<1>1. /\ c.col \in Nat /\ c.awaits \in Seq(Fields) /\ command.n \in Nat
      /\ Columns \in Nat \ {0} /\ PageCount \in Nat \ {0} /\ NIBBLE \in Nat \ {0}
  BY PanelConstants DEF Controllers, PanelOrders
<1>2. CASE c.awaits # <<>>
  <2>1. Tail(c.awaits) \in Seq(Fields)
    BY <1>1, <1>2, HeadTailProperties
  <2>2. command.n % Columns \in Nat /\ command.n % PageCount \in Nat
    BY <1>1
  <2>3. TakeByte(c, command.n) \in Controllers
    BY <1>1, <2>1, <2>2 DEF TakeByte, Controllers
  <2> QED BY <1>2, <2>3 DEF Obey
<1>3. CASE c.awaits = <<>>
  <2>1. Awaited(sh, command.op) \in Seq(Fields)
    BY <1>1, AwaitedTyped
  <2>2. c.col \div NIBBLE \in Nat /\ c.col % NIBBLE \in Nat
    BY <1>1
  <2>3. (c.col \div NIBBLE) * NIBBLE + command.n \in Nat /\ (c.col % NIBBLE) + NIBBLE * command.n \in Nat
    <3>1. ASSUME NEW q \in Nat, NEW r \in Nat PROVE q * r \in Nat
      OBVIOUS
    <3>2. (c.col \div NIBBLE) * NIBBLE \in Nat /\ NIBBLE * command.n \in Nat
      BY <1>1, <2>2, <3>1
    <3>3. ASSUME NEW q \in Nat, NEW r \in Nat PROVE q + r \in Nat
      OBVIOUS
    <3> QED BY <1>1, <2>2, <3>2, <3>3, Zenon
  <2> DEFINE low == (c.col \div NIBBLE) * NIBBLE + command.n
             high == (c.col % NIBBLE) + NIBBLE * command.n
             more == Awaited(sh, command.op)
  <2>4. Obey(sh, c, command) \in
          {[c EXCEPT !.lit = TRUE], [c EXCEPT !.lit = FALSE], [c EXCEPT !.inverted = TRUE],
           [c EXCEPT !.inverted = FALSE], [c EXCEPT !.flipped = (command.n = 1)],
           [c EXCEPT !.page = command.n], [c EXCEPT !.col = low], [c EXCEPT !.col = high],
           [c EXCEPT !.col = 0], [c EXCEPT !.awaits = more]}
    BY <1>3 DEF Obey
  <2>5. low \in Nat /\ high \in Nat /\ more \in Seq(Fields)
    BY <2>1, <2>3
  <2> HIDE DEF low, high, more
  <2>6. /\ [c EXCEPT !.lit = TRUE] \in Controllers /\ [c EXCEPT !.lit = FALSE] \in Controllers
        /\ [c EXCEPT !.inverted = TRUE] \in Controllers /\ [c EXCEPT !.inverted = FALSE] \in Controllers
        /\ [c EXCEPT !.flipped = (command.n = 1)] \in Controllers
    BY DEF Controllers
  <2>7. /\ [c EXCEPT !.page = command.n] \in Controllers /\ [c EXCEPT !.col = low] \in Controllers
        /\ [c EXCEPT !.col = high] \in Controllers /\ [c EXCEPT !.col = 0] \in Controllers
        /\ [c EXCEPT !.awaits = more] \in Controllers
    BY <1>1, <2>5 DEF Controllers
  <2> QED BY <2>4, <2>6, <2>7
<1> QED BY <1>2, <1>3

LEMMA PutTyped ==
  ASSUME NEW c \in Controllers, NEW byte \in CellByte, NEW sh \in BOOLEAN
  PROVE  PutByte(sh, c, byte) \in Controllers
<1>1. /\ c.ram \in [Ram -> CellByte] /\ {c.col, c.page, c.first, c.last, c.top, c.bottom} \subseteq Nat
      /\ Columns \in Nat \ {0} /\ PageCount \in Nat \ {0}
  BY PanelConstants DEF Controllers
<1>2. [c.ram EXCEPT ![<<c.col, c.page>>] = byte] \in [Ram -> CellByte]
  BY <1>1
<1>3. (c.col + 1) % Columns \in Nat /\ (c.page + 1) % PageCount \in Nat /\ c.col + 1 \in Nat
  BY <1>1
<1> DEFINE stored == [c EXCEPT !.ram[<<c.col, c.page>>] = byte]
<1>4. /\ stored \in Controllers /\ stored.col = c.col /\ stored.page = c.page
  BY <1>2 DEF Controllers
<1>5. PutByte(sh, c, byte) \in
        {[stored EXCEPT !.col = c.col + 1], [stored EXCEPT !.col = c.col],
         [stored EXCEPT !.col = (c.col + 1) % Columns],
         [stored EXCEPT !.col = c.first, !.page = c.top],
         [stored EXCEPT !.col = c.first, !.page = (c.page + 1) % PageCount]}
  <2> HIDE DEF stored
  <2>1. PutByte(sh, c, byte) =
          IF sh THEN [stored EXCEPT !.col = IF c.col < Columns + 3 THEN @ + 1 ELSE @]
          ELSE IF c.col # c.last THEN [stored EXCEPT !.col = (@ + 1) % Columns]
          ELSE [stored EXCEPT !.col = c.first, !.page = IF c.page = c.bottom THEN c.top ELSE (@ + 1) % PageCount]
    BY DEF PutByte, stored
  <2> QED BY <1>4, <2>1
<1> HIDE DEF stored
<1> QED BY <1>1, <1>3, <1>4, <1>5 DEF Controllers

(* What a controller makes of the i-th byte or command of a packet.         *)
Took(c, packet, i) ==
  IF packet.data THEN PutByte(driver \in SH1106s, c, packet.of[i]) ELSE Obey(driver \in SH1106s, c, packet.of[i])

LEMMA TookTyped ==
  ASSUME NEW c \in Controllers, NEW packet \in Transmissions, NEW i \in 1 .. Len(packet.of)
  PROVE  Took(c, packet, i) \in Controllers
<1> DEFINE sh == driver \in SH1106s
<1>0. sh \in BOOLEAN
  OBVIOUS
<1> HIDE DEF sh
<1>1. CASE packet.data
  <2>1. packet.of \in Seq(CellByte)
    BY <1>1 DEF Transmissions
  <2>2. packet.of[i] \in CellByte
    BY <2>1, ElementOfSeq
  <2> QED BY <1>0, <1>1, <2>2, PutTyped DEF Took, sh
<1>2. CASE ~packet.data
  <2>1. packet.of \in Seq(PanelOrders)
    BY <1>2 DEF Transmissions
  <2>2. packet.of[i] \in PanelOrders
    BY <2>1, ElementOfSeq
  <2> QED BY <1>0, <1>2, <2>2, ObeyTyped DEF Took, sh
<1> QED BY <1>1, <1>2

LEMMA TakingIs ==
  ASSUME NEW c \in Controllers, NEW packet \in Transmissions
  PROVE  /\ Len(packet.of) \in Nat
         /\ Taking(c, packet) \in [0 .. Len(packet.of) -> Controllers] /\ Taking(c, packet)[0] = c
         /\ \A i \in 1 .. Len(packet.of) : Taking(c, packet)[i] = Took(Taking(c, packet)[i - 1], packet, i)
<1> DEFINE n == Len(packet.of)
           F == [p \in (1 .. n) \X Controllers |-> Took(p[2], packet, p[1])]
           Is(f) == f = [i \in 0 .. n |-> IF i = 0 THEN c ELSE Took(f[i - 1], packet, i)]
           T == Taking(c, packet)
<1>1. n \in Nat
  <2>1. packet.of \in Seq(CellByte) \/ packet.of \in Seq(PanelOrders)
    BY DEF Transmissions
  <2> QED BY <2>1, LenProperties
<1>2. F \in [(1 .. n) \X Controllers -> Controllers]
  BY TookTyped
<1>3. \A i \in 1 .. n, x \in Controllers : F[<<i, x>>] = Took(x, packet, i)
  OBVIOUS
<1> HIDE DEF F
<1>4. PICK f : Loops(f, Controllers, F, c, n)
  BY <1>1, <1>2, LoopExists
<1>5. f \in [0 .. n -> Controllers] /\ f[0] = c /\ \A i \in 1 .. n : f[i] = Took(f[i - 1], packet, i)
  <2>1. f \in [0 .. n -> Controllers] /\ f[0] = c /\ \A i \in 1 .. n : f[i] = F[<<i, f[i - 1]>>]
    BY <1>4 DEF Loops
  <2>2. \A i \in 1 .. n : i - 1 \in 0 .. n
    BY <1>1
  <2> QED BY <1>3, <2>1, <2>2
<1>6. Is(f)
  <2>1. \A i \in 0 .. n : f[i] = IF i = 0 THEN c ELSE Took(f[i - 1], packet, i)
    BY <1>1, <1>5
  <2>2. f = [i \in 0 .. n |-> f[i]]
    BY <1>5
  <2> QED BY <2>1, <2>2
<1>7. T = CHOOSE g : Is(g)
  BY DEF Taking, Took
<1>8. Is(T)
  BY <1>6, <1>7
<1>9. T[0] = c /\ \A i \in 1 .. n : T[i] = Took(T[i - 1], packet, i)
  <2> HIDE DEF T, n
  <2>1. T = [i \in 0 .. n |-> IF i = 0 THEN c ELSE Took(T[i - 1], packet, i)]
    BY <1>8
  <2>2. 0 \in 0 .. n /\ \A i \in 1 .. n : i \in 0 .. n /\ i # 0
    BY <1>1
  <2> QED BY <2>1, <2>2
<1>10. \A i \in 0 .. n : T[i] \in Controllers
  <2> DEFINE P == {i \in 0 .. n : T[i] \in Controllers}
  <2>1. 0 \in P
    BY <1>1, <1>9
  <2>2. \A i \in 1 .. n : i - 1 \in P => i \in P
    BY <1>1, <1>9, TookTyped
  <2>3. 0 .. n \subseteq P
    <3> HIDE DEF P
    <3> QED BY <1>1, <2>1, <2>2, EveryTurn
  <2> QED BY <2>3
<1>11. T \in [0 .. n -> Controllers]
  <2>1. DOMAIN T = 0 .. n /\ T = [i \in DOMAIN T |-> T[i]]
    <3> HIDE DEF T
    <3> QED BY <1>8
  <2> QED BY <1>10, <2>1
<1> QED BY <1>1, <1>9, <1>11

(* The panel after a packet.                                                *)
Took1(c, packet) == Taking(c, packet)[Len(packet.of)]

LEMMA Took1Typed ==
  ASSUME NEW c \in Controllers, NEW packet \in Transmissions
  PROVE  Took1(c, packet) \in Controllers
<1>1. Len(packet.of) \in 0 .. Len(packet.of)
  BY TakingIs
<1> QED BY <1>1, TakingIs DEF Took1

LEMMA ReceivingIs ==
  ASSUME NEW c \in Controllers, NEW sent \in Seq(Transmissions)
  PROVE  /\ Len(sent) \in Nat
         /\ Receiving(c, sent) \in [0 .. Len(sent) -> Controllers] /\ Receiving(c, sent)[0] = c
         /\ \A i \in 1 .. Len(sent) : Receiving(c, sent)[i] = Took1(Receiving(c, sent)[i - 1], sent[i])
<1> DEFINE n == Len(sent)
           F == [p \in (1 .. n) \X Controllers |-> Took1(p[2], sent[p[1]])]
           Is(f) == f = [i \in 0 .. n |-> IF i = 0 THEN c ELSE Took1(f[i - 1], sent[i])]
           T == Receiving(c, sent)
<1>1. n \in Nat /\ \A i \in 1 .. n : sent[i] \in Transmissions
  BY LenProperties, ElementOfSeq
<1>2. F \in [(1 .. n) \X Controllers -> Controllers]
  BY <1>1, Took1Typed
<1>3. \A i \in 1 .. n, x \in Controllers : F[<<i, x>>] = Took1(x, sent[i])
  OBVIOUS
<1> HIDE DEF F
<1>4. PICK f : Loops(f, Controllers, F, c, n)
  BY <1>1, <1>2, LoopExists
<1>5. f \in [0 .. n -> Controllers] /\ f[0] = c /\ \A i \in 1 .. n : f[i] = Took1(f[i - 1], sent[i])
  <2>1. f \in [0 .. n -> Controllers] /\ f[0] = c /\ \A i \in 1 .. n : f[i] = F[<<i, f[i - 1]>>]
    BY <1>4 DEF Loops
  <2>2. \A i \in 1 .. n : i - 1 \in 0 .. n
    BY <1>1
  <2> QED BY <1>3, <2>1, <2>2
<1>6. Is(f)
  <2>1. \A i \in 0 .. n : f[i] = IF i = 0 THEN c ELSE Took1(f[i - 1], sent[i])
    BY <1>1, <1>5
  <2>2. f = [i \in 0 .. n |-> f[i]]
    BY <1>5
  <2> QED BY <2>1, <2>2
<1>7. T = CHOOSE g : Is(g)
  BY DEF Receiving, Took1
<1>8. Is(T)
  BY <1>6, <1>7
<1>9. T[0] = c /\ \A i \in 1 .. n : T[i] = Took1(T[i - 1], sent[i])
  <2> HIDE DEF T
  <2> QED BY <1>1, <1>8
<1>10. \A i \in 0 .. n : T[i] \in Controllers
  <2> DEFINE P == {i \in 0 .. n : T[i] \in Controllers}
  <2>1. 0 \in P
    BY <1>1, <1>9
  <2>2. \A i \in 1 .. n : i - 1 \in P => i \in P
    BY <1>1, <1>9, Took1Typed
  <2>3. 0 .. n \subseteq P
    <3> HIDE DEF P
    <3> QED BY <1>1, <2>1, <2>2, EveryTurn
  <2> QED BY <2>3
<1>11. T \in [0 .. n -> Controllers]
  <2>1. DOMAIN T = 0 .. n /\ T = [i \in DOMAIN T |-> T[i]]
    <3> HIDE DEF T
    <3> QED BY <1>8
  <2> QED BY <1>10, <2>1
<1> QED BY <1>1, <1>9, <1>11

LEMMA ReceiveTyped ==
  ASSUME NEW c \in Controllers, NEW sent \in Seq(Transmissions)
  PROVE  Receive(c, sent) \in Controllers
<1>1. Len(sent) \in 0 .. Len(sent)
  BY ReceivingIs
<1> QED BY <1>1, ReceivingIs DEF Receive

LEMMA ReceiveOne ==
  ASSUME NEW c \in Controllers, NEW packet \in Transmissions
  PROVE  Receive(c, <<packet>>) = Took1(c, packet)
<1> DEFINE s == <<packet>>
<1>1. s \in Seq(Transmissions) /\ Len(s) = 1 /\ s[1] = packet
  OBVIOUS
<1> HIDE DEF s
<1>2. Receiving(c, s)[0] = c /\ \A i \in 1 .. 1 : Receiving(c, s)[i] = Took1(Receiving(c, s)[i - 1], s[i])
  BY <1>1, ReceivingIs
<1>3. Receiving(c, s)[1] = Took1(Receiving(c, s)[1 - 1], s[1])
  BY <1>2
<1>4. Receive(c, s) = Took1(c, packet)
  BY <1>1, <1>2, <1>3 DEF Receive
<1> QED BY <1>4 DEF s

LEMMA ReceiveNone ==
  ASSUME NEW c \in Controllers
  PROVE  Receive(c, <<>>) = c
<1>1. <<>> \in Seq(Transmissions) /\ Len(<<>>) = 0
  OBVIOUS
<1> QED BY <1>1, ReceivingIs DEF Receive

(* What is sent later comes to the panel as the earlier has left it.        *)
LEMMA ReceiveBoth ==
  ASSUME NEW c \in Controllers, NEW s \in Seq(Transmissions), NEW t \in Seq(Transmissions)
  PROVE  /\ s \o t \in Seq(Transmissions)
         /\ Receive(c, s \o t) = Receive(Receive(c, s), t)
<1> DEFINE a == Len(s)
           b == Len(t)
           u == s \o t
           U == Receiving(c, u)
           S == Receiving(c, s)
           T == Receiving(Receive(c, s), t)
<1>1. /\ a \in Nat /\ b \in Nat /\ u \in Seq(Transmissions) /\ Len(u) = a + b
      /\ \A i \in 1 .. a : u[i] = s[i]
      /\ \A j \in 1 .. b : u[a + j] = t[j]
  <2>1. /\ u \in Seq(Transmissions) /\ Len(u) = a + b /\ a \in Nat /\ b \in Nat
        /\ \A i \in 1 .. a + b : u[i] = IF i <= a THEN s[i] ELSE t[i - a]
    BY ConcatProperties, LenProperties
  <2> HIDE DEF u, a, b
  <2>2. ASSUME NEW j \in 1 .. b PROVE u[a + j] = t[j]
    <3>1. a + j \in 1 .. a + b /\ ~(a + j <= a) /\ a + j - a = j
      BY <2>1
    <3> QED BY <2>1, <3>1
  <2> QED BY <2>1, <2>2
<1>2. /\ U[0] = c /\ \A i \in 1 .. a + b : U[i] = Took1(U[i - 1], u[i])
      /\ S[0] = c /\ \A i \in 1 .. a : S[i] = Took1(S[i - 1], s[i])
      /\ Receive(c, s) \in Controllers /\ Receive(c, s) = S[a]
  <2>1. U[0] = c /\ \A i \in 1 .. Len(u) : U[i] = Took1(U[i - 1], u[i])
    BY <1>1, ReceivingIs
  <2> QED BY <1>1, <2>1, ReceivingIs, ReceiveTyped DEF Receive
<1>3. T[0] = S[a] /\ \A j \in 1 .. b : T[j] = Took1(T[j - 1], t[j])
  BY <1>2, ReceivingIs
<1>4. Receive(c, u) = U[a + b] /\ Receive(Receive(c, s), t) = T[b]
  BY <1>1 DEF Receive
<1> HIDE DEF a, b, u, U, S, T
<1>5. U[a] = S[a]
  <2> DEFINE P == {i \in 0 .. a : U[i] = S[i]}
  <2>1. 0 \in P
    BY <1>1, <1>2
  <2>2. ASSUME NEW i \in 1 .. a, i - 1 \in P PROVE i \in P
    <3>1. i \in 1 .. a + b
      BY <1>1
    <3> QED BY <1>1, <1>2, <2>2, <3>1
  <2>3. 0 .. a \subseteq P
    <3> HIDE DEF P
    <3> QED BY <1>1, <2>1, <2>2, EveryTurn
  <2> QED BY <1>1, <2>3
<1>6. U[a + b] = T[b]
  <2> DEFINE P == {j \in 0 .. b : U[a + j] = T[j]}
  <2>1. 0 \in P
    BY <1>1, <1>3, <1>5
  <2>2. ASSUME NEW j \in 1 .. b, j - 1 \in P PROVE j \in P
    <3>1. a + j \in 1 .. a + b /\ (a + j) - 1 = a + (j - 1)
      BY <1>1
    <3>2. U[a + j] = Took1(U[a + (j - 1)], t[j])
      BY <1>1, <1>2, <3>1
    <3> QED BY <1>3, <2>2, <3>2
  <2>3. 0 .. b \subseteq P
    <3> HIDE DEF P
    <3> QED BY <1>1, <2>1, <2>2, EveryTurn
  <2> QED BY <1>1, <2>3
<1> QED BY <1>1, <1>4, <1>6 DEF u

LEMMA MinOfTwo ==
  ASSUME NEW a \in Int, NEW b \in Int
  PROVE  Min({a, b}) = IF a <= b THEN a ELSE b
<1>1. PICK m \in {a, b} : \A y \in {a, b} : m <= y
  OBVIOUS
<1>2. Min({a, b}) = CHOOSE x \in {a, b} : \A y \in {a, b} : x <= y
  BY DEF Min
<1>3. Min({a, b}) \in {a, b} /\ \A y \in {a, b} : Min({a, b}) <= y
  BY <1>1, <1>2
<1> QED BY <1>3

(* Every driver's data bytes are put one after the other, in the places of  *)
(* D: a controller that was in D[m] is in D[m + 1] after the next byte.     *)
BytePlaces(D, bytes) ==
  /\ D \in [0 .. Len(bytes) -> SUBSET Controllers]
  /\ \A m \in 0 .. Len(bytes) - 1 : \A c \in D[m] :
       PutByte(driver \in SH1106s, c, bytes[m + 1]) \in D[m + 1]

LEMMA PacketPlaced ==
  ASSUME NEW bytes \in Seq(CellByte), NEW D, BytePlaces(D, bytes), NEW c \in D[0]
  PROVE  Data(bytes) \in Transmissions /\ Took1(c, Data(bytes)) \in D[Len(bytes)]
<1> DEFINE n == Len(bytes)
           packet == Data(bytes)
           T == Taking(c, packet)
           P == {m \in 0 .. n : T[m] \in D[m]}
<1>1. n \in Nat /\ packet \in Transmissions /\ packet.data = TRUE /\ packet.of = bytes
  BY LenProperties DEF Data, Transmissions
<1>2. D[0] \subseteq Controllers
  BY <1>1 DEF BytePlaces
<1>3. T[0] = c /\ \A i \in 1 .. n : T[i] = Took(T[i - 1], packet, i)
  <2> HIDE DEF packet
  <2> QED BY <1>1, <1>2, TakingIs
<1>4. \A i \in 1 .. n : T[i] = PutByte(driver \in SH1106s, T[i - 1], bytes[i])
  <2> HIDE DEF packet, T
  <2> QED BY <1>1, <1>3 DEF Took
<1>5. Took1(c, packet) = T[n]
  BY <1>1 DEF Took1
<1> HIDE DEF T, packet, n
<1>6. 0 \in P
  BY <1>1, <1>3
<1>7. ASSUME NEW i \in 1 .. n, i - 1 \in P PROVE i \in P
  <2>1. i - 1 \in 0 .. n - 1 /\ (i - 1) + 1 = i
    BY <1>1
  <2> QED BY <1>1, <1>4, <1>7, <2>1 DEF BytePlaces, n
<1>8. 0 .. n \subseteq P
  <2> HIDE DEF P
  <2> QED BY <1>1, <1>6, <1>7, EveryTurn
<1> QED BY <1>1, <1>5, <1>8 DEF n, packet

(* Up to where the first k chunks go.                                       *)
ChunkEnd(n, k) == IF k * CHUNK <= n THEN k * CHUNK ELSE n
ChunkCount(n)  == (n + CHUNK - 1) \div CHUNK

LEMMA ChunksAre ==
  ASSUME NEW n \in Nat
  PROVE  /\ ChunkCount(n) \in Nat /\ ChunkEnd(n, 0) = 0 /\ ChunkEnd(n, ChunkCount(n)) = n
         /\ \A k \in 0 .. ChunkCount(n) : ChunkEnd(n, k) \in 0 .. n
         /\ \A k \in 1 .. ChunkCount(n) :
              /\ k * CHUNK \in Nat /\ (k - 1) * CHUNK \in Nat /\ (k - 1) * CHUNK = ChunkEnd(n, k - 1)
              /\ ChunkEnd(n, k - 1) < ChunkEnd(n, k) /\ ChunkEnd(n, k) <= ChunkEnd(n, k - 1) + CHUNK
<1> DEFINE N == ChunkCount(n)
           C == CHUNK
<1>1. C \in Nat \ {0}
  BY PanelConstants
<1>2. N \in Nat /\ C * N <= n + C - 1 /\ C * N > n - 1
  <2>1. n + C - 1 \in Nat
    BY <1>1
  <2>2. N = (n + C - 1) \div C
    BY DEF ChunkCount
  <2> HIDE DEF N, C
  <2> DEFINE a == n + C - 1
  <2>3. a \div C \in Nat /\ C * (a \div C) <= a /\ a < C * (a \div C) + C
    <3> HIDE DEF a
    <3>1. a \in Nat
      BY <2>1 DEF a
    <3>2. a \div C \in Int /\ a % C \in 0 .. C - 1 /\ a = C * (a \div C) + (a % C)
      BY <1>1, <3>1
    <3>3. a \div C \in Nat
      BY <1>1, <3>1
    <3> QED BY <1>1, <3>1, <3>2, <3>3
  <2> QED BY <1>1, <2>1, <2>2, <2>3
<1> HIDE DEF N, C
<1>3. ASSUME NEW k \in 0 .. N PROVE k * C \in Nat /\ (k < N => k * C <= C * N - C)
  <2>1. k * C \in Nat
    BY <1>1, <1>2
  <2>2. ASSUME k < N PROVE k * C <= C * N - C
    <3>1. k <= N - 1 /\ N - 1 \in Nat /\ k \in Nat
      BY <1>2, <2>2
    <3>2. C * k <= C * (N - 1)
      BY <1>1, <3>1
    <3>3. C * (N - 1) = C * N - C /\ C * k = k * C
      BY <1>1, <1>2, <3>1
    <3> QED BY <1>1, <1>2, <3>1, <3>2, <3>3
  <2> QED BY <2>1, <2>2
<1>4. ChunkEnd(n, 0) = 0
  BY <1>1 DEF ChunkEnd, C
<1>5. ChunkEnd(n, N) = n
  <2>1. N * C = C * N /\ N * C \in Nat
    BY <1>1, <1>2
  <2> QED BY <1>1, <1>2, <2>1 DEF ChunkEnd, C
<1>6. \A k \in 0 .. N : ChunkEnd(n, k) \in 0 .. n
  BY <1>3 DEF ChunkEnd, C
<1>7. ASSUME NEW k \in 1 .. N
      PROVE  /\ k * C \in Nat /\ (k - 1) * C \in Nat /\ (k - 1) * C = ChunkEnd(n, k - 1)
             /\ ChunkEnd(n, k - 1) < ChunkEnd(n, k) /\ ChunkEnd(n, k) <= ChunkEnd(n, k - 1) + C
  <2>1. k - 1 \in 0 .. N /\ k \in 0 .. N /\ k - 1 < N
    BY <1>2
  <2>2. k * C \in Nat /\ (k - 1) * C \in Nat /\ (k - 1) * C <= C * N - C /\ k * C = (k - 1) * C + C
    BY <1>1, <1>3, <2>1
  <2>3. C * N \in Int /\ (k - 1) * C < n
    BY <1>1, <1>2, <2>2
  <2> QED BY <1>1, <2>2, <2>3 DEF ChunkEnd, C
<1> QED BY <1>2, <1>4, <1>5, <1>6, <1>7 DEF N, C

(* Data packets of which none is longer than the buffer of the bus.         *)
FitsBus(sent) == \A i \in DOMAIN sent : sent[i].data => Len(sent[i].of) \in 0 .. CHUNK

LEMMA PacketsAre ==
  ASSUME NEW bytes \in Seq(CellByte)
  PROVE  LET n == Len(bytes)
         IN  /\ Packets(bytes) \in Seq(Transmissions) /\ Len(Packets(bytes)) = ChunkCount(n) /\ FitsBus(Packets(bytes))
             /\ \A k \in 1 .. ChunkCount(n) :
                  \E piece \in Seq(CellByte) :
                    /\ Packets(bytes)[k] = Data(piece) /\ Len(piece) = ChunkEnd(n, k) - ChunkEnd(n, k - 1)
                    /\ \A j \in 1 .. Len(piece) : piece[j] = bytes[ChunkEnd(n, k - 1) + j]
<1> DEFINE n == Len(bytes)
           N == ChunkCount(n)
           p == Packets(bytes)
           piece(k) == SubSeq(bytes, ChunkEnd(n, k - 1) + 1, ChunkEnd(n, k))
<1>1. n \in Nat /\ CHUNK \in Nat \ {0}
  BY LenProperties, PanelConstants
<1>2. /\ N \in Nat /\ \A k \in 0 .. N : ChunkEnd(n, k) \in 0 .. n
      /\ \A k \in 1 .. N :
              /\ k * CHUNK \in Nat /\ (k - 1) * CHUNK = ChunkEnd(n, k - 1)
              /\ ChunkEnd(n, k - 1) < ChunkEnd(n, k) /\ ChunkEnd(n, k) <= ChunkEnd(n, k - 1) + CHUNK
  BY <1>1, ChunksAre
<1>3. p = [k \in 1 .. N |-> Data(piece(k))]
  <2>1. \A k \in 1 .. N : Min({k * CHUNK, n}) = ChunkEnd(n, k)
    BY <1>1, <1>2, MinOfTwo DEF ChunkEnd
  <2>2. p = [k \in 1 .. N |-> Data(SubSeq(bytes, (k - 1) * CHUNK + 1, Min({k * CHUNK, n})))]
    BY DEF Packets, ChunkCount
  <2> HIDE DEF p, N, n
  <2> QED BY <1>2, <2>1, <2>2
<1>4. ASSUME NEW k \in 1 .. N
      PROVE  /\ piece(k) \in Seq(CellByte) /\ Len(piece(k)) = ChunkEnd(n, k) - ChunkEnd(n, k - 1)
             /\ Len(piece(k)) \in 0 .. CHUNK
             /\ \A j \in 1 .. Len(piece(k)) : piece(k)[j] = bytes[ChunkEnd(n, k - 1) + j]
  <2> DEFINE a == ChunkEnd(n, k - 1)
             b == ChunkEnd(n, k)
  <2>1. a \in Int /\ b \in Int /\ 0 <= a /\ a < b /\ b <= n /\ b <= a + CHUNK
    <3>1. k - 1 \in 0 .. N /\ k \in 0 .. N
      BY <1>2
    <3> QED BY <1>2, <3>1
  <2> HIDE DEF a, b
  <2>2. a + 1 \in 1 .. n + 1 /\ b \in (a + 1) - 1 .. n
    BY <1>1, <2>1
  <2>3. /\ SubSeq(bytes, a + 1, b) \in Seq(CellByte)
        /\ Len(SubSeq(bytes, a + 1, b)) = b - (a + 1) + 1
        /\ \A i \in 1 .. b - (a + 1) + 1 : SubSeq(bytes, a + 1, b)[i] = bytes[(a + 1) + i - 1]
    BY <2>2, SubSeqProperties
  <2>4. b - (a + 1) + 1 = b - a /\ \A i \in 1 .. b - a : (a + 1) + i - 1 = a + i
    BY <2>1
  <2> QED BY <1>1, <2>1, <2>3, <2>4 DEF a, b
<1> HIDE DEF p, N, n
<1>5. \A k \in 1 .. N : p[k] = Data(piece(k)) /\ Data(piece(k)) \in Transmissions
  BY <1>3, <1>4 DEF Data, Transmissions
<1>6. p \in Seq(Transmissions) /\ Len(p) = N
  BY <1>2, <1>3, <1>5
<1>7. FitsBus(p)
  <2>1. DOMAIN p = 1 .. N
    BY <1>3
  <2>2. \A k \in 1 .. N : p[k].of = piece(k)
    <3>1. ASSUME NEW x PROVE Data(x).of = x
      BY DEF Data
    <3>2. ASSUME NEW k \in 1 .. N PROVE p[k].of = piece(k)
      <4>1. PICK x : x = piece(k)
        OBVIOUS
      <4> QED BY <1>5, <3>1, <4>1
    <3> QED BY <3>2
  <2> QED BY <1>4, <2>1, <2>2 DEF FitsBus
<1> QED BY <1>4, <1>5, <1>6, <1>7 DEF p, N, n

LEMMA DataArrives ==
  ASSUME NEW bytes \in Seq(CellByte), NEW D, BytePlaces(D, bytes), NEW c \in D[0]
  PROVE  Receive(c, Packets(bytes)) \in D[Len(bytes)]
<1> DEFINE n == Len(bytes)
           N == ChunkCount(n)
           p == Packets(bytes)
           R == Receiving(c, p)
           P == {k \in 0 .. N : R[k] \in D[ChunkEnd(n, k)]}
<1>1. n \in Nat /\ N \in Nat /\ CHUNK \in Nat
  BY LenProperties, ChunksAre, PanelConstants
<1>2. /\ D \in [0 .. n -> SUBSET Controllers]
      /\ \A m \in 0 .. n - 1 : \A x \in D[m] : PutByte(driver \in SH1106s, x, bytes[m + 1]) \in D[m + 1]
  BY DEF BytePlaces
<1>3. c \in Controllers
  BY <1>1, <1>2
<1>4. p \in Seq(Transmissions) /\ Len(p) = N
  BY PacketsAre
<1>5. /\ R[0] = c /\ \A k \in 1 .. N : R[k] = Took1(R[k - 1], p[k])
      /\ Receive(c, p) = R[N]
  <2> HIDE DEF p
  <2> QED BY <1>3, <1>4, ReceivingIs DEF Receive
<1>6. /\ ChunkEnd(n, 0) = 0 /\ ChunkEnd(n, N) = n
      /\ \A k \in 0 .. N : ChunkEnd(n, k) \in 0 .. n
  BY <1>1, ChunksAre
<1>7. \A k \in 1 .. N : \E piece \in Seq(CellByte) :
        /\ p[k] = Data(piece) /\ Len(piece) = ChunkEnd(n, k) - ChunkEnd(n, k - 1)
        /\ \A j \in 1 .. Len(piece) : piece[j] = bytes[ChunkEnd(n, k - 1) + j]
  BY PacketsAre
<1> HIDE DEF p, R, n, N
<1>8. 0 \in P
  BY <1>1, <1>5, <1>6
<1>9. ASSUME NEW k \in 1 .. N, k - 1 \in P PROVE k \in P
  <2>1. PICK piece \in Seq(CellByte) :
          /\ p[k] = Data(piece) /\ Len(piece) = ChunkEnd(n, k) - ChunkEnd(n, k - 1)
          /\ \A j \in 1 .. Len(piece) : piece[j] = bytes[ChunkEnd(n, k - 1) + j]
    BY <1>7
  <2> DEFINE a == ChunkEnd(n, k - 1)
             b == ChunkEnd(n, k)
             E == [j \in 0 .. Len(piece) |-> D[a + j]]
  <2>2. a \in 0 .. n /\ b \in 0 .. n /\ Len(piece) = b - a /\ Len(piece) \in Nat
    <3>1. k - 1 \in 0 .. N /\ k \in 0 .. N
      BY <1>1
    <3> QED BY <1>6, <2>1, <3>1, LenProperties
  <2> HIDE DEF a, b
  <2>3. E \in [0 .. Len(piece) -> SUBSET Controllers]
    <3>1. \A j \in 0 .. Len(piece) : a + j \in 0 .. n
      BY <1>1, <2>2
    <3> QED BY <1>2, <3>1
  <2>4. ASSUME NEW m \in 0 .. Len(piece) - 1, NEW x \in E[m]
        PROVE  PutByte(driver \in SH1106s, x, piece[m + 1]) \in E[m + 1]
    <3>1. a + m \in 0 .. n - 1 /\ m \in 0 .. Len(piece) /\ m + 1 \in 0 .. Len(piece) /\ m + 1 \in 1 .. Len(piece)
          /\ a + (m + 1) = (a + m) + 1
      BY <1>1, <2>2
    <3>2. piece[m + 1] = bytes[(a + m) + 1] /\ x \in D[a + m] /\ E[m + 1] = D[(a + m) + 1]
      BY <2>1, <3>1 DEF a
    <3> QED BY <1>2, <3>1, <3>2
  <2>5. BytePlaces(E, piece)
    BY <2>3, <2>4 DEF BytePlaces
  <2>6. E[0] = D[a] /\ E[Len(piece)] = D[b]
    BY <1>1, <2>2
  <2> HIDE DEF E
  <2>7. R[k - 1] \in E[0]
    BY <1>9, <2>6 DEF a
  <2>8. Took1(R[k - 1], Data(piece)) \in E[Len(piece)]
    BY <2>5, <2>7, PacketPlaced
  <2> QED BY <1>1, <1>5, <2>1, <2>6, <2>8 DEF b
<1>10. 0 .. N \subseteq P
  <2> HIDE DEF P
  <2> QED BY <1>1, <1>8, <1>9, EveryTurn
<1> QED BY <1>1, <1>5, <1>6, <1>10 DEF n, p

(***************************************************************************)
(* Commands.                                                                *)
(***************************************************************************)
LEMMA OrdersTaken ==
  ASSUME NEW c \in Controllers, NEW list \in Seq(PanelOrders)
  PROVE  /\ Commands(list) \in Seq(Transmissions) /\ FitsBus(Commands(list))
         /\ \E T \in [0 .. Len(list) -> Controllers] :
              /\ T[0] = c /\ Receive(c, Commands(list)) = T[Len(list)]
              /\ \A i \in 1 .. Len(list) : T[i] = Obey(driver \in SH1106s, T[i - 1], list[i])
<1> DEFINE packet == [data |-> FALSE, of |-> list]
           T == Taking(c, packet)
<1>1. packet \in Transmissions /\ packet.data = FALSE /\ packet.of = list
  BY DEF Transmissions
<1>2. Commands(list) = <<packet>>
  BY DEF Commands
<1> HIDE DEF packet
<1>3. /\ T \in [0 .. Len(list) -> Controllers] /\ T[0] = c
      /\ \A i \in 1 .. Len(list) : T[i] = Took(T[i - 1], packet, i)
  BY <1>1, TakingIs
<1>4. Receive(c, Commands(list)) = T[Len(list)]
  BY <1>1, <1>2, ReceiveOne DEF Took1
<1> HIDE DEF T
<1>5. \A i \in 1 .. Len(list) : T[i] = Obey(driver \in SH1106s, T[i - 1], list[i])
  BY <1>1, <1>3 DEF Took
<1>6. Commands(list) \in Seq(Transmissions)
  BY <1>1, <1>2
<1>7. FitsBus(Commands(list))
  <2>1. \A i \in DOMAIN <<packet>> : <<packet>>[i] = packet
    OBVIOUS
  <2> QED BY <1>1, <1>2, <2>1 DEF FitsBus
<1> QED BY <1>3, <1>4, <1>5, <1>6, <1>7

(* No byte is awaited.                                                      *)
Quiet(c) == c.awaits = <<>>

(* What the panel shows, and how, stays.                                    *)
SameLook(c, d) ==
  d.lit = c.lit /\ d.inverted = c.inverted /\ d.flipped = c.flipped /\ d.contrast = c.contrast
SameRam(c, d) == d.ram = c.ram

(* Commands that do not change how it looks, with a byte and without.       *)
UnseenByte  == {"SETDISPLAYCLOCKDIV", "SETMULTIPLEX", "SETDISPLAYOFFSET", "CHARGEPUMP", "MEMORYMODE",
                "SETCOMPINS", "SETPRECHARGE"}
UnseenPlain == {"SETSTARTLINE", "COMSCANINC", "COMSCANDEC", "DISPLAYALLON_RESUME", "STOPSCROLL"}

LEMMA UnseenOrder ==
  ASSUME NEW c \in Controllers, Quiet(c), NEW sh \in BOOLEAN, NEW op \in UnseenByte \cup UnseenPlain
  PROVE  LET d == Obey(sh, c, Order(op))
         IN  /\ SameLook(c, d) /\ SameRam(c, d) /\ d.awaits \in {<<>>, <<"other">>}
             /\ op \in UnseenPlain => Quiet(d)
<1>1. Order(op).op = op
  BY DEF Order
<1>2. Obey(sh, c, Order(op)) = [c EXCEPT !.awaits = Awaited(sh, op)]
  <2>1. op \notin {"DISPLAYON", "DISPLAYOFF", "INVERTDISPLAY", "NORMALDISPLAY", "SEGREMAP", "page", "low", "high",
                   "byte"}
    BY DEF UnseenByte, UnseenPlain
  <2> QED BY <1>1, <2>1 DEF Obey, Quiet
<1>3. Awaited(sh, op) \in {<<>>, <<"other">>} /\ (op \in UnseenPlain => Awaited(sh, op) = <<>>)
  <2>1. CASE op \in UnseenPlain
    BY <2>1 DEF Awaited, UnseenPlain
  <2>2. CASE op \in UnseenByte
    <3>1. op \notin UnseenPlain
      BY <2>2 DEF UnseenByte, UnseenPlain
    <3> QED BY <2>2, <3>1 DEF Awaited, UnseenByte
  <2> QED BY <2>1, <2>2
<1> QED BY <1>2, <1>3 DEF Controllers, Quiet, SameLook, SameRam

(* The byte behind it, which a SH1106 takes for a command if it awaits none.*)
LEMMA UnseenByteTaken ==
  ASSUME NEW c \in Controllers, c.awaits \in {<<>>, <<"other">>}, NEW sh \in BOOLEAN, NEW n \in Nat
  PROVE  LET d == Obey(sh, c, PanelByte(n)) IN SameLook(c, d) /\ SameRam(c, d) /\ Quiet(d)
<1>1. PanelByte(n).op = "byte" /\ PanelByte(n).n = n
  BY DEF PanelByte
<1>2. CASE c.awaits = <<>>
  <2>1. Awaited(sh, "byte") = <<>>
    BY DEF Awaited
  <2>2. Obey(sh, c, PanelByte(n)) = IF sh THEN [c EXCEPT !.col = 0] ELSE [c EXCEPT !.awaits = <<>>]
    BY <1>1, <1>2, <2>1 DEF Obey
  <2> QED BY <1>2, <2>2 DEF Controllers, Quiet, SameLook, SameRam
<1>3. CASE c.awaits = <<"other">>
  <2>1. c.awaits # <<>> /\ Head(c.awaits) = "other" /\ Tail(c.awaits) = <<>>
    BY <1>3
  <2>2. TakeByte(c, n) = [c EXCEPT !.awaits = <<>>]
    BY <2>1 DEF TakeByte
  <2>3. Obey(sh, c, PanelByte(n)) = [c EXCEPT !.awaits = <<>>]
    BY <1>1, <2>1, <2>2 DEF Obey
  <2> QED BY <2>3 DEF Controllers, Quiet, SameLook, SameRam
<1> QED BY <1>2, <1>3

LEMMA ContrastTaken ==
  ASSUME NEW c \in Controllers, Quiet(c), NEW sh \in BOOLEAN, NEW n \in Nat
  PROVE  LET d == Obey(sh, Obey(sh, c, Order("SETCONTRAST")), PanelByte(n))
         IN  /\ SameRam(c, d) /\ Quiet(d) /\ d.contrast = n
             /\ d.lit = c.lit /\ d.inverted = c.inverted /\ d.flipped = c.flipped
<1>1. Order("SETCONTRAST").op = "SETCONTRAST" /\ PanelByte(n).n = n
  BY DEF Order, PanelByte
<1> DEFINE m == Obey(sh, c, Order("SETCONTRAST"))
<1>2. m = [c EXCEPT !.awaits = <<"contrast">>]
  <2>1. Awaited(sh, "SETCONTRAST") = <<"contrast">>
    BY DEF Awaited
  <2> QED BY <1>1, <2>1 DEF Obey, Quiet
<1>3. /\ m.awaits = <<"contrast">> /\ SameRam(c, m) /\ SameLook(c, m)
      /\ m.awaits # <<>> /\ Head(m.awaits) = "contrast" /\ Tail(m.awaits) = <<>>
      /\ m \in Controllers
  <2>1. <<"contrast">> \in Seq(Fields)
    BY DEF Fields
  <2>2. <<"contrast">> # <<>> /\ Head(<<"contrast">>) = "contrast" /\ Tail(<<"contrast">>) = <<>>
    OBVIOUS
  <2> DEFINE s == <<"contrast">>
  <2> HIDE DEF s
  <2>3. m = [c EXCEPT !.awaits = s] /\ s \in Seq(Fields)
    BY <1>2, <2>1 DEF s
  <2>4. m.awaits = s /\ SameRam(c, m) /\ SameLook(c, m) /\ m \in Controllers
    BY <2>3 DEF Controllers, SameRam, SameLook
  <2> QED BY <2>2, <2>4 DEF s
<1> HIDE DEF m
<1>4. Obey(sh, m, PanelByte(n)) = [[m EXCEPT !.awaits = <<>>] EXCEPT !.contrast = n]
  BY <1>1, <1>3 DEF Obey, TakeByte
<1>5. LET d == Obey(sh, m, PanelByte(n))
      IN  /\ SameRam(c, d) /\ Quiet(d) /\ d.contrast = n
          /\ d.lit = c.lit /\ d.inverted = c.inverted /\ d.flipped = c.flipped
  BY <1>3, <1>4 DEF Controllers, Quiet, SameRam, SameLook
<1> QED BY <1>5 DEF m

(* init()'s commands, whatever the controller held before.                  *)
LEMMA InitCommandsTaken ==
  ASSUME NEW c \in Controllers, Quiet(c)
  PROVE  LET d == Receive(c, Commands(InitCommands))
         IN  /\ d \in Controllers /\ Quiet(d)
             /\ \A wish \in DOMAIN Defaults : d[wish] = Defaults[wish]
<1> DEFINE list == InitCommands
           sh   == driver \in SH1106s
<1>1. list \in Seq(PanelOrders) /\ Len(list) = 24
  <2>1. ASSUME NEW op \in Operations PROVE Order(op) \in PanelOrders
    BY DEF Order, PanelOrders
  <2>2. ASSUME NEW n \in Nat PROVE PanelByte(n) \in PanelOrders
    <3>1. "byte" \in Operations
      BY DEF Operations
    <3> QED BY <3>1 DEF PanelByte, PanelOrders
  <2>3. {"DISPLAYON", "DISPLAYOFF", "NORMALDISPLAY", "SEGREMAP", "SETCONTRAST", "SETDISPLAYCLOCKDIV", "SETMULTIPLEX",
         "SETDISPLAYOFFSET", "CHARGEPUMP", "MEMORYMODE", "SETCOMPINS", "SETPRECHARGE", "SETSTARTLINE", "COMSCANINC",
         "DISPLAYALLON_RESUME", "STOPSCROLL"} \subseteq Operations
    BY DEF Operations
  <2> QED BY <2>1, <2>2, <2>3 DEF InitCommands
<1>2. /\ list[1] = Order("DISPLAYOFF") /\ list[2] = Order("SETDISPLAYCLOCKDIV") /\ list[3] = PanelByte(240)
      /\ list[4] = Order("SETMULTIPLEX") /\ list[5] = PanelByte(63) /\ list[6] = Order("SETDISPLAYOFFSET")
      /\ list[7] = PanelByte(0) /\ list[8] = Order("SETSTARTLINE") /\ list[9] = Order("CHARGEPUMP")
      /\ list[10] = PanelByte(20) /\ list[11] = Order("MEMORYMODE") /\ list[12] = PanelByte(0)
      /\ list[13] = Order("SEGREMAP") /\ list[14] = Order("COMSCANINC") /\ list[15] = Order("SETCOMPINS")
      /\ list[16] = PanelByte(18) /\ list[17] = Order("SETCONTRAST") /\ list[18] = PanelByte(207)
      /\ list[19] = Order("SETPRECHARGE") /\ list[20] = PanelByte(241) /\ list[21] = Order("DISPLAYALLON_RESUME")
      /\ list[22] = Order("NORMALDISPLAY") /\ list[23] = Order("STOPSCROLL") /\ list[24] = Order("DISPLAYON")
  BY DEF InitCommands
<1>3. PICK T \in [0 .. 24 -> Controllers] :
        /\ T[0] = c /\ Receive(c, Commands(list)) = T[24]
        /\ \A i \in 1 .. 24 : T[i] = Obey(sh, T[i - 1], list[i])
  <2> HIDE DEF list, sh
  <2>1. PICK T \in [0 .. Len(list) -> Controllers] :
          /\ T[0] = c /\ Receive(c, Commands(list)) = T[Len(list)]
          /\ \A i \in 1 .. Len(list) : T[i] = Obey(sh, T[i - 1], list[i])
    BY <1>1, OrdersTaken DEF sh
  <2> QED BY <1>1, <2>1
<1>4. sh \in BOOLEAN
  OBVIOUS
<1> HIDE DEF list, sh
<1>5. \A i \in 0 .. 24 : T[i] \in Controllers
  OBVIOUS
<1>6. ASSUME NEW i \in 1 .. 24, NEW op \in UnseenPlain, list[i] = Order(op), Quiet(T[i - 1])
      PROVE  SameLook(T[i - 1], T[i]) /\ Quiet(T[i])
  <2>1. T[i - 1] \in Controllers
    BY <1>5
  <2>2. T[i] = Obey(sh, T[i - 1], Order(op))
    BY <1>3, <1>6
  <2> DEFINE d == T[i - 1]
  <2>3. d \in Controllers /\ Quiet(d) /\ T[i] = Obey(sh, d, Order(op))
    BY <1>6, <2>1, <2>2
  <2> HIDE DEF d
  <2>4. SameLook(d, T[i]) /\ Quiet(T[i])
    BY <1>4, <1>6, <2>3, UnseenOrder
  <2> QED BY <2>4 DEF d
<1>7. ASSUME NEW i \in 1 .. 23, NEW op \in UnseenByte, NEW n \in Nat, list[i] = Order(op), list[i + 1] = PanelByte(n),
             Quiet(T[i - 1])
      PROVE  SameLook(T[i - 1], T[i + 1]) /\ Quiet(T[i + 1])
  <2>1. T[i - 1] \in Controllers /\ T[i] \in Controllers /\ i + 1 \in 1 .. 24 /\ (i + 1) - 1 = i /\ i \in 1 .. 24
    BY <1>5
  <2>2. T[i] = Obey(sh, T[i - 1], Order(op)) /\ T[i + 1] = Obey(sh, T[i], PanelByte(n))
    BY <1>3, <1>7, <2>1
  <2>3. SameLook(T[i - 1], T[i]) /\ T[i].awaits \in {<<>>, <<"other">>}
    BY <1>4, <1>7, <2>1, <2>2, UnseenOrder
  <2>4. SameLook(T[i], T[i + 1]) /\ Quiet(T[i + 1])
    BY <1>4, <2>1, <2>2, <2>3, UnseenByteTaken
  <2> QED BY <2>3, <2>4 DEF SameLook
<1>8. /\ Quiet(T[1]) /\ T[1].lit = FALSE
      /\ T[1].inverted = T[0].inverted /\ T[1].flipped = T[0].flipped /\ T[1].contrast = T[0].contrast
  <2>1. T[1] = Obey(sh, T[0], Order("DISPLAYOFF")) /\ Quiet(T[0]) /\ T[0] \in Controllers
    <3>1. 1 \in 1 .. 24 /\ 1 - 1 = 0
      OBVIOUS
    <3> QED BY <1>2, <1>3, <1>5, <3>1
  <2>2. Order("DISPLAYOFF").op = "DISPLAYOFF" /\ Order("DISPLAYOFF").n = 0
    BY DEF Order
  <2>3. T[1] = [T[0] EXCEPT !.lit = FALSE]
    BY <2>1, <2>2 DEF Obey, Quiet
  <2> QED BY <2>1, <2>3 DEF Controllers, Quiet
<1>9. SameLook(T[1], T[3]) /\ Quiet(T[3])
  <2>1. 2 \in 1 .. 23 /\ "SETDISPLAYCLOCKDIV" \in UnseenByte /\ 2 - 1 = 1 /\ 2 + 1 = 3
    BY DEF UnseenByte
  <2> QED BY <1>2, <1>7, <1>8, <2>1
<1>10. SameLook(T[3], T[5]) /\ Quiet(T[5])
  <2>1. 4 \in 1 .. 23 /\ "SETMULTIPLEX" \in UnseenByte /\ 4 - 1 = 3 /\ 4 + 1 = 5
    BY DEF UnseenByte
  <2> QED BY <1>2, <1>7, <1>9, <2>1
<1>11. SameLook(T[5], T[7]) /\ Quiet(T[7])
  <2>1. 6 \in 1 .. 23 /\ "SETDISPLAYOFFSET" \in UnseenByte /\ 6 - 1 = 5 /\ 6 + 1 = 7
    BY DEF UnseenByte
  <2> QED BY <1>2, <1>7, <1>10, <2>1
<1>12. SameLook(T[7], T[8]) /\ Quiet(T[8])
  <2>1. 8 \in 1 .. 24 /\ "SETSTARTLINE" \in UnseenPlain /\ 8 - 1 = 7
    BY DEF UnseenPlain
  <2> QED BY <1>2, <1>6, <1>11, <2>1
<1>13. SameLook(T[8], T[10]) /\ Quiet(T[10])
  <2>1. 9 \in 1 .. 23 /\ "CHARGEPUMP" \in UnseenByte /\ 9 - 1 = 8 /\ 9 + 1 = 10
    BY DEF UnseenByte
  <2> QED BY <1>2, <1>7, <1>12, <2>1
<1>14. SameLook(T[10], T[12]) /\ Quiet(T[12])
  <2>1. 11 \in 1 .. 23 /\ "MEMORYMODE" \in UnseenByte /\ 11 - 1 = 10 /\ 11 + 1 = 12
    BY DEF UnseenByte
  <2> QED BY <1>2, <1>7, <1>13, <2>1
<1>15. /\ Quiet(T[13]) /\ T[13].flipped = FALSE
      /\ T[13].lit = T[12].lit /\ T[13].inverted = T[12].inverted /\ T[13].contrast = T[12].contrast
  <2>1. T[13] = Obey(sh, T[12], Order("SEGREMAP")) /\ Quiet(T[12]) /\ T[12] \in Controllers
    <3>1. 13 \in 1 .. 24 /\ 13 - 1 = 12
      OBVIOUS
    <3> QED BY <1>2, <1>3, <1>5, <1>14, <3>1
  <2>2. Order("SEGREMAP").op = "SEGREMAP" /\ Order("SEGREMAP").n = 0
    BY DEF Order
  <2> DEFINE o == Order("SEGREMAP")
  <2>3. T[13] = [T[12] EXCEPT !.flipped = (o.n = 1)]
    BY <2>1, <2>2 DEF Obey, Quiet
  <2>4. (o.n = 1) = FALSE
    BY <2>2
  <2> QED BY <2>1, <2>3, <2>4 DEF Controllers, Quiet
<1>16. SameLook(T[13], T[14]) /\ Quiet(T[14])
  <2>1. 14 \in 1 .. 24 /\ "COMSCANINC" \in UnseenPlain /\ 14 - 1 = 13
    BY DEF UnseenPlain
  <2> QED BY <1>2, <1>6, <1>15, <2>1
<1>17. SameLook(T[14], T[16]) /\ Quiet(T[16])
  <2>1. 15 \in 1 .. 23 /\ "SETCOMPINS" \in UnseenByte /\ 15 - 1 = 14 /\ 15 + 1 = 16
    BY DEF UnseenByte
  <2> QED BY <1>2, <1>7, <1>16, <2>1
<1>18. /\ Quiet(T[18]) /\ T[18].contrast = 207
      /\ T[18].lit = T[16].lit /\ T[18].inverted = T[16].inverted /\ T[18].flipped = T[16].flipped
  <2>1. 17 \in 1 .. 24 /\ 18 \in 1 .. 24 /\ 17 - 1 = 16 /\ 18 - 1 = 17 /\ 207 \in Nat
    OBVIOUS
  <2>2. T[18] = Obey(sh, Obey(sh, T[16], Order("SETCONTRAST")), PanelByte(207))
    BY <1>2, <1>3, <2>1
  <2> QED BY <1>4, <1>5, <1>17, <2>2, ContrastTaken
<1>19. SameLook(T[18], T[20]) /\ Quiet(T[20])
  <2>1. 19 \in 1 .. 23 /\ "SETPRECHARGE" \in UnseenByte /\ 19 - 1 = 18 /\ 19 + 1 = 20
    BY DEF UnseenByte
  <2> QED BY <1>2, <1>7, <1>18, <2>1
<1>20. SameLook(T[20], T[21]) /\ Quiet(T[21])
  <2>1. 21 \in 1 .. 24 /\ "DISPLAYALLON_RESUME" \in UnseenPlain /\ 21 - 1 = 20
    BY DEF UnseenPlain
  <2> QED BY <1>2, <1>6, <1>19, <2>1
<1>21. /\ Quiet(T[22]) /\ T[22].inverted = FALSE
      /\ T[22].lit = T[21].lit /\ T[22].flipped = T[21].flipped /\ T[22].contrast = T[21].contrast
  <2>1. T[22] = Obey(sh, T[21], Order("NORMALDISPLAY")) /\ Quiet(T[21]) /\ T[21] \in Controllers
    <3>1. 22 \in 1 .. 24 /\ 22 - 1 = 21
      OBVIOUS
    <3> QED BY <1>2, <1>3, <1>5, <1>20, <3>1
  <2>2. Order("NORMALDISPLAY").op = "NORMALDISPLAY" /\ Order("NORMALDISPLAY").n = 0
    BY DEF Order
  <2>3. T[22] = [T[21] EXCEPT !.inverted = FALSE]
    BY <2>1, <2>2 DEF Obey, Quiet
  <2> QED BY <2>1, <2>3 DEF Controllers, Quiet
<1>22. SameLook(T[22], T[23]) /\ Quiet(T[23])
  <2>1. 23 \in 1 .. 24 /\ "STOPSCROLL" \in UnseenPlain /\ 23 - 1 = 22
    BY DEF UnseenPlain
  <2> QED BY <1>2, <1>6, <1>21, <2>1
<1>23. /\ Quiet(T[24]) /\ T[24].lit = TRUE
      /\ T[24].inverted = T[23].inverted /\ T[24].flipped = T[23].flipped /\ T[24].contrast = T[23].contrast
  <2>1. T[24] = Obey(sh, T[23], Order("DISPLAYON")) /\ Quiet(T[23]) /\ T[23] \in Controllers
    <3>1. 24 \in 1 .. 24 /\ 24 - 1 = 23
      OBVIOUS
    <3> QED BY <1>2, <1>3, <1>5, <1>22, <3>1
  <2>2. Order("DISPLAYON").op = "DISPLAYON" /\ Order("DISPLAYON").n = 0
    BY DEF Order
  <2>3. T[24] = [T[23] EXCEPT !.lit = TRUE]
    BY <2>1, <2>2 DEF Obey, Quiet
  <2> QED BY <2>1, <2>3 DEF Controllers, Quiet
<1>24. T[24].lit = TRUE /\ T[24].inverted = FALSE /\ T[24].flipped = FALSE /\ T[24].contrast = 207
  BY <1>8, <1>9, <1>10, <1>11, <1>12, <1>13, <1>14, <1>15, <1>16, <1>17, <1>18, <1>19, <1>20, <1>21, <1>22, <1>23
     DEF SameLook
<1>25. T[24] \in Controllers /\ Quiet(T[24])
  BY <1>5, <1>23
<1>26. \A wish \in DOMAIN Defaults : T[24][wish] = Defaults[wish]
  <2>1. DOMAIN Defaults = {"lit", "inverted", "flipped", "contrast"}
    BY DEF Defaults
  <2>2. Defaults.lit = TRUE /\ Defaults.inverted = FALSE /\ Defaults.flipped = FALSE /\ Defaults.contrast = 207
    BY DEF Defaults
  <2> SUFFICES ASSUME NEW wish \in DOMAIN Defaults PROVE T[24][wish] = Defaults[wish]
    OBVIOUS
  <2>3. CASE wish = "lit"
    BY <1>24, <2>2, <2>3
  <2>4. CASE wish = "inverted"
    BY <1>24, <2>2, <2>4
  <2>5. CASE wish = "flipped"
    BY <1>24, <2>2, <2>5
  <2>6. CASE wish = "contrast"
    BY <1>24, <2>2, <2>6
  <2> QED BY <2>1, <2>3, <2>4, <2>5, <2>6
<1> QED BY <1>3, <1>25, <1>26 DEF list

(***************************************************************************)
(* What display() sends.                                                    *)
(***************************************************************************)
(* The box lies on the panel, or there is nothing to send.                  *)
Proper(box) ==
  /\ box.minX \in 0 .. box.maxX /\ box.maxX \in 0 .. Columns - 1
  /\ box.minY \in 0 .. box.maxY /\ box.maxY \in 0 .. PageCount - 1
NoBox(box) == box.minX = 255 /\ box.maxX = 0 /\ box.minY = 255 /\ box.maxY = 0
InBox(box, cell) == cell[1] \in box.minX .. box.maxX /\ cell[2] \in box.minY .. box.maxY

LEMMA BoxSides ==
  ASSUME NEW box, Proper(box)
  PROVE  /\ box.minX \in Nat /\ box.maxX \in Nat /\ box.minY \in Nat /\ box.maxY \in Nat
         /\ box.minX <= box.maxX /\ box.maxX < Columns /\ box.minY <= box.maxY /\ box.maxY < PageCount
         /\ BoxWidth(box) = box.maxX - box.minX + 1 /\ BoxHeight(box) = box.maxY - box.minY + 1
         /\ BoxWidth(box) \in Nat \ {0} /\ BoxHeight(box) \in Nat \ {0}
<1>1. /\ box.minX \in Nat /\ box.maxX \in Nat /\ box.minY \in Nat /\ box.maxY \in Nat
      /\ box.minX <= box.maxX /\ box.maxX < Columns /\ box.minY <= box.maxY /\ box.maxY < PageCount
  BY PanelConstants DEF Proper
<1> QED BY <1>1 DEF BoxWidth, BoxHeight

(* The two commands of the window, and their bytes.                         *)
LEMMA WindowTaken ==
  ASSUME NEW c \in Controllers, Quiet(c), NEW box, ~(driver \in SH1106s),
         box.minX \in Nat, box.maxX \in Nat, box.minY \in Nat, box.maxY \in Nat
  PROVE  /\ WindowOf(box) \in Seq(Transmissions) /\ FitsBus(WindowOf(box))
         /\ LET d == Receive(c, WindowOf(box))
            IN  /\ d \in Controllers /\ Quiet(d) /\ SameLook(c, d) /\ SameRam(c, d)
                /\ d.first = box.minX % Columns /\ d.col = box.minX % Columns /\ d.last = box.maxX % Columns
                /\ d.top = box.minY % PageCount /\ d.page = box.minY % PageCount /\ d.bottom = box.maxY % PageCount
<1> DEFINE list == <<Order("COLUMNADDR"), PanelByte(box.minX), PanelByte(box.maxX),
                     Order("PAGEADDR"), PanelByte(box.minY), PanelByte(box.maxY)>>
<1>1. list \in Seq(PanelOrders) /\ Len(list) = 6
  <2>1. Order("COLUMNADDR") \in PanelOrders /\ Order("PAGEADDR") \in PanelOrders
    <3>1. {"COLUMNADDR", "PAGEADDR"} \subseteq Operations
      BY DEF Operations
    <3> QED BY <3>1 DEF Order, PanelOrders
  <2>2. ASSUME NEW n \in Nat PROVE PanelByte(n) \in PanelOrders
    <3>1. "byte" \in Operations
      BY DEF Operations
    <3> QED BY <3>1 DEF PanelByte, PanelOrders
  <2> QED BY <2>1, <2>2
<1>2. /\ list[1] = Order("COLUMNADDR") /\ list[2] = PanelByte(box.minX) /\ list[3] = PanelByte(box.maxX)
      /\ list[4] = Order("PAGEADDR") /\ list[5] = PanelByte(box.minY) /\ list[6] = PanelByte(box.maxY)
  OBVIOUS
<1>3. WindowOf(box) = Commands(list)
  BY DEF WindowOf
<1> HIDE DEF list
<1>4. PICK T \in [0 .. 6 -> Controllers] :
        /\ T[0] = c /\ Receive(c, Commands(list)) = T[6]
        /\ \A i \in 1 .. 6 : T[i] = Obey(FALSE, T[i - 1], list[i])
  <2>1. PICK T \in [0 .. Len(list) -> Controllers] :
          /\ T[0] = c /\ Receive(c, Commands(list)) = T[Len(list)]
          /\ \A i \in 1 .. Len(list) : T[i] = Obey(driver \in SH1106s, T[i - 1], list[i])
    BY <1>1, OrdersTaken
  <2>2. \A i \in 1 .. Len(list) : T[i] = Obey(FALSE, T[i - 1], list[i])
    <3> DEFINE sh == driver \in SH1106s
    <3>1. sh = FALSE
      OBVIOUS
    <3>2. \A i \in 1 .. Len(list) : T[i] = Obey(sh, T[i - 1], list[i])
      BY <2>1
    <3> HIDE DEF sh
    <3> QED BY <3>1, <3>2
  <2> QED BY <1>1, <2>1, <2>2
<1>5. /\ T[1] = Obey(FALSE, T[0], Order("COLUMNADDR")) /\ T[2] = Obey(FALSE, T[1], PanelByte(box.minX))
      /\ T[3] = Obey(FALSE, T[2], PanelByte(box.maxX))
      /\ T[4] = Obey(FALSE, T[3], Order("PAGEADDR")) /\ T[5] = Obey(FALSE, T[4], PanelByte(box.minY))
      /\ T[6] = Obey(FALSE, T[5], PanelByte(box.maxY))
  <2>1. 1 - 1 = 0 /\ 2 - 1 = 1 /\ 3 - 1 = 2 /\ 4 - 1 = 3 /\ 5 - 1 = 4 /\ 6 - 1 = 5
    OBVIOUS
  <2>2. {1, 2, 3, 4, 5, 6} \subseteq 1 .. 6
    OBVIOUS
  <2> QED BY <1>2, <1>4, <2>1, <2>2
<1>6. T[0] \in Controllers /\ T[1] \in Controllers /\ T[2] \in Controllers /\ T[3] \in Controllers
      /\ T[4] \in Controllers /\ T[5] \in Controllers /\ T[6] \in Controllers
  OBVIOUS
<1>7. ASSUME NEW x \in Controllers, Quiet(x), NEW op \in {"COLUMNADDR", "PAGEADDR"}
      PROVE  Obey(FALSE, x, Order(op))
               = [x EXCEPT !.awaits = IF op = "COLUMNADDR" THEN <<"first", "last">> ELSE <<"top", "bottom">>]
  <2>1. Order(op).op = op
    BY DEF Order
  <2>2. Awaited(FALSE, op) = IF op = "COLUMNADDR" THEN <<"first", "last">> ELSE <<"top", "bottom">>
    BY DEF Awaited
  <2>3. Obey(FALSE, x, Order(op)) = [x EXCEPT !.awaits = Awaited(FALSE, op)]
    BY <1>7, <2>1 DEF Obey, Quiet
  <2> QED BY <2>2, <2>3
<1>8. ASSUME NEW x \in Controllers, x.awaits # <<>>, NEW n \in Nat
      PROVE  Obey(FALSE, x, PanelByte(n)) = TakeByte(x, n)
  <2>1. PanelByte(n).n = n
    BY DEF PanelByte
  <2> QED BY <1>8, <2>1 DEF Obey
<1>9. /\ <<"first", "last">> # <<>> /\ Head(<<"first", "last">>) = "first" /\ Tail(<<"first", "last">>) = <<"last">>
      /\ <<"last">> # <<>> /\ Head(<<"last">>) = "last" /\ Tail(<<"last">>) = <<>>
      /\ <<"top", "bottom">> # <<>> /\ Head(<<"top", "bottom">>) = "top" /\ Tail(<<"top", "bottom">>) = <<"bottom">>
      /\ <<"bottom">> # <<>> /\ Head(<<"bottom">>) = "bottom" /\ Tail(<<"bottom">>) = <<>>
  OBVIOUS
<1> DEFINE both == <<"first", "last">>
           two  == <<"top", "bottom">>
           one  == <<"last">>
           end  == <<"bottom">>
<1>10. T[1] = [c EXCEPT !.awaits = both]
  BY <1>4, <1>5, <1>7
<1>28. /\ \A x \in Controllers, n \in Nat : x.awaits = both =>
            Obey(FALSE, x, PanelByte(n)) = [x EXCEPT !.awaits = one, !.first = n % Columns, !.col = n % Columns]
       /\ \A x \in Controllers, n \in Nat : x.awaits = one =>
            Obey(FALSE, x, PanelByte(n)) = [x EXCEPT !.awaits = <<>>, !.last = n % Columns]
       /\ \A x \in Controllers, n \in Nat : x.awaits = two =>
            Obey(FALSE, x, PanelByte(n)) = [x EXCEPT !.awaits = end, !.top = n % PageCount, !.page = n % PageCount]
       /\ \A x \in Controllers, n \in Nat : x.awaits = end =>
            Obey(FALSE, x, PanelByte(n)) = [x EXCEPT !.awaits = <<>>, !.bottom = n % PageCount]
  <2>1. /\ both # <<>> /\ Head(both) = "first" /\ Tail(both) = one
        /\ one # <<>> /\ Head(one) = "last" /\ Tail(one) = <<>>
        /\ two # <<>> /\ Head(two) = "top" /\ Tail(two) = end /\ end # <<>> /\ Head(end) = "bottom" /\ Tail(end) = <<>>
    BY <1>9
  <2> HIDE DEF both, one, two, end
  <2>2. ASSUME NEW x \in Controllers, NEW n \in Nat, x.awaits = both
        PROVE  Obey(FALSE, x, PanelByte(n)) = [x EXCEPT !.awaits = one, !.first = n % Columns, !.col = n % Columns]
    <3>1. Obey(FALSE, x, PanelByte(n)) = TakeByte(x, n)
      BY <1>8, <2>1, <2>2
    <3> QED BY <2>1, <2>2, <3>1 DEF TakeByte
  <2>3. ASSUME NEW x \in Controllers, NEW n \in Nat, x.awaits = one
        PROVE  Obey(FALSE, x, PanelByte(n)) = [x EXCEPT !.awaits = <<>>, !.last = n % Columns]
    <3>1. Obey(FALSE, x, PanelByte(n)) = TakeByte(x, n)
      BY <1>8, <2>1, <2>3
    <3> QED BY <2>1, <2>3, <3>1 DEF TakeByte
  <2>4. ASSUME NEW x \in Controllers, NEW n \in Nat, x.awaits = two
        PROVE  Obey(FALSE, x, PanelByte(n)) = [x EXCEPT !.awaits = end, !.top = n % PageCount, !.page = n % PageCount]
    <3>1. Obey(FALSE, x, PanelByte(n)) = TakeByte(x, n)
      BY <1>8, <2>1, <2>4
    <3> QED BY <2>1, <2>4, <3>1 DEF TakeByte
  <2>5. ASSUME NEW x \in Controllers, NEW n \in Nat, x.awaits = end
        PROVE  Obey(FALSE, x, PanelByte(n)) = [x EXCEPT !.awaits = <<>>, !.bottom = n % PageCount]
    <3>1. Obey(FALSE, x, PanelByte(n)) = TakeByte(x, n)
      BY <1>8, <2>1, <2>5
    <3> QED BY <2>1, <2>5, <3>1 DEF TakeByte
  <2> QED BY <2>2, <2>3, <2>4, <2>5
<1>11. T[1].awaits = both
  BY <1>10 DEF Controllers
<1>12. T[2] = [T[1] EXCEPT !.awaits = one, !.first = box.minX % Columns, !.col = box.minX % Columns]
  BY <1>5, <1>6, <1>28, <1>11
<1>13. T[2].awaits = one
  BY <1>6, <1>12 DEF Controllers
<1>14. T[3] = [T[2] EXCEPT !.awaits = <<>>, !.last = box.maxX % Columns]
  BY <1>5, <1>6, <1>28, <1>13
<1>15. Quiet(T[3])
  BY <1>6, <1>14 DEF Controllers, Quiet
<1>16. T[4] = [T[3] EXCEPT !.awaits = two]
  BY <1>5, <1>6, <1>7, <1>15
<1>17. T[4].awaits = two
  BY <1>6, <1>16 DEF Controllers
<1>18. T[5] = [T[4] EXCEPT !.awaits = end, !.top = box.minY % PageCount, !.page = box.minY % PageCount]
  BY <1>5, <1>6, <1>28, <1>17
<1>19. T[5].awaits = end
  BY <1>6, <1>18 DEF Controllers
<1>20. T[6] = [T[5] EXCEPT !.awaits = <<>>, !.bottom = box.maxY % PageCount]
  BY <1>5, <1>6, <1>28, <1>19
<1> HIDE DEF both, two, one, end
<1>21. /\ SameLook(c, T[1]) /\ SameRam(c, T[1])
       /\ SameLook(T[1], T[2]) /\ SameRam(T[1], T[2])
       /\ T[2].first = box.minX % Columns /\ T[2].col = box.minX % Columns
  BY <1>6, <1>10, <1>12 DEF Controllers, SameLook, SameRam
<1>22. /\ SameLook(T[2], T[3]) /\ SameRam(T[2], T[3]) /\ T[3].first = T[2].first /\ T[3].col = T[2].col
       /\ T[3].last = box.maxX % Columns
       /\ SameLook(T[3], T[4]) /\ SameRam(T[3], T[4])
       /\ T[4].first = T[3].first /\ T[4].col = T[3].col /\ T[4].last = T[3].last
  BY <1>6, <1>14, <1>16 DEF Controllers, SameLook, SameRam
<1>23. /\ SameLook(T[4], T[5]) /\ SameRam(T[4], T[5])
       /\ T[5].first = T[4].first /\ T[5].col = T[4].col /\ T[5].last = T[4].last
       /\ T[5].top = box.minY % PageCount /\ T[5].page = box.minY % PageCount
  BY <1>6, <1>18 DEF Controllers, SameLook, SameRam
<1>24. /\ SameLook(T[5], T[6]) /\ SameRam(T[5], T[6])
       /\ T[6].first = T[5].first /\ T[6].col = T[5].col /\ T[6].last = T[5].last
       /\ T[6].top = T[5].top /\ T[6].page = T[5].page /\ T[6].bottom = box.maxY % PageCount /\ Quiet(T[6])
  BY <1>6, <1>20 DEF Controllers, SameLook, SameRam, Quiet
<1>25. SameLook(c, T[6]) /\ SameRam(c, T[6])
  BY <1>21, <1>22, <1>23, <1>24 DEF SameLook, SameRam
<1>26. WindowOf(box) \in Seq(Transmissions) /\ FitsBus(WindowOf(box))
  BY <1>1, <1>3, OrdersTaken
<1>27. /\ T[6].first = box.minX % Columns /\ T[6].col = box.minX % Columns /\ T[6].last = box.maxX % Columns
       /\ T[6].top = box.minY % PageCount /\ T[6].page = box.minY % PageCount /\ T[6].bottom = box.maxY % PageCount
  BY <1>21, <1>22, <1>23, <1>24
<1> QED BY <1>3, <1>4, <1>6, <1>24, <1>25, <1>26, <1>27

BoxIndex(box, cell) == (cell[1] - box.minX) + (cell[2] - box.minY) * BoxWidth(box)

LEMMA DivisionIs ==
  ASSUME NEW w \in Nat \ {0}, NEW i \in Nat
  PROVE  i % w \in 0 .. w - 1 /\ i \div w \in Nat /\ i = w * (i \div w) + (i % w)
<1>1. i \div w \in Int /\ i % w \in 0 .. w - 1 /\ i = w * (i \div w) + (i % w)
  OBVIOUS
<1>2. i \div w \in Nat
  OBVIOUS
<1> QED BY <1>1, <1>2

(* The place of a byte in the box, and the next one.                        *)
LEMMA IndexKnown ==
  ASSUME NEW box, Proper(box), NEW x \in box.minX .. box.maxX, NEW p \in box.minY .. box.maxY
  PROVE  LET w == BoxWidth(box)
             i == BoxIndex(box, <<x, p>>)
         IN  /\ i \in Nat /\ w * BoxHeight(box) \in Nat /\ i < w * BoxHeight(box)
             /\ i % w = x - box.minX /\ i \div w = p - box.minY
             /\ x < box.maxX => BoxIndex(box, <<x + 1, p>>) = i + 1
             /\ x = box.maxX /\ p < box.maxY => BoxIndex(box, <<box.minX, p + 1>>) = i + 1
             /\ x = box.maxX /\ p = box.maxY => i + 1 = w * BoxHeight(box)
<1> DEFINE w == BoxWidth(box)
           h == BoxHeight(box)
           a == x - box.minX
           v == p - box.minY
<1>1. /\ box.minX \in Nat /\ box.maxX \in Nat /\ box.minY \in Nat /\ box.maxY \in Nat
      /\ w = box.maxX - box.minX + 1 /\ h = box.maxY - box.minY + 1 /\ w \in Nat \ {0} /\ h \in Nat \ {0}
  BY BoxSides
<1>2. a \in 0 .. w - 1 /\ v \in 0 .. h - 1
  BY <1>1
<1>3. BoxIndex(box, <<x, p>>) = a + v * w
  BY DEF BoxIndex
<1>4. /\ BoxIndex(box, <<x + 1, p>>) = (a + 1) + v * w
      /\ BoxIndex(box, <<box.minX, p + 1>>) = (v + 1) * w
  <2>0. ASSUME NEW q, NEW r PROVE BoxIndex(box, <<q, r>>) = (q - box.minX) + (r - box.minY) * w
    BY DEF BoxIndex
  <2>1. (x + 1) - box.minX = a + 1 /\ box.minX - box.minX = 0 /\ (p + 1) - box.minY = v + 1
    BY <1>1
  <2>2. BoxIndex(box, <<x + 1, p>>) = ((x + 1) - box.minX) + v * w
    BY <2>0, Zenon
  <2>3. BoxIndex(box, <<box.minX, p + 1>>) = (box.minX - box.minX) + ((p + 1) - box.minY) * w
    BY <2>0, Zenon
  <2>4. (v + 1) * w \in Int
    BY <1>1, <1>2
  <2> QED BY <2>1, <2>2, <2>3, <2>4
<1> HIDE DEF w, h, a, v
<1>5. (a + v * w) % w = a /\ (a + v * w) \div w = v
  <2>1. w \in Nat \ {0} /\ a \in 0 .. w - 1 /\ v \in Nat
    BY <1>1, <1>2
  <2> QED BY <2>1, RowAndColumn, Zenon
<1>6. v * w \in Nat /\ (v + 1) * w = v * w + w /\ w * h \in Nat
  BY <1>1, <1>2
<1>7. (v + 1) * w <= w * h /\ (v + 1 = h => (v + 1) * w = w * h)
  <2>1. v + 1 \in Nat /\ v + 1 <= h
    BY <1>1, <1>2
  <2>2. (v + 1) * w <= h * w
    BY <1>1, <2>1
  <2>3. h * w = w * h
    BY <1>1
  <2> QED BY <2>2, <2>3
<1>8. a + v * w \in Nat /\ a + v * w < w * h
  BY <1>1, <1>2, <1>6, <1>7
<1>9. (x < box.maxX => (a + 1) + v * w = (a + v * w) + 1)
  BY <1>1, <1>2, <1>6
<1>10. x = box.maxX => a = w - 1
  BY <1>1 DEF a
<1>11. (x = box.maxX /\ p < box.maxY => (v + 1) * w = (a + v * w) + 1)
  BY <1>1, <1>6, <1>10
<1>12. (x = box.maxX /\ p = box.maxY => (a + v * w) + 1 = w * h)
  <2>1. p = box.maxY => v + 1 = h
    BY <1>1 DEF v
  <2> QED BY <1>1, <1>6, <1>7, <1>10, <2>1
<1>13. a = x - box.minX /\ v = p - box.minY /\ w = BoxWidth(box) /\ h = BoxHeight(box)
  BY DEF a, v, w, h
<1> QED BY <1>3, <1>4, <1>5, <1>6, <1>8, <1>9, <1>11, <1>12, <1>13

(* The box row by row: the byte at a place is that of the cell there.       *)
LEMMA BoxBytesAre ==
  ASSUME NEW box, Proper(box), oledBuffer \in [Cells -> CellByte]
  PROVE  /\ BoxBytes(box) \in Seq(CellByte) /\ Len(BoxBytes(box)) = BoxWidth(box) * BoxHeight(box)
         /\ \A x \in box.minX .. box.maxX, p \in box.minY .. box.maxY :
              BoxBytes(box)[BoxIndex(box, <<x, p>>) + 1] = oledBuffer[<<x, p>>]
<1> DEFINE w == BoxWidth(box)
           h == BoxHeight(box)
           At(k) == oledBuffer[<<box.minX + ((k - 1) % w), box.minY + ((k - 1) \div w)>>]
<1>1. /\ box.minX \in Nat /\ box.maxX \in Nat /\ box.minY \in Nat /\ box.maxY \in Nat
      /\ w = box.maxX - box.minX + 1 /\ h = box.maxY - box.minY + 1 /\ w \in Nat \ {0} /\ h \in Nat \ {0}
      /\ box.maxX < Columns /\ box.maxY < PageCount
  BY BoxSides
<1>2. BoxBytes(box) = [k \in 1 .. w * h |-> At(k)]
  BY DEF BoxBytes
<1> HIDE DEF w, h
<1>3. w * h \in Nat
  BY <1>1
<1>4. ASSUME NEW k \in 1 .. w * h PROVE At(k) \in CellByte
  <2> DEFINE i == k - 1
  <2>1. i \in Nat /\ i < w * h
    BY <1>3
  <2> HIDE DEF i
  <2>2. i % w \in 0 .. w - 1 /\ i \div w \in Nat /\ i = w * (i \div w) + (i % w)
    BY <1>1, <2>1, DivisionIs
  <2>3. i \div w <= h - 1
    <3> SUFFICES ASSUME i \div w >= h PROVE FALSE
      BY <1>1, <2>2
    <3>1. w * (i \div w) >= w * h
      BY <1>1, <2>2
    <3>2. w * (i \div w) \in Nat /\ i % w \in Nat
      BY <1>1, <2>2
    <3> QED BY <1>3, <2>1, <2>2, <3>1, <3>2
  <2>4. <<box.minX + (i % w), box.minY + (i \div w)>> \in Cells
    <3> DEFINE r == i % w
               q == i \div w
    <3>2. r \in 0 .. w - 1 /\ q \in 0 .. h - 1
      BY <1>1, <2>2, <2>3
    <3> HIDE DEF r, q
    <3>3. box.minX + r \in 0 .. Columns - 1 /\ box.minY + q \in 0 .. PageCount - 1
      BY <1>1, <3>2, PanelConstants
    <3>1. box.minX + (i % w) \in 0 .. Columns - 1 /\ box.minY + (i \div w) \in 0 .. PageCount - 1
      BY <3>3 DEF r, q
    <3> QED BY <3>1 DEF Cells
  <2> QED BY <2>4 DEF i
<1>5. BoxBytes(box) \in Seq(CellByte) /\ Len(BoxBytes(box)) = w * h
  <2> DEFINE n == w * h
  <2>1. n \in Nat /\ \A k \in 1 .. n : At(k) \in CellByte
    BY <1>3, <1>4
  <2>2. BoxBytes(box) = [k \in 1 .. n |-> At(k)]
    BY <1>2
  <2> HIDE DEF n, At
  <2>3. BoxBytes(box) \in [1 .. n -> CellByte]
    BY <2>1, <2>2
  <2>4. BoxBytes(box) \in Seq(CellByte) /\ Len(BoxBytes(box)) = n
    BY <2>1, <2>3
  <2> QED BY <2>4 DEF n
<1>6. ASSUME NEW x \in box.minX .. box.maxX, NEW p \in box.minY .. box.maxY
      PROVE  BoxBytes(box)[BoxIndex(box, <<x, p>>) + 1] = oledBuffer[<<x, p>>]
  <2> DEFINE i == BoxIndex(box, <<x, p>>)
  <2>1. i \in Nat /\ i < w * h /\ i % w = x - box.minX /\ i \div w = p - box.minY
    BY IndexKnown DEF w, h
  <2> HIDE DEF i
  <2>2. i + 1 \in 1 .. w * h /\ (i + 1) - 1 = i
    BY <1>3, <2>1
  <2>3. BoxBytes(box)[i + 1] = oledBuffer[<<box.minX + (i % w), box.minY + (i \div w)>>]
    BY <1>2, <2>2
  <2>4. box.minX + (i % w) = x /\ box.minY + (i \div w) = p
    BY <1>1, <2>1
  <2> QED BY <2>3, <2>4 DEF i
<1> QED BY <1>5, <1>6 DEF w, h

(* After j bytes into the window of a SSD1306.                              *)
WindowPlace(c, box, j) ==
  {x \in Controllers :
     /\ Quiet(x) /\ SameLook(c, x)
     /\ x.first = box.minX /\ x.last = box.maxX /\ x.top = box.minY /\ x.bottom = box.maxY
     /\ \A cell \in Ram : x.ram[cell] = IF InBox(box, cell) /\ BoxIndex(box, cell) < j
                                        THEN oledBuffer[cell] ELSE c.ram[cell]
     /\ j < BoxWidth(box) * BoxHeight(box) =>
          /\ x.col \in box.minX .. box.maxX /\ x.page \in box.minY .. box.maxY
          /\ BoxIndex(box, <<x.col, x.page>>) = j}

LEMMA WindowPlaced ==
  ASSUME NEW c \in Controllers, NEW box, Proper(box), ~(driver \in SH1106s), oledBuffer \in [Cells -> CellByte],
         NEW j \in 0 .. BoxWidth(box) * BoxHeight(box) - 1, NEW x \in WindowPlace(c, box, j)
  PROVE  PutByte(driver \in SH1106s, x, BoxBytes(box)[j + 1]) \in WindowPlace(c, box, j + 1)
<1> DEFINE w == BoxWidth(box)
           h == BoxHeight(box)
           byte == BoxBytes(box)[j + 1]
           y == PutByte(driver \in SH1106s, x, byte)
           here == <<x.col, x.page>>
<1>1. /\ box.minX \in Nat /\ box.maxX \in Nat /\ box.minY \in Nat /\ box.maxY \in Nat
      /\ box.minX <= box.maxX /\ box.maxX < Columns /\ box.minY <= box.maxY /\ box.maxY < PageCount
      /\ Columns \in Nat \ {0} /\ PageCount \in Nat \ {0}
  BY BoxSides, PanelConstants
<1>2. /\ x \in Controllers /\ Quiet(x) /\ SameLook(c, x)
      /\ x.first = box.minX /\ x.last = box.maxX /\ x.top = box.minY /\ x.bottom = box.maxY
      /\ \A cell \in Ram : x.ram[cell] = IF InBox(box, cell) /\ BoxIndex(box, cell) < j
                                         THEN oledBuffer[cell] ELSE c.ram[cell]
      /\ x.col \in box.minX .. box.maxX /\ x.page \in box.minY .. box.maxY
      /\ BoxIndex(box, here) = j
  <2> DEFINE n == BoxWidth(box) * BoxHeight(box)
  <2>1. n \in Nat
    <3>1. BoxWidth(box) \in Nat /\ BoxHeight(box) \in Nat
      BY BoxSides
    <3> QED BY <3>1
  <2>2. j < n
    <3> HIDE DEF n
    <3>1. j \in 0 .. n - 1
      BY DEF n
    <3> QED BY <2>1, <3>1
  <2> QED BY <2>2 DEF WindowPlace
<1>3. /\ w * h \in Nat /\ j % w = x.col - box.minX /\ j \div w = x.page - box.minY
      /\ x.col < box.maxX => BoxIndex(box, <<x.col + 1, x.page>>) = j + 1
      /\ x.col = box.maxX /\ x.page < box.maxY => BoxIndex(box, <<box.minX, x.page + 1>>) = j + 1
      /\ x.col = box.maxX /\ x.page = box.maxY => j + 1 = w * h
  BY <1>2, IndexKnown
<1>4. byte = oledBuffer[here] /\ here \in Cells /\ here \in Ram /\ InBox(box, here) /\ byte \in CellByte
  <2>1. byte = oledBuffer[here]
    BY <1>2, BoxBytesAre
  <2>2. x.col \in 0 .. Columns - 1 /\ x.page \in 0 .. PageCount - 1 /\ x.col \in 0 .. Columns + 3
    BY <1>1, <1>2
  <2>3. here \in Cells /\ here \in Ram
    BY <2>2 DEF Cells, Ram
  <2>4. InBox(box, here)
    BY <1>2 DEF InBox
  <2> QED BY <2>1, <2>3, <2>4
<1> HIDE DEF byte
<1>5. y \in Controllers
  <2> DEFINE sh == driver \in SH1106s
  <2>1. sh \in BOOLEAN
    OBVIOUS
  <2> HIDE DEF sh
  <2>2. PutByte(sh, x, byte) \in Controllers
    BY <1>2, <1>4, <2>1, PutTyped
  <2> QED BY <2>2 DEF sh
<1> DEFINE ram == [x.ram EXCEPT ![here] = byte]
           stored == [x EXCEPT !.ram = ram]
<1>6. y = IF x.col # x.last THEN [stored EXCEPT !.col = (x.col + 1) % Columns]
          ELSE [stored EXCEPT !.col = x.first, !.page = IF x.page = x.bottom THEN x.top ELSE (x.page + 1) % PageCount]
  <2>1. [x EXCEPT !.ram[<<x.col, x.page>>] = byte] = stored
    BY <1>2 DEF Controllers
  <2>2. stored.col = x.col /\ stored.page = x.page
    BY <1>2 DEF Controllers
  <2> HIDE DEF stored
  <2>3. y = IF x.col # x.last THEN [stored EXCEPT !.col = (@ + 1) % Columns]
            ELSE [stored EXCEPT !.col = x.first, !.page = IF x.page = x.bottom THEN x.top ELSE (@ + 1) % PageCount]
    BY <2>1 DEF PutByte
  <2> QED BY <2>2, <2>3
<1>7. stored \in Controllers /\ stored.ram = ram /\ Quiet(stored) /\ SameLook(c, stored)
      /\ stored.first = box.minX /\ stored.last = box.maxX /\ stored.top = box.minY /\ stored.bottom = box.maxY
  <2>1. ram \in [Ram -> CellByte]
    BY <1>2, <1>4 DEF Controllers
  <2> HIDE DEF ram
  <2> QED BY <1>2, <2>1 DEF Controllers, Quiet, SameLook
<1> HIDE DEF stored, ram, y
<1>8. /\ y.ram = ram /\ Quiet(y) /\ SameLook(c, y)
      /\ y.first = box.minX /\ y.last = box.maxX /\ y.top = box.minY /\ y.bottom = box.maxY
      /\ x.col # x.last => y.col = (x.col + 1) % Columns /\ y.page = stored.page
      /\ x.col = x.last => y.col = x.first /\ y.page = IF x.page = x.bottom THEN x.top ELSE (x.page + 1) % PageCount
  BY <1>6, <1>7 DEF Controllers, Quiet, SameLook
<1>9. stored.page = x.page
  BY <1>2 DEF stored, Controllers
<1>10. ASSUME NEW cell \in Ram
       PROVE  ram[cell] = IF InBox(box, cell) /\ BoxIndex(box, cell) < j + 1 THEN oledBuffer[cell] ELSE c.ram[cell]
  <2>1. x.ram \in [Ram -> CellByte]
    BY <1>2 DEF Controllers
  <2>2. CASE cell = here
    <3>1. ram[cell] = byte
      BY <1>4, <2>1, <2>2 DEF ram
    <3>2. BoxIndex(box, cell) < j + 1
      BY <1>2, <2>2
    <3> QED BY <1>4, <2>2, <3>1, <3>2
  <2>3. CASE cell # here
    <3>1. ram[cell] = x.ram[cell]
      BY <2>1, <2>3 DEF ram
    <3>2. InBox(box, cell) => BoxIndex(box, cell) \in Nat /\ BoxIndex(box, cell) # j
      <4> SUFFICES ASSUME InBox(box, cell) PROVE BoxIndex(box, cell) \in Nat /\ BoxIndex(box, cell) # j
        OBVIOUS
      <4>1. cell = <<cell[1], cell[2]>> /\ cell[1] \in Int /\ cell[2] \in Int
        BY DEF Ram
      <4>2. cell[1] \in box.minX .. box.maxX /\ cell[2] \in box.minY .. box.maxY
        BY DEF InBox
      <4> DEFINE i == BoxIndex(box, cell)
      <4>3. i \in Nat /\ i % w = cell[1] - box.minX /\ i \div w = cell[2] - box.minY
        <5>1. i = BoxIndex(box, <<cell[1], cell[2]>>)
          BY <4>1
        <5> HIDE DEF i
        <5> QED BY <4>2, <5>1, IndexKnown
      <4> HIDE DEF i
      <4>4. ASSUME i = j PROVE FALSE
        <5>1. cell[1] - box.minX = x.col - box.minX /\ cell[2] - box.minY = x.page - box.minY
          BY <1>3, <4>3, <4>4
        <5>2. cell[1] = x.col /\ cell[2] = x.page
          BY <1>1, <1>2, <4>1, <5>1
        <5> QED BY <2>3, <4>1, <5>2
      <4> QED BY <4>3, <4>4 DEF i
    <3>3. InBox(box, cell) => (BoxIndex(box, cell) < j <=> BoxIndex(box, cell) < j + 1)
      BY <1>3, <3>2
    <3> QED BY <1>2, <3>1, <3>3
  <2> QED BY <2>2, <2>3
<1>11. ASSUME j + 1 < w * h
       PROVE  /\ y.col \in box.minX .. box.maxX /\ y.page \in box.minY .. box.maxY
              /\ BoxIndex(box, <<y.col, y.page>>) = j + 1
  <2>1. x.col \in Nat /\ x.page \in Nat
    BY <1>1, <1>2
  <2>2. CASE x.col # box.maxX
    <3>1. x.col < box.maxX /\ (x.col + 1) % Columns = x.col + 1
      BY <1>1, <1>2, <2>1, <2>2
    <3>2. y.col = x.col + 1 /\ y.page = x.page
      BY <1>2, <1>8, <1>9, <2>2, <3>1
    <3> QED BY <1>1, <1>2, <1>3, <2>1, <3>1, <3>2
  <2>3. CASE x.col = box.maxX
    <3>1. x.page # box.maxY
      BY <1>3, <1>11, <2>3
    <3>2. x.page < box.maxY /\ (x.page + 1) % PageCount = x.page + 1
      BY <1>1, <1>2, <2>1, <3>1
    <3>3. y.col = box.minX /\ y.page = x.page + 1
      BY <1>2, <1>8, <2>3, <3>1, <3>2
    <3> QED BY <1>1, <1>2, <1>3, <2>1, <2>3, <3>2, <3>3
  <2> QED BY <2>2, <2>3
<1>12. y \in WindowPlace(c, box, j + 1)
  BY <1>5, <1>8, <1>10, <1>11 DEF WindowPlace
<1> QED BY <1>12 DEF y, byte

(* A row's place, for a SH1106: its column in two halves.                   *)
LEMMA RowTaken ==
  ASSUME NEW c \in Controllers, Quiet(c), NEW box, driver \in SH1106s, box.minX \in Nat, NEW y \in Nat
  PROVE  /\ RowAt(box, y) \in Seq(Transmissions) /\ FitsBus(RowAt(box, y))
         /\ LET d == Receive(c, RowAt(box, y))
            IN  /\ d \in Controllers /\ Quiet(d) /\ SameLook(c, d) /\ SameRam(c, d)
                /\ d.page = y /\ d.col = box.minX + 2
<1> DEFINE n    == box.minX + 2
           low  == n % NIBBLE
           high == n \div NIBBLE
           list == <<[op |-> "page", n |-> y], [op |-> "low", n |-> low], [op |-> "high", n |-> high]>>
<1>1. n \in Nat /\ NIBBLE \in Nat \ {0} /\ low \in 0 .. NIBBLE - 1 /\ high \in Nat /\ n = NIBBLE * high + low
  <2>1. n \in Nat /\ NIBBLE \in Nat \ {0}
    BY PanelConstants
  <2> HIDE DEF n
  <2> QED BY <2>1, DivisionIs
<1>2. RowAt(box, y) = Commands(list)
  BY DEF RowAt, ColumnOf
<1> HIDE DEF n, low, high
<1>3. low \in Nat
  BY <1>1
<1>4. list \in Seq(PanelOrders) /\ Len(list) = 3
  <2>1. [op |-> "page", n |-> y] \in PanelOrders /\ [op |-> "low", n |-> low] \in PanelOrders
        /\ [op |-> "high", n |-> high] \in PanelOrders
    <3>1. "page" \in Operations /\ "low" \in Operations /\ "high" \in Operations
      BY DEF Operations
    <3> QED BY <1>1, <1>3, <3>1 DEF PanelOrders
  <2> QED BY <2>1
<1>5. /\ list[1].op = "page" /\ list[1].n = y /\ list[2].op = "low" /\ list[2].n = low
      /\ list[3].op = "high" /\ list[3].n = high
  OBVIOUS
<1> HIDE DEF list
<1>6. PICK T \in [0 .. 3 -> Controllers] :
        /\ T[0] = c /\ Receive(c, Commands(list)) = T[3]
        /\ \A i \in 1 .. 3 : T[i] = Obey(TRUE, T[i - 1], list[i])
  <2>1. PICK T \in [0 .. Len(list) -> Controllers] :
          /\ T[0] = c /\ Receive(c, Commands(list)) = T[Len(list)]
          /\ \A i \in 1 .. Len(list) : T[i] = Obey(driver \in SH1106s, T[i - 1], list[i])
    BY <1>4, OrdersTaken
  <2>2. \A i \in 1 .. Len(list) : T[i] = Obey(TRUE, T[i - 1], list[i])
    <3> DEFINE sh == driver \in SH1106s
    <3>1. sh = TRUE
      OBVIOUS
    <3>2. \A i \in 1 .. Len(list) : T[i] = Obey(sh, T[i - 1], list[i])
      BY <2>1
    <3> HIDE DEF sh
    <3> QED BY <3>1, <3>2
  <2> QED BY <1>4, <2>1, <2>2
<1>7. /\ T[1] = Obey(TRUE, T[0], list[1]) /\ T[2] = Obey(TRUE, T[1], list[2]) /\ T[3] = Obey(TRUE, T[2], list[3])
      /\ T[0] \in Controllers /\ T[1] \in Controllers /\ T[2] \in Controllers /\ T[3] \in Controllers
  <2>1. 1 - 1 = 0 /\ 2 - 1 = 1 /\ 3 - 1 = 2
    OBVIOUS
  <2>2. {1, 2, 3} \subseteq 1 .. 3
    OBVIOUS
  <2>3. T[1] = Obey(TRUE, T[0], list[1]) /\ T[2] = Obey(TRUE, T[1], list[2]) /\ T[3] = Obey(TRUE, T[2], list[3])
    BY <1>6, <2>1, <2>2
  <2>4. {0, 1, 2, 3} \subseteq 0 .. 3
    OBVIOUS
  <2> QED BY <2>3, <2>4
<1>8. T[1] = [c EXCEPT !.page = y]
  BY <1>5, <1>6, <1>7 DEF Obey, Quiet
<1>9. Quiet(T[1]) /\ T[1].page = y /\ SameLook(c, T[1]) /\ SameRam(c, T[1])
  BY <1>8 DEF Controllers, Quiet, SameLook, SameRam
<1> DEFINE old == (T[1].col \div NIBBLE) * NIBBLE
<1>10. T[2] = [T[1] EXCEPT !.col = old + low]
  BY <1>5, <1>7, <1>9 DEF Obey, Quiet
<1>11. Quiet(T[2]) /\ T[2].page = y /\ SameLook(c, T[2]) /\ SameRam(c, T[2]) /\ T[2].col = old + low
  BY <1>7, <1>9, <1>10 DEF Controllers, Quiet, SameLook, SameRam
<1>12. (old + low) % NIBBLE = low
  <2>1. T[1].col \div NIBBLE \in Nat
    <3>1. T[1].col \in Nat
      BY <1>7 DEF Controllers
    <3> QED BY <1>1, <3>1, DivisionIs
  <2> DEFINE q == T[1].col \div NIBBLE
  <2> HIDE DEF q
  <2>2. (low + q * NIBBLE) % NIBBLE = low
    BY <1>1, <2>1, RowAndColumn, Zenon DEF q
  <2>3. q * NIBBLE + low = low + q * NIBBLE
    <3>1. q * NIBBLE \in Int
      BY <1>1, <2>1 DEF q
    <3> QED BY <1>3, <3>1
  <2> QED BY <2>2, <2>3 DEF q
<1> HIDE DEF old
<1>13. T[3] = [T[2] EXCEPT !.col = low + NIBBLE * high]
  <2>1. T[3] = [T[2] EXCEPT !.col = (T[2].col % NIBBLE) + NIBBLE * list[3].n]
    BY <1>5, <1>7, <1>11 DEF Obey, Quiet
  <2> QED BY <1>5, <1>11, <1>12, <2>1
<1>14. low + NIBBLE * high = n
  <2>1. NIBBLE * high \in Int
    BY <1>1
  <2> QED BY <1>1, <1>3, <2>1
<1>15. Quiet(T[3]) /\ T[3].page = y /\ SameLook(c, T[3]) /\ SameRam(c, T[3]) /\ T[3].col = n
  BY <1>7, <1>11, <1>13, <1>14 DEF Controllers, Quiet, SameLook, SameRam
<1>16. RowAt(box, y) \in Seq(Transmissions) /\ FitsBus(RowAt(box, y))
  BY <1>2, <1>4, OrdersTaken
<1> QED BY <1>2, <1>6, <1>7, <1>15, <1>16 DEF n

(* After j bytes of a row.                                                  *)
RowPlace(c, box, y, j) ==
  {x \in Controllers :
     /\ Quiet(x) /\ SameLook(c, x) /\ x.page = y /\ x.col = box.minX + 2 + j
     /\ \A cell \in Ram : x.ram[cell] = IF cell[2] = y /\ cell[1] \in box.minX + 2 .. box.minX + 1 + j
                                        THEN oledBuffer[<<cell[1] - 2, y>>] ELSE c.ram[cell]}

LEMMA RowBytePlaced ==
  ASSUME NEW c \in Controllers, NEW box, Proper(box), driver \in SH1106s, oledBuffer \in [Cells -> CellByte],
         NEW y \in box.minY .. box.maxY, NEW j \in 0 .. BoxWidth(box) - 1, NEW x \in RowPlace(c, box, y, j)
  PROVE  PutByte(driver \in SH1106s, x, Row(box, y)[j + 1]) \in RowPlace(c, box, y, j + 1)
<1> DEFINE byte == Row(box, y)[j + 1]
           z == PutByte(driver \in SH1106s, x, byte)
           here == <<x.col, x.page>>
<1>1. /\ box.minX \in Nat /\ box.maxX \in Nat /\ box.minY \in Nat /\ box.maxY \in Nat
      /\ box.minX <= box.maxX /\ box.maxX < Columns /\ box.minY <= box.maxY /\ box.maxY < PageCount
      /\ BoxWidth(box) = box.maxX - box.minX + 1 /\ Columns \in Nat \ {0} /\ PageCount \in Nat \ {0}
  BY BoxSides, PanelConstants
<1>2. /\ x \in Controllers /\ Quiet(x) /\ SameLook(c, x) /\ x.page = y /\ x.col = box.minX + 2 + j
      /\ \A cell \in Ram : x.ram[cell] = IF cell[2] = y /\ cell[1] \in box.minX + 2 .. box.minX + 1 + j
                                         THEN oledBuffer[<<cell[1] - 2, y>>] ELSE c.ram[cell]
  BY DEF RowPlace
<1>3. j \in Nat /\ y \in Nat /\ box.minX + j <= box.maxX /\ j + 1 \in 1 .. BoxWidth(box)
      /\ x.col = (box.minX + j) + 2 /\ x.col < Columns + 3
  BY <1>1, <1>2
<1>4. byte = oledBuffer[<<box.minX + j, y>>] /\ byte \in CellByte /\ here \in Ram
  <2>1. Row(box, y)[j + 1] = oledBuffer[<<box.minX + (j + 1) - 1, y>>]
    BY <1>3 DEF Row
  <2>2. box.minX + (j + 1) - 1 = box.minX + j
    BY <1>1, <1>3
  <2>3. <<box.minX + j, y>> \in Cells
    <3>1. box.minX + j \in 0 .. Columns - 1 /\ y \in 0 .. PageCount - 1
      BY <1>1, <1>3
    <3> QED BY <3>1 DEF Cells
  <2>4. here \in Ram
    <3>1. x.col \in 0 .. Columns + 3 /\ x.page \in 0 .. PageCount - 1
      BY <1>1, <1>2, <1>3
    <3> QED BY <3>1 DEF Ram
  <2> QED BY <2>1, <2>2, <2>3, <2>4
<1> HIDE DEF byte
<1>5. z \in Controllers
  <2> DEFINE sh == driver \in SH1106s
  <2>1. sh \in BOOLEAN
    OBVIOUS
  <2> HIDE DEF sh
  <2>2. PutByte(sh, x, byte) \in Controllers
    BY <1>2, <1>4, <2>1, PutTyped
  <2> QED BY <2>2 DEF sh
<1> DEFINE ram == [x.ram EXCEPT ![here] = byte]
<1>6. z = [[x EXCEPT !.ram = ram] EXCEPT !.col = x.col + 1]
  <2> DEFINE stored == [x EXCEPT !.ram = ram]
  <2>1. [x EXCEPT !.ram[<<x.col, x.page>>] = byte] = stored
    BY <1>2 DEF Controllers
  <2>2. stored.col = x.col
    BY <1>2 DEF Controllers
  <2> HIDE DEF stored
  <2>3. z = [stored EXCEPT !.col = IF x.col < Columns + 3 THEN @ + 1 ELSE @]
    BY <2>1 DEF PutByte
  <2>4. z = [stored EXCEPT !.col = x.col + 1]
    BY <1>3, <2>2, <2>3
  <2> QED BY <2>4 DEF stored
<1>7. ram \in [Ram -> CellByte] /\ x.ram \in [Ram -> CellByte]
  BY <1>2, <1>4 DEF Controllers
<1>8. ASSUME NEW cell \in Ram
      PROVE  ram[cell] = IF cell[2] = y /\ cell[1] \in box.minX + 2 .. box.minX + 1 + (j + 1)
                         THEN oledBuffer[<<cell[1] - 2, y>>] ELSE c.ram[cell]
  <2>1. cell = <<cell[1], cell[2]>> /\ cell[1] \in Int /\ cell[2] \in Int
    BY DEF Ram
  <2>2. CASE cell = here
    <3>1. ram[cell] = byte
      BY <1>4, <1>7, <2>2
    <3>2. cell[1] = (box.minX + j) + 2 /\ cell[2] = y
      BY <1>2, <1>3, <2>2
    <3>3. cell[1] - 2 = box.minX + j /\ cell[1] \in box.minX + 2 .. box.minX + 1 + (j + 1)
      BY <1>1, <1>3, <3>2
    <3> QED BY <1>4, <3>1, <3>2, <3>3
  <2>3. CASE cell # here
    <3>1. ram[cell] = x.ram[cell]
      BY <1>7, <2>3
    <3>2. cell[2] = y => cell[1] # (box.minX + j) + 2
      BY <1>2, <1>3, <2>1, <2>3
    <3>3. cell[2] = y => (cell[1] \in box.minX + 2 .. box.minX + 1 + j
                            <=> cell[1] \in box.minX + 2 .. box.minX + 1 + (j + 1))
      BY <1>1, <1>3, <2>1, <3>2
    <3> QED BY <1>2, <3>1, <3>3
  <2> QED BY <2>2, <2>3
<1> HIDE DEF ram
<1>9. /\ z.ram = ram /\ Quiet(z) /\ SameLook(c, z) /\ z.page = y /\ z.col = x.col + 1
  BY <1>2, <1>6 DEF Controllers, Quiet, SameLook
<1>10. x.col + 1 = box.minX + 2 + (j + 1)
  BY <1>1, <1>3
<1> HIDE DEF z
<1>11. z \in RowPlace(c, box, y, j + 1)
  BY <1>5, <1>8, <1>9, <1>10 DEF RowPlace
<1> QED BY <1>11 DEF z, byte

LEMMA FitsBoth ==
  ASSUME NEW s \in Seq(Transmissions), NEW t \in Seq(Transmissions), FitsBus(s), FitsBus(t)
  PROVE  FitsBus(s \o t)
<1> DEFINE a == Len(s)
           b == Len(t)
           u == s \o t
<1>1. /\ a \in Nat /\ b \in Nat /\ u \in Seq(Transmissions) /\ Len(u) = a + b
      /\ \A i \in 1 .. a + b : u[i] = IF i <= a THEN s[i] ELSE t[i - a]
  BY ConcatProperties, LenProperties
<1>2. DOMAIN u = 1 .. a + b /\ DOMAIN s = 1 .. a /\ DOMAIN t = 1 .. b
  <2>1. DOMAIN u = 1 .. Len(u) /\ DOMAIN s = 1 .. Len(s) /\ DOMAIN t = 1 .. Len(t)
    <3> HIDE DEF u
    <3> QED BY <1>1, LenProperties
  <2> QED BY <1>1, <2>1
<1> HIDE DEF a, b, u
<1> SUFFICES ASSUME NEW i \in 1 .. a + b, u[i].data PROVE Len(u[i].of) \in 0 .. CHUNK
  BY <1>2 DEF FitsBus, u
<1>3. CASE i <= a
  <2>1. i \in 1 .. a /\ u[i] = s[i]
    BY <1>1, <1>3
  <2> QED BY <1>2, <2>1 DEF FitsBus
<1>4. CASE ~(i <= a)
  <2>1. i - a \in 1 .. b /\ u[i] = t[i - a]
    BY <1>1, <1>4
  <2> QED BY <1>2, <2>1 DEF FitsBus
<1> QED BY <1>3, <1>4

LEMMA RowArrives ==
  ASSUME NEW c \in Controllers, Quiet(c), NEW box, Proper(box), driver \in SH1106s, oledBuffer \in [Cells -> CellByte],
         NEW y \in box.minY .. box.maxY
  PROVE  LET bytes == Row(box, y)
             w == BoxWidth(box)
         IN  /\ RowAt(box, y) \o Packets(bytes) \in Seq(Transmissions)
             /\ FitsBus(RowAt(box, y) \o Packets(bytes))
             /\ RowAt(box, y) \o <<Data(bytes)>> \in Seq(Transmissions)
             /\ Receive(c, RowAt(box, y) \o Packets(bytes)) \in RowPlace(c, box, y, w)
             /\ Receive(c, RowAt(box, y) \o <<Data(bytes)>>) \in RowPlace(c, box, y, w)
<1> DEFINE bytes == Row(box, y)
           w     == BoxWidth(box)
           at    == RowAt(box, y)
           d     == Receive(c, at)
           D     == [j \in 0 .. w |-> RowPlace(c, box, y, j)]
<1>1. /\ box.minX \in Nat /\ box.maxX \in Nat /\ y \in Nat /\ box.maxX < Columns /\ w = box.maxX - box.minX + 1
      /\ w \in Nat \ {0} /\ y \in 0 .. PageCount - 1 /\ Columns \in Nat
  <2>1. box.minY \in Nat /\ box.maxY \in Nat /\ box.maxY < PageCount /\ PageCount \in Nat
    BY BoxSides, PanelConstants
  <2> QED BY <2>1, BoxSides, PanelConstants
<1>2. bytes \in Seq(CellByte) /\ Len(bytes) = w
  <2>1. ASSUME NEW k \in 1 .. w PROVE oledBuffer[<<box.minX + k - 1, y>>] \in CellByte
    <3>1. box.minX + k - 1 \in 0 .. Columns - 1
      BY <1>1
    <3>2. <<box.minX + k - 1, y>> \in Cells
      BY <1>1, <3>1 DEF Cells
    <3> QED BY <3>2
  <2>2. bytes \in [1 .. w -> CellByte]
    BY <2>1 DEF Row
  <2> HIDE DEF bytes, w
  <2> QED BY <1>1, <2>2
<1>3. at \in Seq(Transmissions) /\ FitsBus(at) /\ d \in Controllers /\ Quiet(d) /\ SameLook(c, d) /\ SameRam(c, d)
      /\ d.page = y /\ d.col = box.minX + 2
  BY <1>1, RowTaken
<1>4. BytePlaces(D, bytes)
  <2>1. D \in [0 .. w -> SUBSET Controllers]
    BY DEF RowPlace
  <2>2. ASSUME NEW m \in 0 .. w - 1, NEW x \in D[m]
        PROVE  PutByte(driver \in SH1106s, x, bytes[m + 1]) \in D[m + 1]
    <3>1. D[m] = RowPlace(c, box, y, m) /\ D[m + 1] = RowPlace(c, box, y, m + 1)
      BY <1>1
    <3> HIDE DEF D
    <3> QED BY <2>2, <3>1, RowBytePlaced
  <2> HIDE DEF D, bytes, w
  <2> QED BY <1>2, <2>1, <2>2 DEF BytePlaces
<1>5. d \in D[0] /\ D[w] = RowPlace(c, box, y, w)
  <2>1. D[0] = RowPlace(c, box, y, 0) /\ D[w] = RowPlace(c, box, y, w)
    BY <1>1
  <2>2. \A cell \in Ram : ~(cell[1] \in box.minX + 2 .. box.minX + 1 + 0)
    BY <1>1
  <2>3. \A cell \in Ram : d.ram[cell] = c.ram[cell]
    BY <1>3 DEF SameRam
  <2>4. box.minX + 2 = box.minX + 2 + 0
    BY <1>1
  <2> HIDE DEF D, d
  <2>5. d \in RowPlace(c, box, y, 0)
    BY <1>3, <2>2, <2>3, <2>4 DEF RowPlace
  <2> QED BY <2>1, <2>5
<1> HIDE DEF bytes, D, at, w
<1>6. Packets(bytes) \in Seq(Transmissions) /\ FitsBus(Packets(bytes)) /\ Receive(d, Packets(bytes)) \in D[w]
  BY <1>2, <1>4, <1>5, PacketsAre, DataArrives
<1>7. /\ Data(bytes) \in Transmissions /\ <<Data(bytes)>> \in Seq(Transmissions)
      /\ Receive(d, <<Data(bytes)>>) \in D[w]
  <2>1. Data(bytes) \in Transmissions /\ Took1(d, Data(bytes)) \in D[w]
    BY <1>2, <1>4, <1>5, PacketPlaced
  <2> QED BY <1>3, <2>1, ReceiveOne
<1>8. /\ at \o Packets(bytes) \in Seq(Transmissions) /\ Receive(c, at \o Packets(bytes)) \in D[w]
      /\ at \o <<Data(bytes)>> \in Seq(Transmissions) /\ Receive(c, at \o <<Data(bytes)>>) \in D[w]
  BY <1>3, <1>6, <1>7, ReceiveBoth
<1>9. FitsBus(at \o Packets(bytes))
  BY <1>3, <1>6, FitsBoth
<1> QED BY <1>5, <1>8, <1>9 DEF bytes, at, w

(***************************************************************************)
(* All rows.                                                                *)
(***************************************************************************)
SentOn(x, parts, i) == x \o parts[i]

LEMMA RowsSentAre ==
  ASSUME NEW parts \in Seq(Seq(Transmissions))
  PROVE  /\ Len(parts) \in Nat
         /\ RowsSending(parts) \in [0 .. Len(parts) -> Seq(Transmissions)] /\ RowsSending(parts)[0] = <<>>
         /\ \A i \in 1 .. Len(parts) : RowsSending(parts)[i] = RowsSending(parts)[i - 1] \o parts[i]
<1> DEFINE n == Len(parts)
           S == Seq(Transmissions)
           F == [p \in (1 .. n) \X S |-> SentOn(p[2], parts, p[1])]
           Is(f) == f = [i \in 0 .. n |-> IF i = 0 THEN <<>> ELSE SentOn(f[i - 1], parts, i)]
           T == RowsSending(parts)
<1>1. n \in Nat /\ \A i \in 1 .. n : parts[i] \in S
  BY LenProperties, ElementOfSeq
<1>2. \A i \in 1 .. n, x \in S : SentOn(x, parts, i) \in S
  BY <1>1, ConcatProperties DEF SentOn
<1>3. F \in [(1 .. n) \X S -> S]
  <2> HIDE DEF S
  <2> QED BY <1>2
<1>4. \A i \in 1 .. n, x \in S : F[<<i, x>>] = SentOn(x, parts, i)
  <2> HIDE DEF S
  <2> QED OBVIOUS
<1>5. <<>> \in S
  OBVIOUS
<1> HIDE DEF F, S
<1>6. PICK f : Loops(f, S, F, <<>>, n)
  BY <1>1, <1>3, <1>5, LoopExists
<1>7. f \in [0 .. n -> S] /\ f[0] = <<>> /\ \A i \in 1 .. n : f[i] = SentOn(f[i - 1], parts, i)
  <2>1. f \in [0 .. n -> S] /\ f[0] = <<>> /\ \A i \in 1 .. n : f[i] = F[<<i, f[i - 1]>>]
    BY <1>6 DEF Loops
  <2>2. \A i \in 1 .. n : i - 1 \in 0 .. n
    BY <1>1
  <2> QED BY <1>4, <2>1, <2>2
<1>8. Is(f)
  <2>1. \A i \in 0 .. n : f[i] = IF i = 0 THEN <<>> ELSE SentOn(f[i - 1], parts, i)
    BY <1>1, <1>7
  <2>2. f = [i \in 0 .. n |-> f[i]]
    BY <1>7
  <2> QED BY <2>1, <2>2
<1>9. T = CHOOSE g : Is(g)
  BY DEF RowsSending, SentOn
<1>10. Is(T)
  BY <1>8, <1>9
<1>11. T[0] = <<>> /\ \A i \in 1 .. n : T[i] = SentOn(T[i - 1], parts, i)
  <2> HIDE DEF T, n
  <2>1. T = [i \in 0 .. n |-> IF i = 0 THEN <<>> ELSE SentOn(T[i - 1], parts, i)]
    BY <1>10
  <2>2. 0 \in 0 .. n /\ \A i \in 1 .. n : i \in 0 .. n /\ i # 0
    BY <1>1
  <2> QED BY <2>1, <2>2
<1>12. \A i \in 0 .. n : T[i] \in S
  <2> DEFINE P == {i \in 0 .. n : T[i] \in S}
  <2>1. 0 \in P
    BY <1>1, <1>5, <1>11
  <2>2. \A i \in 1 .. n : i - 1 \in P => i \in P
    BY <1>1, <1>2, <1>11
  <2>3. 0 .. n \subseteq P
    <3> HIDE DEF P
    <3> QED BY <1>1, <2>1, <2>2, EveryTurn
  <2> QED BY <2>3
<1>13. T \in [0 .. n -> S]
  <2>1. DOMAIN T = 0 .. n /\ T = [i \in DOMAIN T |-> T[i]]
    <3> HIDE DEF T
    <3> QED BY <1>10
  <2> QED BY <1>12, <2>1
<1> HIDE DEF T, n
<1>14. \A i \in 1 .. n : T[i] = T[i - 1] \o parts[i]
  BY <1>11 DEF SentOn
<1> QED BY <1>1, <1>11, <1>13, <1>14 DEF S, T, n

(* A controller that is in E[k - 1] is in E[k] after the k-th row.          *)
LEMMA RowsArrive ==
  ASSUME NEW parts \in Seq(Seq(Transmissions)), NEW E, NEW c \in E[0],
         E \in [0 .. Len(parts) -> SUBSET Controllers],
         \A k \in 1 .. Len(parts) : \A x \in E[k - 1] : Receive(x, parts[k]) \in E[k]
  PROVE  /\ EveryRow(parts) \in Seq(Transmissions) /\ Receive(c, EveryRow(parts)) \in E[Len(parts)]
         /\ (\A k \in 1 .. Len(parts) : FitsBus(parts[k])) => FitsBus(EveryRow(parts))
<1> DEFINE n == Len(parts)
           S == RowsSending(parts)
           P == {k \in 0 .. n : Receive(c, S[k]) \in E[k]}
           Q == {k \in 0 .. n : FitsBus(S[k])}
<1>1. /\ n \in Nat /\ S \in [0 .. n -> Seq(Transmissions)] /\ S[0] = <<>>
      /\ \A i \in 1 .. n : S[i] = S[i - 1] \o parts[i] /\ S[i - 1] \in Seq(Transmissions)
      /\ \A i \in 1 .. n : parts[i] \in Seq(Transmissions)
  <2>1. /\ n \in Nat /\ S \in [0 .. n -> Seq(Transmissions)] /\ S[0] = <<>>
        /\ \A i \in 1 .. n : S[i] = S[i - 1] \o parts[i]
    BY RowsSentAre
  <2>2. \A i \in 1 .. n : i - 1 \in 0 .. n
    BY <2>1
  <2> QED BY <2>1, <2>2, ElementOfSeq
<1>2. EveryRow(parts) = S[n]
  BY DEF EveryRow
<1>3. c \in Controllers
  <2>1. 0 \in 0 .. n
    BY <1>1
  <2> QED BY <2>1
<1> HIDE DEF S, n
<1>4. 0 \in P
  BY <1>1, <1>3, ReceiveNone
<1>5. ASSUME NEW k \in 1 .. n, k - 1 \in P PROVE k \in P
  <2> DEFINE s == S[k - 1]
             t == parts[k]
  <2>0. s \in Seq(Transmissions) /\ t \in Seq(Transmissions) /\ S[k] = s \o t
    BY <1>1
  <2> HIDE DEF s, t
  <2>2. Receive(c, s \o t) = Receive(Receive(c, s), t)
    BY <1>3, <2>0, ReceiveBoth
  <2>1. Receive(c, S[k]) = Receive(Receive(c, S[k - 1]), parts[k])
    BY <2>0, <2>2 DEF s, t
  <2> QED BY <1>1, <1>5, <2>1 DEF n
<1>6. n \in P
  <2>1. 0 .. n \subseteq P
    <3> HIDE DEF P
    <3> QED BY <1>1, <1>4, <1>5, EveryTurn
  <2> QED BY <1>1, <2>1
<1>7. ASSUME \A k \in 1 .. n : FitsBus(parts[k]) PROVE FitsBus(S[n])
  <2>1. 0 \in Q
    <3>1. FitsBus(<<>>)
      BY DEF FitsBus
    <3> QED BY <1>1, <3>1
  <2>2. ASSUME NEW k \in 1 .. n, k - 1 \in Q PROVE k \in Q
    <3> DEFINE s == S[k - 1]
               t == parts[k]
    <3>1. s \in Seq(Transmissions) /\ t \in Seq(Transmissions) /\ S[k] = s \o t /\ FitsBus(s) /\ FitsBus(t)
      BY <1>1, <1>7, <2>2
    <3> HIDE DEF s, t
    <3>2. FitsBus(s \o t)
      BY <3>1, FitsBoth
    <3>3. FitsBus(S[k])
      BY <3>1, <3>2, Zenon
    <3>4. k \in 0 .. n
      BY <1>1
    <3> QED BY <3>3, <3>4
  <2>3. 0 .. n \subseteq Q
    <3> HIDE DEF Q
    <3> QED BY <1>1, <2>1, <2>2, EveryTurn
  <2> QED BY <1>1, <2>3
<1>8. S[n] \in Seq(Transmissions)
  BY <1>1
<1> QED BY <1>2, <1>6, <1>7, <1>8 DEF n

(* After k rows of a box in a SH1106.                                       *)
RowsPlace(c, box, k) ==
  {x \in Controllers :
     /\ Quiet(x) /\ SameLook(c, x)
     /\ \A cell \in Ram :
          x.ram[cell] = IF /\ cell[1] \in box.minX + 2 .. box.maxX + 2
                           /\ cell[2] \in box.minY .. box.minY + k - 1
                        THEN oledBuffer[<<cell[1] - 2, cell[2]>>] ELSE c.ram[cell]}

LEMMA RowsPlaced ==
  ASSUME NEW c \in Controllers, Quiet(c), NEW box, Proper(box), driver \in SH1106s, oledBuffer \in [Cells -> CellByte],
         NEW k \in 1 .. BoxHeight(box), NEW x \in RowsPlace(c, box, k - 1)
  PROVE  LET y == box.minY + k - 1
         IN  /\ y \in box.minY .. box.maxY /\ x \in Controllers /\ Quiet(x)
             /\ RowPlace(x, box, y, BoxWidth(box)) \subseteq RowsPlace(c, box, k)
<1> DEFINE y == box.minY + k - 1
<1>1. /\ box.minX \in Nat /\ box.maxX \in Nat /\ box.minY \in Nat /\ box.maxY \in Nat
      /\ BoxWidth(box) = box.maxX - box.minX + 1 /\ BoxHeight(box) = box.maxY - box.minY + 1
  BY BoxSides
<1>2. y \in box.minY .. box.maxY /\ y \in Nat
  BY <1>1
<1>3. /\ x \in Controllers /\ Quiet(x) /\ SameLook(c, x)
      /\ \A cell \in Ram :
           x.ram[cell] = IF /\ cell[1] \in box.minX + 2 .. box.maxX + 2
                            /\ cell[2] \in box.minY .. box.minY + (k - 1) - 1
                         THEN oledBuffer[<<cell[1] - 2, cell[2]>>] ELSE c.ram[cell]
  BY DEF RowsPlace
<1>4. ASSUME NEW z \in RowPlace(x, box, y, BoxWidth(box)) PROVE z \in RowsPlace(c, box, k)
  <2>1. /\ z \in Controllers /\ Quiet(z) /\ SameLook(x, z)
        /\ \A cell \in Ram :
             z.ram[cell] = IF cell[2] = y /\ cell[1] \in box.minX + 2 .. box.minX + 1 + BoxWidth(box)
                           THEN oledBuffer[<<cell[1] - 2, y>>] ELSE x.ram[cell]
    BY DEF RowPlace
  <2>2. SameLook(c, z)
    BY <1>3, <2>1 DEF SameLook
  <2>3. box.minX + 1 + BoxWidth(box) = box.maxX + 2
    BY <1>1
  <2>4. \A p \in Int : /\ (p = y => ~(p \in box.minY .. box.minY + (k - 1) - 1) /\ p \in box.minY .. box.minY + k - 1)
                       /\ (p # y => (p \in box.minY .. box.minY + (k - 1) - 1 <=> p \in box.minY .. box.minY + k - 1))
    BY <1>1
  <2> HIDE DEF y
  <2>5. ASSUME NEW cell \in Ram
        PROVE  z.ram[cell] = IF /\ cell[1] \in box.minX + 2 .. box.maxX + 2
                                /\ cell[2] \in box.minY .. box.minY + k - 1
                             THEN oledBuffer[<<cell[1] - 2, cell[2]>>] ELSE c.ram[cell]
    <3>1. cell[2] \in Int
      BY DEF Ram
    <3>2. CASE cell[2] = y
      BY <1>3, <2>1, <2>3, <2>4, <3>1, <3>2
    <3>3. CASE cell[2] # y
      BY <1>3, <2>1, <2>3, <2>4, <3>1, <3>3
    <3> QED BY <3>2, <3>3
  <2> QED BY <2>1, <2>2, <2>5 DEF RowsPlace
<1> QED BY <1>2, <1>3, <1>4

(***************************************************************************)
(* The box.                                                                 *)
(***************************************************************************)
LEMMA MinIs ==
  ASSUME NEW T, T \subseteq Nat, T # {}
  PROVE  Min(T) \in T /\ \A y \in T : Min(T) <= y
<1>1. PICK m \in T : \A y \in T : m <= y
  BY LeastOne
<1>2. Min(T) = CHOOSE x \in T : \A y \in T : x <= y
  BY DEF Min
<1> QED BY <1>1, <1>2

LEMMA MaxIs ==
  ASSUME NEW n \in Nat, NEW T, T \subseteq 0 .. n, T # {}
  PROVE  Max(T) \in T /\ \A y \in T : Max(T) >= y
<1> DEFINE U == {k \in 0 .. n : n - k \in T}
<1>1. U \subseteq Nat
  OBVIOUS
<1>2. U # {}
  <2>1. PICK y \in T : TRUE
    OBVIOUS
  <2>2. n - y \in 0 .. n /\ n - (n - y) = y
    OBVIOUS
  <2> QED BY <2>1, <2>2
<1>3. PICK m \in U : \A k \in U : m <= k
  <2> HIDE DEF U
  <2> QED BY <1>1, <1>2, LeastOne
<1>4. n - m \in T /\ \A y \in T : n - m >= y
  <2>1. n - m \in T
    BY <1>3
  <2>2. ASSUME NEW y \in T PROVE n - m >= y
    <3>1. y \in 0 .. n /\ n - y \in 0 .. n /\ n - (n - y) = y
      OBVIOUS
    <3>2. n - y \in U
      BY <3>1
    <3>3. m <= n - y
      BY <1>3, <3>2
    <3> QED BY <1>3, <3>1, <3>3
  <2> QED BY <2>1, <2>2
<1>5. Max(T) = CHOOSE x \in T : \A y \in T : x >= y
  BY DEF Max
<1> QED BY <1>4, <1>5

LEMMA BoundsAre ==
  ASSUME NEW dirty, dirty \subseteq Cells
  PROVE  /\ dirty = {} => NoBox(Bounds(dirty))
         /\ dirty # {} => Proper(Bounds(dirty))
         /\ \A cell \in dirty : InBox(Bounds(dirty), cell)
<1>1. CASE dirty = {}
  BY <1>1 DEF Bounds, NoBox
<1>2. CASE dirty # {}
  <2> DEFINE Across == {cell[1] : cell \in dirty}
             Down == {cell[2] : cell \in dirty}
  <2>1. Across \subseteq 0 .. Columns - 1 /\ Down \subseteq 0 .. PageCount - 1 /\ Across # {} /\ Down # {}
    BY <1>2 DEF Cells
  <2>2. Columns - 1 \in Nat /\ PageCount - 1 \in Nat
    BY PanelConstants
  <2>3. Bounds(dirty) = [minX |-> Min(Across), maxX |-> Max(Across), minY |-> Min(Down), maxY |-> Max(Down)]
    BY <1>2 DEF Bounds
  <2>4. \A cell \in dirty : cell[1] \in Across /\ cell[2] \in Down
    OBVIOUS
  <2> HIDE DEF Across, Down
  <2>5. Across \subseteq Nat /\ Down \subseteq Nat
    BY <2>1, <2>2
  <2>6. Min(Across) \in Across /\ Min(Down) \in Down /\ (\A x \in Across : Min(Across) <= x) /\ (\A y \in Down : Min(Down) <= y)
    BY <2>1, <2>5, MinIs
  <2>7. Max(Across) \in Across /\ \A x \in Across : Max(Across) >= x
    BY <2>1, <2>2, MaxIs
  <2>8. Max(Down) \in Down /\ \A y \in Down : Max(Down) >= y
    BY <2>1, <2>2, MaxIs
  <2> DEFINE l == Min(Across)
             r == Max(Across)
             t == Min(Down)
             b == Max(Down)
  <2>9. /\ Bounds(dirty) = [minX |-> l, maxX |-> r, minY |-> t, maxY |-> b]
        /\ l \in Across /\ r \in Across /\ (\A x \in Across : x \in Int /\ l <= x /\ x <= r)
        /\ t \in Down /\ b \in Down /\ (\A y \in Down : y \in Int /\ t <= y /\ y <= b)
    <3>1. l \in Across /\ r \in Across /\ t \in Down /\ b \in Down
      BY <2>6, <2>7, <2>8
    <3>2. \A x \in Across : l <= x /\ r >= x
      BY <2>6, <2>7
    <3>3. \A y \in Down : t <= y /\ b >= y
      BY <2>6, <2>8
    <3>4. Bounds(dirty) = [minX |-> l, maxX |-> r, minY |-> t, maxY |-> b]
      BY <2>3
    <3> HIDE DEF l, r, t, b
    <3> QED BY <2>5, <3>1, <3>2, <3>3, <3>4
  <2> HIDE DEF l, r, t, b
  <2>10. Proper(Bounds(dirty))
    <3>1. l \in 0 .. Columns - 1 /\ r \in 0 .. Columns - 1 /\ t \in 0 .. PageCount - 1 /\ b \in 0 .. PageCount - 1
      BY <2>1, <2>9
    <3>2. l <= r /\ t <= b
      BY <2>9
    <3> QED BY <2>2, <2>9, <3>1, <3>2 DEF Proper
  <2>11. ASSUME NEW cell \in dirty PROVE InBox(Bounds(dirty), cell)
    <3>1. cell[1] \in Across /\ cell[2] \in Down
      BY <2>4
    <3>2. cell[1] \in l .. r /\ cell[2] \in t .. b
      BY <2>9, <3>1
    <3> QED BY <2>9, <3>2 DEF InBox
  <2> QED BY <1>2, <2>10, <2>11
<1> QED BY <1>1, <1>2

(* The panel as display() leaves it: its bytes inside of the box are the    *)
(* buffer's, and nothing else has changed.                                  *)
BoxDrawn(c, d, box) ==
  /\ d \in Controllers /\ Quiet(d) /\ SameLook(c, d)
  /\ \A cell \in Cells : Visible(d)[cell] = IF InBox(box, cell) THEN oledBuffer[cell] ELSE Visible(c)[cell]

LEMMA NoByteTaken ==
  ASSUME NEW c \in Controllers
  PROVE  <<Data(<<>>)>> \in Seq(Transmissions) /\ FitsBus(<<Data(<<>>)>>) /\ Receive(c, <<Data(<<>>)>>) = c
<1> DEFINE none == <<>>
           D == [j \in 0 .. 0 |-> {c}]
<1>1. none \in Seq(CellByte) /\ Len(none) = 0
  OBVIOUS
<1>2. c \in D[0] /\ D[0] = {c} /\ D \in [0 .. 0 -> SUBSET Controllers]
  OBVIOUS
<1> HIDE DEF none, D
<1>3. BytePlaces(D, none)
  <2>1. D \in [0 .. Len(none) -> SUBSET Controllers]
    BY <1>1, <1>2
  <2>2. \A m \in 0 .. Len(none) - 1 : FALSE
    BY <1>1
  <2> QED BY <2>1, <2>2 DEF BytePlaces
<1>4. Data(none) \in Transmissions /\ Took1(c, Data(none)) \in D[Len(none)]
  BY <1>1, <1>2, <1>3, PacketPlaced
<1> DEFINE packet == Data(none)
<1>5. packet \in Transmissions /\ Took1(c, packet) = c /\ packet.of = none
  BY <1>1, <1>2, <1>4 DEF Data
<1> HIDE DEF packet
<1>6. <<packet>> \in Seq(Transmissions) /\ Receive(c, <<packet>>) = c
  BY <1>5, ReceiveOne
<1>7. FitsBus(<<packet>>)
  <2>1. 0 \in 0 .. CHUNK
    BY PanelConstants
  <2>2. \A i \in DOMAIN <<packet>> : <<packet>>[i] = packet
    OBVIOUS
  <2> QED BY <1>1, <1>5, <2>1, <2>2 DEF FitsBus
<1> QED BY <1>6, <1>7 DEF packet, none

(* A SSD1306 that is told the window and gets all bytes of it, in chunks, in *)
(* one run, or with a packet behind.                                        *)
LEMMA WindowSent ==
  ASSUME NEW c \in Controllers, Quiet(c), ~(driver \in SH1106s), NEW box,
         box.minX \in Nat, box.maxX \in Nat, box.minY \in Nat, box.maxY \in Nat, BoxBytes(box) \in Seq(CellByte),
         NEW D, BytePlaces(D, BoxBytes(box)), Receive(c, WindowOf(box)) \in D[0]
  PROVE  /\ \A sent \in {displaySSD1306Wire(box), displaySSD1306Spi(box), displaySSD1306Brzo(box)} :
              sent \in Seq(Transmissions) /\ Receive(c, sent) \in D[Len(BoxBytes(box))]
         /\ FitsBus(displaySSD1306Wire(box)) /\ FitsBus(displaySSD1306Brzo(box))
<1> DEFINE bytes  == BoxBytes(box)
           window == WindowOf(box)
           d      == Receive(c, window)
           none   == <<Data(<<>>)>>
           goal   == D[Len(bytes)]
<1>1. window \in Seq(Transmissions) /\ FitsBus(window) /\ d \in Controllers
  BY WindowTaken
<1> HIDE DEF window
<1>2. goal \subseteq Controllers
  <2>1. Len(bytes) \in 0 .. Len(bytes)
    BY LenProperties
  <2> QED BY <2>1 DEF BytePlaces
<1>3. d \in D[0] /\ bytes \in Seq(CellByte) /\ BytePlaces(D, bytes)
  BY DEF window
<1> HIDE DEF bytes, d
<1> DEFINE chunks == Packets(bytes)
           run    == <<Data(bytes)>>
<1>4. chunks \in Seq(Transmissions) /\ FitsBus(chunks) /\ Receive(d, chunks) \in goal
  BY <1>3, PacketsAre, DataArrives
<1>5. run \in Seq(Transmissions) /\ Receive(d, run) \in goal
  <2>1. Data(bytes) \in Transmissions /\ Took1(d, Data(bytes)) \in goal
    BY <1>3, PacketPlaced
  <2> QED BY <1>1, <2>1, ReceiveOne
<1> HIDE DEF chunks, run, none, goal
<1>6. /\ window \o chunks \in Seq(Transmissions) /\ FitsBus(window \o chunks)
      /\ Receive(c, window \o chunks) \in goal
  <2>1. Receive(c, window \o chunks) = Receive(d, chunks)
    BY <1>1, <1>4, ReceiveBoth DEF d
  <2>2. window \o chunks \in Seq(Transmissions) /\ FitsBus(window \o chunks)
    BY <1>1, <1>4, ReceiveBoth, FitsBoth
  <2> QED BY <1>4, <2>1, <2>2
<1>7. /\ window \o run \in Seq(Transmissions) /\ Receive(c, window \o run) \in goal
  <2>1. Receive(c, window \o run) = Receive(d, run)
    BY <1>1, <1>5, ReceiveBoth DEF d
  <2>2. window \o run \in Seq(Transmissions)
    BY <1>1, <1>5, ReceiveBoth
  <2> QED BY <1>5, <2>1, <2>2
<1>8. LET all == window \o chunks \o none
      IN  all \in Seq(Transmissions) /\ FitsBus(all) /\ Receive(c, all) \in goal
  <2> DEFINE s == window \o chunks
  <2>1. s \in Seq(Transmissions) /\ FitsBus(s) /\ Receive(c, s) \in goal /\ Receive(c, s) \in Controllers
    BY <1>2, <1>6 DEF goal
  <2> HIDE DEF s
  <2>2. none \in Seq(Transmissions) /\ FitsBus(none) /\ Receive(Receive(c, s), none) = Receive(c, s)
    BY <2>1, NoByteTaken DEF none
  <2>3. s \o none \in Seq(Transmissions) /\ FitsBus(s \o none) /\ Receive(c, s \o none) = Receive(c, s)
    BY <2>1, <2>2, ReceiveBoth, FitsBoth
  <2>4. s \o none \in Seq(Transmissions) /\ FitsBus(s \o none) /\ Receive(c, s \o none) \in goal
    BY <2>1, <2>3
  <2> QED BY <2>4 DEF s
<1>9. LET all == window \o chunks \o <<>>
      IN  all \in Seq(Transmissions) /\ FitsBus(all) /\ Receive(c, all) \in goal
  <2> DEFINE s == window \o chunks
  <2>1. s \in Seq(Transmissions) /\ FitsBus(s) /\ Receive(c, s) \in goal
    BY <1>6
  <2> HIDE DEF s
  <2>2. s \o <<>> = s
    BY <2>1
  <2>3. s \o <<>> \in Seq(Transmissions) /\ FitsBus(s \o <<>>) /\ Receive(c, s \o <<>>) \in goal
    BY <2>1, <2>2
  <2> QED BY <2>3 DEF s
<1>10. displaySSD1306Wire(box) = window \o chunks /\ displaySSD1306Spi(box) = window \o run
  BY DEF displaySSD1306Wire, displaySSD1306Spi, window, chunks, run, bytes
<1>11. displaySSD1306Brzo(box) = window \o chunks \o none \/ displaySSD1306Brzo(box) = window \o chunks \o <<>>
  BY DEF displaySSD1306Brzo, window, chunks, none, bytes
<1>12. /\ displaySSD1306Brzo(box) \in Seq(Transmissions) /\ FitsBus(displaySSD1306Brzo(box))
       /\ Receive(c, displaySSD1306Brzo(box)) \in goal
  BY <1>8, <1>9, <1>11
<1> QED BY <1>6, <1>7, <1>10, <1>12 DEF goal, bytes

LEMMA WindowDrawn ==
  ASSUME NEW c \in Controllers, Quiet(c), ~(driver \in SH1106s), NEW box, Proper(box),
         oledBuffer \in [Cells -> CellByte], NEW d \in WindowPlace(c, box, BoxWidth(box) * BoxHeight(box))
  PROVE  BoxDrawn(c, d, box)
<1> DEFINE n == BoxWidth(box) * BoxHeight(box)
<1>1. /\ d \in Controllers /\ Quiet(d) /\ SameLook(c, d)
      /\ \A cell \in Ram : d.ram[cell] = IF InBox(box, cell) /\ BoxIndex(box, cell) < n
                                         THEN oledBuffer[cell] ELSE c.ram[cell]
  BY DEF WindowPlace
<1> HIDE DEF n
<1>2. ASSUME NEW cell \in Cells
      PROVE  Visible(d)[cell] = IF InBox(box, cell) THEN oledBuffer[cell] ELSE Visible(c)[cell]
  <2>1. PICK x \in 0 .. Columns - 1, p \in 0 .. PageCount - 1 : cell = <<x, p>>
    BY DEF Cells
  <2>2. x + 0 = x /\ <<x, p>> \in Ram
    BY <2>1, PanelConstants DEF Ram
  <2>3. Visible(d)[cell] = d.ram[<<x, p>>] /\ Visible(c)[cell] = c.ram[<<x, p>>]
    BY <2>1, <2>2 DEF Visible
  <2>4. InBox(box, <<x, p>>) => BoxIndex(box, <<x, p>>) < n
    <3>1. ASSUME InBox(box, <<x, p>>) PROVE x \in box.minX .. box.maxX /\ p \in box.minY .. box.maxY
      BY <3>1 DEF InBox
    <3> QED BY <3>1, IndexKnown DEF n
  <2>5. d.ram[<<x, p>>] = IF InBox(box, <<x, p>>) THEN oledBuffer[<<x, p>>] ELSE c.ram[<<x, p>>]
    BY <1>1, <2>2, <2>4
  <2> QED BY <2>1, <2>3, <2>5
<1> QED BY <1>1, <1>2 DEF BoxDrawn

(* The window is ready for the first byte.                                  *)
LEMMA WindowReady ==
  ASSUME NEW c \in Controllers, Quiet(c), ~(driver \in SH1106s), NEW box, Proper(box),
         oledBuffer \in [Cells -> CellByte]
  PROVE  Receive(c, WindowOf(box)) \in WindowPlace(c, box, 0)
<1> DEFINE d == Receive(c, WindowOf(box))
<1>1. /\ box.minX \in Nat /\ box.maxX \in Nat /\ box.minY \in Nat /\ box.maxY \in Nat
      /\ box.minX <= box.maxX /\ box.maxX < Columns /\ box.minY <= box.maxY /\ box.maxY < PageCount
      /\ Columns \in Nat \ {0} /\ PageCount \in Nat \ {0}
  BY BoxSides, PanelConstants
<1>2. /\ d \in Controllers /\ Quiet(d) /\ SameLook(c, d) /\ SameRam(c, d)
      /\ d.first = box.minX % Columns /\ d.col = box.minX % Columns /\ d.last = box.maxX % Columns
      /\ d.top = box.minY % PageCount /\ d.page = box.minY % PageCount /\ d.bottom = box.maxY % PageCount
  BY <1>1, WindowTaken
<1> HIDE DEF d
<1>3. ASSUME NEW w \in Nat \ {0}, NEW n \in 0 .. w - 1 PROVE n % w = n
  <2>1. (n + 0 * w) % w = n
    BY RowAndColumn
  <2> QED BY <2>1
<1>4. /\ box.minX % Columns = box.minX /\ box.maxX % Columns = box.maxX
      /\ box.minY % PageCount = box.minY /\ box.maxY % PageCount = box.maxY
  <2>1. box.minX \in 0 .. Columns - 1 /\ box.maxX \in 0 .. Columns - 1
    BY <1>1
  <2>2. box.minY \in 0 .. PageCount - 1 /\ box.maxY \in 0 .. PageCount - 1
    BY <1>1
  <2> QED BY <1>1, <1>3, <2>1, <2>2
<1>5. /\ d.first = box.minX /\ d.last = box.maxX /\ d.top = box.minY /\ d.bottom = box.maxY
      /\ d.col = box.minX /\ d.page = box.minY
  BY <1>2, <1>4
<1>6. BoxIndex(box, <<d.col, d.page>>) = 0
  <2>1. BoxWidth(box) \in Nat
    BY BoxSides
  <2>2. (box.minX - box.minX) + (box.minY - box.minY) * BoxWidth(box) = 0
    BY <1>1, <2>1
  <2> QED BY <1>5, <2>2 DEF BoxIndex
<1>7. \A cell \in Ram : ~(InBox(box, cell) /\ BoxIndex(box, cell) < 0)
  <2> SUFFICES ASSUME NEW cell \in Ram, InBox(box, cell) PROVE ~(BoxIndex(box, cell) < 0)
    OBVIOUS
  <2>1. PICK x \in Int, p \in Int : cell = <<x, p>>
    BY DEF Ram
  <2>2. x \in box.minX .. box.maxX /\ p \in box.minY .. box.maxY
    BY <2>1 DEF InBox
  <2>3. BoxIndex(box, <<x, p>>) \in Nat
    BY <2>2, IndexKnown
  <2> QED BY <2>1, <2>3
<1>8. d.col \in box.minX .. box.maxX /\ d.page \in box.minY .. box.maxY
  BY <1>1, <1>5
<1>9. \A cell \in Ram : d.ram[cell] = IF InBox(box, cell) /\ BoxIndex(box, cell) < 0
                                      THEN oledBuffer[cell] ELSE c.ram[cell]
  BY <1>2, <1>7 DEF SameRam
<1>10. d \in WindowPlace(c, box, 0)
  BY <1>2, <1>5, <1>6, <1>8, <1>9 DEF WindowPlace
<1> QED BY <1>10 DEF d

LEMMA NothingBytes ==
  ASSUME NEW box, NoBox(box)
  PROVE  /\ BoxWidth(box) = 0 /\ BoxHeight(box) = 0 /\ BoxBytes(box) = <<>>
         /\ \A cell \in Cells : ~InBox(box, cell)
<1>1. BoxWidth(box) = 0 /\ BoxHeight(box) = 0
  BY DEF NoBox, BoxWidth, BoxHeight
<1>2. BoxBytes(box) = <<>>
  BY <1>1 DEF BoxBytes
<1>3. \A cell \in Cells : ~InBox(box, cell)
  BY DEF NoBox, InBox
<1> QED BY <1>1, <1>2, <1>3

(* Only the look of the memory is asked for: a controller with the same is  *)
(* drawn as nothing.                                                        *)
LEMMA NothingDrawn ==
  ASSUME NEW c \in Controllers, NEW d \in Controllers, Quiet(d), SameLook(c, d), SameRam(c, d), NEW box, NoBox(box)
  PROVE  BoxDrawn(c, d, box)
<1>1. Visible(d) = Visible(c)
  BY DEF Visible, SameRam
<1> QED BY <1>1, NothingBytes DEF BoxDrawn

LEMMA WindowShown ==
  ASSUME NEW c \in Controllers, Quiet(c), ~(driver \in SH1106s), NEW box, Proper(box) \/ NoBox(box),
         oledBuffer \in [Cells -> CellByte]
  PROVE  /\ \A sent \in {displaySSD1306Wire(box), displaySSD1306Spi(box), displaySSD1306Brzo(box)} :
              sent \in Seq(Transmissions) /\ BoxDrawn(c, Receive(c, sent), box)
         /\ FitsBus(displaySSD1306Wire(box)) /\ FitsBus(displaySSD1306Brzo(box))
<1> DEFINE bytes == BoxBytes(box)
<1>1. CASE Proper(box)
  <2> DEFINE n == BoxWidth(box) * BoxHeight(box)
             D == [j \in 0 .. n |-> WindowPlace(c, box, j)]
  <2>1. bytes \in Seq(CellByte) /\ Len(bytes) = n /\ n \in Nat
    <3>1. bytes \in Seq(CellByte) /\ Len(bytes) = n
      BY <1>1, BoxBytesAre
    <3> HIDE DEF bytes, n
    <3> QED BY <3>1, LenProperties
  <2>2. BytePlaces(D, bytes)
    <3>1. D \in [0 .. n -> SUBSET Controllers]
      BY DEF WindowPlace
    <3>2. ASSUME NEW m \in 0 .. n - 1, NEW x \in D[m]
          PROVE  PutByte(driver \in SH1106s, x, bytes[m + 1]) \in D[m + 1]
      <4>1. D[m] = WindowPlace(c, box, m) /\ D[m + 1] = WindowPlace(c, box, m + 1)
        <5> HIDE DEF n
        <5>1. m \in 0 .. n /\ m + 1 \in 0 .. n
          BY <2>1
        <5> QED BY <5>1
      <4> HIDE DEF D
      <4> QED BY <1>1, <3>2, <4>1, WindowPlaced
    <3> HIDE DEF D, bytes, n
    <3> QED BY <2>1, <3>1, <3>2 DEF BytePlaces
  <2>3. Receive(c, WindowOf(box)) \in D[0]
    <3>1. D[0] = WindowPlace(c, box, 0)
      <4> HIDE DEF n
      <4> QED BY <2>1
    <3> HIDE DEF D
    <3> QED BY <1>1, <3>1, WindowReady
  <2>4. /\ box.minX \in Nat /\ box.maxX \in Nat /\ box.minY \in Nat /\ box.maxY \in Nat
    BY <1>1, BoxSides
  <2>5. D[n] = WindowPlace(c, box, n)
    <3> HIDE DEF n
    <3> QED BY <2>1
  <2> HIDE DEF D, n
  <2>6. /\ \A sent \in {displaySSD1306Wire(box), displaySSD1306Spi(box), displaySSD1306Brzo(box)} :
              sent \in Seq(Transmissions) /\ Receive(c, sent) \in D[n]
        /\ FitsBus(displaySSD1306Wire(box)) /\ FitsBus(displaySSD1306Brzo(box))
    BY <2>1, <2>2, <2>3, <2>4, WindowSent
  <2>7. \A d \in D[n] : BoxDrawn(c, d, box)
    BY <1>1, <2>5, WindowDrawn DEF n
  <2> QED BY <2>6, <2>7
<1>2. CASE NoBox(box)
  <2> DEFINE W == {x \in Controllers : Quiet(x) /\ SameLook(c, x) /\ SameRam(c, x)}
             D == [j \in 0 .. 0 |-> W]
  <2>1. bytes \in Seq(CellByte) /\ Len(bytes) = 0
    <3>1. bytes = <<>>
      BY <1>2, NothingBytes
    <3> HIDE DEF bytes
    <3> QED BY <3>1
  <2>2. BytePlaces(D, bytes)
    <3>1. D \in [0 .. Len(bytes) -> SUBSET Controllers]
      <4> HIDE DEF bytes
      <4> QED BY <2>1
    <3>2. \A m \in 0 .. Len(bytes) - 1 : FALSE
      <4> HIDE DEF bytes
      <4> QED BY <2>1
    <3> HIDE DEF D, bytes
    <3> QED BY <3>1, <3>2 DEF BytePlaces
  <2>3. D[0] = W /\ D[Len(bytes)] = W
    <3> HIDE DEF W, bytes
    <3> QED BY <2>1
  <2>4. /\ box.minX \in Nat /\ box.maxX \in Nat /\ box.minY \in Nat /\ box.maxY \in Nat
    BY <1>2 DEF NoBox
  <2>5. Receive(c, WindowOf(box)) \in D[0]
    <3> HIDE DEF D
    <3> QED BY <2>3, <2>4, WindowTaken
  <2> HIDE DEF D
  <2>6. /\ \A sent \in {displaySSD1306Wire(box), displaySSD1306Spi(box), displaySSD1306Brzo(box)} :
              sent \in Seq(Transmissions) /\ Receive(c, sent) \in W
        /\ FitsBus(displaySSD1306Wire(box)) /\ FitsBus(displaySSD1306Brzo(box))
    BY <2>1, <2>2, <2>3, <2>4, <2>5, WindowSent
  <2>7. \A d \in W : BoxDrawn(c, d, box)
    BY <1>2, NothingDrawn
  <2> QED BY <2>6, <2>7
<1> QED BY <1>1, <1>2

(* A SH1106, which is told the place of every row.                          *)
LEMMA RowsSent ==
  ASSUME NEW c \in Controllers, Quiet(c), driver \in SH1106s, NEW box, Proper(box), oledBuffer \in [Cells -> CellByte],
         NEW parts \in Seq(Seq(Transmissions)), Len(parts) = BoxHeight(box),
         \A k \in 1 .. BoxHeight(box), x \in Controllers :
           Quiet(x) => Receive(x, parts[k]) \in RowPlace(x, box, box.minY + k - 1, BoxWidth(box))
  PROVE  /\ EveryRow(parts) \in Seq(Transmissions) /\ BoxDrawn(c, Receive(c, EveryRow(parts)), box)
         /\ (\A k \in 1 .. BoxHeight(box) : FitsBus(parts[k])) => FitsBus(EveryRow(parts))
<1> DEFINE h == BoxHeight(box)
           E == [k \in 0 .. h |-> RowsPlace(c, box, k)]
<1>1. /\ box.minX \in Nat /\ box.maxX \in Nat /\ box.minY \in Nat /\ box.maxY \in Nat
      /\ box.maxX < Columns /\ box.maxY < PageCount /\ h \in Nat /\ h = box.maxY - box.minY + 1
  BY BoxSides
<1>2. E \in [0 .. Len(parts) -> SUBSET Controllers]
  BY DEF RowsPlace
<1>3. \A k \in 0 .. h : E[k] = RowsPlace(c, box, k)
  OBVIOUS
<1>4. Len(parts) = h
  OBVIOUS
<1>5. c \in E[0]
  <2>1. \A p \in Int : ~(p \in box.minY .. box.minY + 0 - 1)
    BY <1>1
  <2>2. \A cell \in Ram : ~(cell[2] \in box.minY .. box.minY + 0 - 1)
    BY <2>1 DEF Ram
  <2>3. c \in RowsPlace(c, box, 0)
    BY <2>2 DEF RowsPlace, SameLook
  <2> HIDE DEF E, h
  <2> QED BY <1>1, <1>3, <2>3
<1>6. ASSUME NEW k \in 1 .. h, NEW x \in E[k - 1] PROVE Receive(x, parts[k]) \in E[k]
  <2>1. E[k - 1] = RowsPlace(c, box, k - 1) /\ E[k] = RowsPlace(c, box, k)
    <3> HIDE DEF E, h
    <3> QED BY <1>1, <1>3
  <2>2. x \in RowsPlace(c, box, k - 1)
    BY <1>6, <2>1
  <2>3. /\ x \in Controllers /\ Quiet(x)
        /\ RowPlace(x, box, box.minY + k - 1, BoxWidth(box)) \subseteq RowsPlace(c, box, k)
    BY <2>2, RowsPlaced
  <2> HIDE DEF E
  <2> QED BY <2>1, <2>3
<1> HIDE DEF E, h
<1>7. /\ EveryRow(parts) \in Seq(Transmissions) /\ Receive(c, EveryRow(parts)) \in E[h]
      /\ (\A k \in 1 .. h : FitsBus(parts[k])) => FitsBus(EveryRow(parts))
  BY <1>2, <1>4, <1>5, <1>6, RowsArrive
<1>8. ASSUME NEW d \in RowsPlace(c, box, h) PROVE BoxDrawn(c, d, box)
  <2>1. /\ d \in Controllers /\ Quiet(d) /\ SameLook(c, d)
        /\ \A cell \in Ram :
             d.ram[cell] = IF /\ cell[1] \in box.minX + 2 .. box.maxX + 2
                              /\ cell[2] \in box.minY .. box.minY + h - 1
                           THEN oledBuffer[<<cell[1] - 2, cell[2]>>] ELSE c.ram[cell]
    BY DEF RowsPlace
  <2>2. ASSUME NEW cell \in Cells
        PROVE  Visible(d)[cell] = IF InBox(box, cell) THEN oledBuffer[cell] ELSE Visible(c)[cell]
    <3>1. PICK x \in 0 .. Columns - 1, p \in 0 .. PageCount - 1 : cell = <<x, p>>
      BY DEF Cells
    <3> DEFINE there == <<x + 2, p>>
    <3>2. there \in Ram /\ there[1] = x + 2 /\ there[2] = p /\ (x + 2) - 2 = x
      BY <3>1, PanelConstants DEF Ram
    <3>3. Visible(d)[cell] = d.ram[there] /\ Visible(c)[cell] = c.ram[there]
      BY <3>1 DEF Visible
    <3> HIDE DEF there
    <3>4. d.ram[there] = IF x + 2 \in box.minX + 2 .. box.maxX + 2 /\ p \in box.minY .. box.minY + h - 1
                         THEN oledBuffer[<<x, p>>] ELSE c.ram[there]
      BY <2>1, <3>2
    <3>5. (x + 2 \in box.minX + 2 .. box.maxX + 2 /\ p \in box.minY .. box.minY + h - 1)
            <=> (x \in box.minX .. box.maxX /\ p \in box.minY .. box.maxY)
      <4>1. x \in Int /\ p \in Int
        BY <3>1
      <4>2. box.minY + h - 1 = box.maxY
        BY <1>1
      <4>3. x + 2 \in box.minX + 2 .. box.maxX + 2 <=> x \in box.minX .. box.maxX
        BY <1>1, <4>1
      <4> QED BY <4>2, <4>3
    <3>6. InBox(box, cell) <=> (x \in box.minX .. box.maxX /\ p \in box.minY .. box.maxY)
      BY <3>1 DEF InBox
    <3> QED BY <3>1, <3>3, <3>4, <3>5, <3>6
  <2> QED BY <2>1, <2>2 DEF BoxDrawn
<1>9. E[h] = RowsPlace(c, box, h)
  BY <1>1, <1>3
<1> QED BY <1>7, <1>8, <1>9 DEF h

LEMMA RowsShown ==
  ASSUME NEW c \in Controllers, Quiet(c), driver \in SH1106s, NEW box, Proper(box) \/ NoBox(box),
         oledBuffer \in [Cells -> CellByte]
  PROVE  /\ \A sent \in {ChunkedRows(box), displaySH1106Spi(box)} :
              sent \in Seq(Transmissions) /\ BoxDrawn(c, Receive(c, sent), box)
         /\ FitsBus(ChunkedRows(box))
<1> DEFINE h == BoxHeight(box)
           Chunked(k) == RowAt(box, box.minY + k - 1) \o Packets(Row(box, box.minY + k - 1))
           Whole(k)   == RowAt(box, box.minY + k - 1) \o <<Data(Row(box, box.minY + k - 1))>>
           chunked == [k \in 1 .. h |-> Chunked(k)]
           whole   == [k \in 1 .. h |-> Whole(k)]
<1>1. ChunkedRows(box) = EveryRow(chunked) /\ displaySH1106Spi(box) = EveryRow(whole)
  BY DEF ChunkedRows, displaySH1106Spi
<1>2. CASE Proper(box)
  <2>1. h \in Nat /\ \A k \in 1 .. h : box.minY + k - 1 \in box.minY .. box.maxY
    BY <1>2, BoxSides
  <2>2. ASSUME NEW k \in 1 .. h
        PROVE  /\ Chunked(k) \in Seq(Transmissions) /\ FitsBus(Chunked(k)) /\ Whole(k) \in Seq(Transmissions)
               /\ \A x \in Controllers : Quiet(x) =>
                    /\ Receive(x, Chunked(k)) \in RowPlace(x, box, box.minY + k - 1, BoxWidth(box))
                    /\ Receive(x, Whole(k)) \in RowPlace(x, box, box.minY + k - 1, BoxWidth(box))
    <3> DEFINE y == box.minY + k - 1
    <3>1. y \in box.minY .. box.maxY
      BY <2>1
    <3> HIDE DEF y
    <3>2. ASSUME NEW x \in Controllers, Quiet(x)
          PROVE  LET bytes == Row(box, y)
                 IN  /\ RowAt(box, y) \o Packets(bytes) \in Seq(Transmissions)
                     /\ FitsBus(RowAt(box, y) \o Packets(bytes))
                     /\ RowAt(box, y) \o <<Data(bytes)>> \in Seq(Transmissions)
                     /\ Receive(x, RowAt(box, y) \o Packets(bytes)) \in RowPlace(x, box, y, BoxWidth(box))
                     /\ Receive(x, RowAt(box, y) \o <<Data(bytes)>>) \in RowPlace(x, box, y, BoxWidth(box))
      BY <1>2, <3>1, <3>2, RowArrives
    <3> QED BY <3>2 DEF y
  <2> HIDE DEF h, Chunked, Whole
  <2>3. /\ chunked \in Seq(Seq(Transmissions)) /\ Len(chunked) = h /\ \A k \in 1 .. h : chunked[k] = Chunked(k)
        /\ whole \in Seq(Seq(Transmissions)) /\ Len(whole) = h /\ \A k \in 1 .. h : whole[k] = Whole(k)
    <3> DEFINE S == Seq(Transmissions)
    <3>1. \A k \in 1 .. h : Chunked(k) \in S /\ Whole(k) \in S
      BY <2>2
    <3> HIDE DEF S
    <3>2. chunked \in [1 .. h -> S] /\ whole \in [1 .. h -> S]
      BY <3>1
    <3>3. \A k \in 1 .. h : chunked[k] = Chunked(k) /\ whole[k] = Whole(k)
      OBVIOUS
    <3> HIDE DEF chunked, whole
    <3>4. chunked \in Seq(S) /\ Len(chunked) = h /\ whole \in Seq(S) /\ Len(whole) = h
      BY <2>1, <3>2
    <3> QED BY <3>3, <3>4 DEF S
  <2> HIDE DEF chunked, whole
  <2>4. \A k \in 1 .. h, x \in Controllers :
          Quiet(x) => /\ Receive(x, chunked[k]) \in RowPlace(x, box, box.minY + k - 1, BoxWidth(box))
                      /\ Receive(x, whole[k]) \in RowPlace(x, box, box.minY + k - 1, BoxWidth(box))
    BY <2>2, <2>3
  <2>5. \A k \in 1 .. h : FitsBus(chunked[k])
    BY <2>2, <2>3
  <2>6. /\ EveryRow(chunked) \in Seq(Transmissions) /\ BoxDrawn(c, Receive(c, EveryRow(chunked)), box)
        /\ FitsBus(EveryRow(chunked))
    BY <1>2, <2>3, <2>4, <2>5, RowsSent DEF h
  <2>7. /\ EveryRow(whole) \in Seq(Transmissions) /\ BoxDrawn(c, Receive(c, EveryRow(whole)), box)
    BY <1>2, <2>3, <2>4, RowsSent DEF h
  <2> QED BY <1>1, <2>6, <2>7
<1>3. CASE NoBox(box)
  <2>1. h = 0
    BY <1>3, NothingBytes
  <2>2. chunked = <<>> /\ whole = <<>>
    <3> HIDE DEF h, Chunked, Whole
    <3> QED BY <2>1
  <2>3. EveryRow(<<>>) = <<>>
    <3>1. <<>> \in Seq(Seq(Transmissions)) /\ Len(<<>>) = 0
      OBVIOUS
    <3>2. RowsSending(<<>>)[0] = <<>>
      BY <3>1, RowsSentAre
    <3> QED BY <3>1, <3>2 DEF EveryRow
  <2>4. <<>> \in Seq(Transmissions) /\ FitsBus(<<>>) /\ Receive(c, <<>>) = c
    BY ReceiveNone DEF FitsBus
  <2>5. BoxDrawn(c, c, box)
    BY <1>3, NothingDrawn DEF SameLook, SameRam
  <2>6. ChunkedRows(box) = <<>> /\ displaySH1106Spi(box) = <<>>
    BY <1>1, <2>2, <2>3
  <2> QED BY <2>4, <2>5, <2>6
<1> QED BY <1>2, <1>3

(* What each driver sends is drawn inside of the box, and fits the bus.     *)
LEMMA BoxShown ==
  ASSUME driver \in Drivers, NEW c \in Controllers, Quiet(c), NEW box, Proper(box) \/ NoBox(box),
         oledBuffer \in [Cells -> CellByte]
  PROVE  /\ SendBox(box) \in Seq(Transmissions) /\ BoxDrawn(c, Receive(c, SendBox(box)), box)
         /\ driver \in I2cDrivers => FitsBus(SendBox(box))
<1>1. CASE driver \in SH1106s
  <2>1. driver \in {"SH1106Wire", "SH1106Brzo", "SH1106Spi"}
    BY <1>1 DEF SH1106s
  <2>2. SendBox(box) = IF driver = "SH1106Spi" THEN displaySH1106Spi(box) ELSE ChunkedRows(box)
    BY <2>1 DEF SendBox, displaySH1106Wire, displaySH1106Brzo
  <2>3. driver \in I2cDrivers => driver # "SH1106Spi"
    BY DEF I2cDrivers
  <2>4. /\ \A sent \in {ChunkedRows(box), displaySH1106Spi(box)} :
              sent \in Seq(Transmissions) /\ BoxDrawn(c, Receive(c, sent), box)
        /\ FitsBus(ChunkedRows(box))
    BY <1>1, RowsShown
  <2> QED BY <2>2, <2>3, <2>4
<1>2. CASE ~(driver \in SH1106s)
  <2>1. driver \in {"SSD1306Wire", "SSD1306Brzo", "SSD1306Spi"}
    BY <1>2 DEF SH1106s, Drivers, I2cDrivers
  <2>2. SendBox(box) = IF driver = "SSD1306Spi" THEN displaySSD1306Spi(box)
                       ELSE IF driver = "SSD1306Wire" THEN displaySSD1306Wire(box) ELSE displaySSD1306Brzo(box)
    BY <2>1 DEF SendBox
  <2>3. driver \in I2cDrivers => driver # "SSD1306Spi"
    BY DEF I2cDrivers
  <2>4. /\ \A sent \in {displaySSD1306Wire(box), displaySSD1306Spi(box), displaySSD1306Brzo(box)} :
              sent \in Seq(Transmissions) /\ BoxDrawn(c, Receive(c, sent), box)
        /\ FitsBus(displaySSD1306Wire(box)) /\ FitsBus(displaySSD1306Brzo(box))
    BY <1>2, WindowShown
  <2> QED BY <2>2, <2>3, <2>4
<1> QED BY <1>1, <1>2

(* display(): the panel shows the buffer, if the back buffer tells what it  *)
(* has shown - or if all bytes differ from the back buffer.                 *)
LEMMA StreamShown ==
  ASSUME driver \in Drivers, NEW c \in Controllers, Quiet(c), oledBuffer \in [Cells -> CellByte],
         NEW back, \A cell \in Cells : oledBuffer[cell] = back[cell] => Visible(c)[cell] = oledBuffer[cell]
  PROVE  LET sent == DisplayStream(back)
             d    == Receive(c, sent)
         IN  /\ sent \in Seq(Transmissions) /\ d \in Controllers /\ Quiet(d) /\ SameLook(c, d)
             /\ Visible(d) = oledBuffer
             /\ driver \in I2cDrivers => FitsBus(sent)
<1> DEFINE dirty == {cell \in Cells : oledBuffer[cell] # back[cell]}
           box   == Bounds(dirty)
           sent  == DisplayStream(back)
           d     == Receive(c, sent)
<1>1. /\ Proper(box) \/ NoBox(box)
      /\ \A cell \in dirty : InBox(box, cell)
  BY BoundsAre
<1>2. \A cell \in Cells : cell \in dirty \/ Visible(c)[cell] = oledBuffer[cell]
  OBVIOUS
<1>3. DOMAIN Visible(c) = Cells
  BY DEF Visible
<1>4. CASE dirty = {} /\ driver = "SSD1306Wire"
  <2>1. sent = <<>>
    BY <1>4 DEF DisplayStream
  <2>2. <<>> \in Seq(Transmissions) /\ FitsBus(<<>>) /\ Receive(c, <<>>) = c
    BY ReceiveNone DEF FitsBus
  <2>3. Visible(c) = oledBuffer
    <3>1. Visible(c) = [cell \in Cells |-> Visible(c)[cell]] /\ oledBuffer = [cell \in Cells |-> oledBuffer[cell]]
      BY <1>3 DEF Visible
    <3>2. \A cell \in Cells : Visible(c)[cell] = oledBuffer[cell]
      BY <1>2, <1>4
    <3> QED BY <3>1, <3>2
  <2> QED BY <2>1, <2>2, <2>3 DEF SameLook
<1>5. CASE ~(dirty = {} /\ driver = "SSD1306Wire")
  <2>1. sent = SendBox(box)
    BY <1>5 DEF DisplayStream
  <2> HIDE DEF dirty, box, sent
  <2>2. /\ SendBox(box) \in Seq(Transmissions) /\ BoxDrawn(c, Receive(c, SendBox(box)), box)
        /\ driver \in I2cDrivers => FitsBus(SendBox(box))
    BY <1>1, BoxShown
  <2>3. d = Receive(c, SendBox(box))
    BY <2>1
  <2> HIDE DEF d
  <2>4. Visible(d) = oledBuffer
    <3>1. \A cell \in Cells : Visible(d)[cell] = oledBuffer[cell]
      BY <1>1, <1>2, <2>2, <2>3 DEF BoxDrawn
    <3>2. Visible(d) = [cell \in Cells |-> Visible(d)[cell]] /\ oledBuffer = [cell \in Cells |-> oledBuffer[cell]]
      BY DEF Visible
    <3> QED BY <3>1, <3>2
  <2>5. d \in Controllers /\ Quiet(d) /\ SameLook(c, d)
    BY <2>2, <2>3 DEF BoxDrawn
  <2> QED BY <2>1, <2>2, <2>4, <2>5 DEF d, sent
<1> QED BY <1>4, <1>5

(***************************************************************************)
(* The invariant.                                                           *)
(***************************************************************************)
Wishes == [lit : BOOLEAN, inverted : BOOLEAN, flipped : BOOLEAN, contrast : Nat]

(* The panel is as it was asked to be.                                      *)
AsAsked(c, w) ==
  c.lit = w.lit /\ c.inverted = w.inverted /\ c.flipped = w.flipped /\ c.contrast = w.contrast

(* The back buffer is what the panel shows, no byte of a command is         *)
(* outstanding, and no packet was too long for the bus.                     *)
PanelsIInv ==
  /\ driver \in Drivers /\ active \in BOOLEAN
  /\ oledBuffer \in [Cells -> CellByte] /\ oledBack \in [Cells -> CellByte] /\ seen \in [Cells -> CellByte]
  /\ strokes \in 0 .. MaxStrokes /\ orders \in 0 .. MaxOrders /\ inits \in 0 .. MaxInits
  /\ controller \in Controllers /\ Quiet(controller) /\ wishes \in Wishes
  /\ active => Visible(controller) = seen /\ oledBack = seen /\ AsAsked(controller, wishes)
  /\ driver \in I2cDrivers => longest \in 0 .. CHUNK

LEMMA LongestFits ==
  ASSUME NEW sent \in Seq(Transmissions), FitsBus(sent), longest \in 0 .. CHUNK
  PROVE  Max({longest, Longest(sent)}) \in 0 .. CHUNK
<1> DEFINE T == {0} \cup {Len(sent[i].of) : i \in {k \in DOMAIN sent : sent[k].data}}
           l == Longest(sent)
<1>1. CHUNK \in Nat
  BY PanelConstants
<1>2. T \subseteq 0 .. CHUNK /\ T # {}
  BY <1>1 DEF FitsBus
<1>3. l = Max(T)
  BY DEF Longest
<1> HIDE DEF T, l
<1>4. l \in 0 .. CHUNK
  BY <1>1, <1>2, <1>3, MaxIs
<1> DEFINE U == {longest, l}
<1>5. U \subseteq 0 .. CHUNK /\ U # {}
  BY <1>4
<1> HIDE DEF U
<1>6. Max(U) \in 0 .. CHUNK
  BY <1>1, <1>5, MaxIs
<1> QED BY <1>6 DEF U, l

LEMMA OneOrder ==
  ASSUME NEW c \in Controllers, NEW order \in PanelOrders
  PROVE  Receive(c, Commands(<<order>>)) = Obey(driver \in SH1106s, c, order)
<1> DEFINE list == <<order>>
<1>1. list \in Seq(PanelOrders) /\ Len(list) = 1 /\ list[1] = order
  OBVIOUS
<1> HIDE DEF list
<1>2. PICK T \in [0 .. Len(list) -> Controllers] :
        /\ T[0] = c /\ Receive(c, Commands(list)) = T[Len(list)]
        /\ \A i \in 1 .. Len(list) : T[i] = Obey(driver \in SH1106s, T[i - 1], list[i])
  BY <1>1, OrdersTaken
<1>3. T[1] = Obey(driver \in SH1106s, T[1 - 1], list[1]) /\ 1 - 1 = 0
  BY <1>1, <1>2
<1> QED BY <1>1, <1>2, <1>3 DEF list

LEMMA TwoOrders ==
  ASSUME NEW c \in Controllers, NEW order \in PanelOrders, NEW next \in PanelOrders
  PROVE  Receive(c, Commands(<<order, next>>)) = Obey(driver \in SH1106s, Obey(driver \in SH1106s, c, order), next)
<1> DEFINE list == <<order, next>>
<1>1. list \in Seq(PanelOrders) /\ Len(list) = 2 /\ list[1] = order /\ list[2] = next
  OBVIOUS
<1> HIDE DEF list
<1>2. PICK T \in [0 .. Len(list) -> Controllers] :
        /\ T[0] = c /\ Receive(c, Commands(list)) = T[Len(list)]
        /\ \A i \in 1 .. Len(list) : T[i] = Obey(driver \in SH1106s, T[i - 1], list[i])
  BY <1>1, OrdersTaken
<1>3. T[1] = Obey(driver \in SH1106s, T[1 - 1], list[1]) /\ 1 - 1 = 0
  BY <1>1, <1>2
<1>4. T[2] = Obey(driver \in SH1106s, T[2 - 1], list[2]) /\ 2 - 1 = 1
  BY <1>1, <1>2
<1> QED BY <1>1, <1>2, <1>3, <1>4 DEF list

LEMMA OrderTyped ==
  ASSUME NEW op \in Operations, NEW n \in Nat
  PROVE  /\ Order(op) \in PanelOrders /\ [op |-> op, n |-> n] \in PanelOrders
         /\ Order(op).op = op /\ [op |-> op, n |-> n].op = op /\ [op |-> op, n |-> n].n = n
         /\ PanelByte(n) \in PanelOrders
<1>1. "byte" \in Operations
  BY DEF Operations
<1> QED BY <1>1 DEF Order, PanelByte, PanelOrders

LEMMA PanelsInitial == PanelsInit => PanelsIInv
<1> SUFFICES ASSUME PanelsInit PROVE PanelsIInv
  OBVIOUS
<1>1. BlankCell \in [Cells -> CellByte]
  BY DEF BlankCell, CellByte
<1>2. PowerOn \in Controllers
  <2>1. [c \in Ram |-> 1] \in [Ram -> CellByte]
    BY DEF CellByte
  <2>2. <<>> \in Seq(Fields)
    OBVIOUS
  <2> QED BY <2>1, <2>2 DEF PowerOn, Controllers
<1>3. Quiet(PowerOn)
  BY DEF Quiet, PowerOn
<1>4. Defaults \in Wishes
  BY DEF Defaults, Wishes
<1>5. 0 \in 0 .. CHUNK /\ 0 \in 0 .. MaxStrokes /\ 0 \in 0 .. MaxOrders /\ 0 \in 0 .. MaxInits
  BY PanelsAssumption
<1> QED BY <1>1, <1>2, <1>3, <1>4, <1>5 DEF PanelsInit, PanelsIInv

(* display() after init() or between drawings: every byte in which the      *)
(* panel may differ from the buffer differs from the back buffer too.       *)
LEMMA DisplayKept ==
  ASSUME PanelsIInv, NEW back, NEW before \in Controllers, Quiet(before), Display(back, before),
         \A cell \in Cells : oledBuffer[cell] = back[cell] => Visible(before)[cell] = oledBuffer[cell],
         driver' = driver
  PROVE  /\ oledBack' \in [Cells -> CellByte] /\ seen' \in [Cells -> CellByte]
         /\ controller' \in Controllers /\ Quiet(controller') /\ SameLook(before, controller')
         /\ Visible(controller)' = seen' /\ oledBack' = seen'
         /\ (driver \in I2cDrivers)' => longest' \in 0 .. CHUNK
<1> DEFINE sent == DisplayStream(back)
           d    == Receive(before, sent)
<1>1. driver \in Drivers /\ oledBuffer \in [Cells -> CellByte] /\ (driver \in I2cDrivers => longest \in 0 .. CHUNK)
  BY DEF PanelsIInv
<1>2. /\ controller' = d /\ longest' = Max({longest, Longest(sent)})
      /\ oledBack' = oledBuffer /\ seen' = oledBuffer
  BY DEF Display
<1>3. /\ sent \in Seq(Transmissions) /\ d \in Controllers /\ Quiet(d) /\ SameLook(before, d)
      /\ Visible(d) = oledBuffer /\ (driver \in I2cDrivers => FitsBus(sent))
  BY <1>1, StreamShown
<1> HIDE DEF sent, d
<1>4. Visible(controller)' = Visible(d)
  BY <1>2 DEF Visible
<1>5. driver \in I2cDrivers => longest' \in 0 .. CHUNK
  BY <1>1, <1>2, <1>3, LongestFits
<1> QED BY <1>1, <1>2, <1>3, <1>4, <1>5

LEMMA InitPanelKept ==
  ASSUME PanelsIInv, initPanel
  PROVE  PanelsIInv'
<1> DEFINE c == Receive(controller, Commands(InitCommands))
<1>1. /\ inits' \in 0 .. MaxInits /\ oledBuffer = BlankCell /\ active' = TRUE /\ Display(ResetBack, c) /\ wishes' = Defaults
      /\ driver' = driver /\ oledBuffer' = oledBuffer /\ strokes' = strokes /\ orders' = orders
      /\ controller \in Controllers /\ Quiet(controller)
  BY PanelsAssumption DEF initPanel, PanelsIInv
<1>2. c \in Controllers /\ Quiet(c) /\ \A wish \in DOMAIN Defaults : c[wish] = Defaults[wish]
  BY <1>1, InitCommandsTaken
<1> HIDE DEF c
<1>3. AsAsked(c, Defaults) /\ Defaults \in Wishes
  BY <1>2 DEF Defaults, AsAsked, Wishes
<1>4. \A cell \in Cells : oledBuffer[cell] # ResetBack[cell]
  BY <1>1 DEF BlankCell, ResetBack
<1>5. /\ oledBack' \in [Cells -> CellByte] /\ seen' \in [Cells -> CellByte]
      /\ controller' \in Controllers /\ Quiet(controller') /\ SameLook(c, controller')
      /\ Visible(controller)' = seen' /\ oledBack' = seen'
      /\ (driver \in I2cDrivers)' => longest' \in 0 .. CHUNK
  BY <1>1, <1>2, <1>4, DisplayKept
<1>6. AsAsked(controller, wishes)'
  BY <1>1, <1>3, <1>5 DEF SameLook, AsAsked
<1>7. Quiet(controller)'
  BY <1>5 DEF Quiet
<1> QED BY <1>1, <1>3, <1>5, <1>6, <1>7 DEF PanelsIInv

LEMMA DisplayPanelKept ==
  ASSUME PanelsIInv, displayPanel
  PROVE  PanelsIInv'
<1>1. /\ active /\ Display(oledBack, controller) /\ driver' = driver /\ active' = active /\ oledBuffer' = oledBuffer
      /\ wishes' = wishes /\ strokes' = strokes /\ inits' = inits
      /\ controller \in Controllers /\ Quiet(controller) /\ Visible(controller) = oledBack /\ AsAsked(controller, wishes)
  BY DEF displayPanel, PanelsIInv
<1>2. orders' \in 0 .. MaxOrders
  BY PanelsAssumption DEF displayPanel, PanelsIInv
<1>3. /\ oledBack' \in [Cells -> CellByte] /\ seen' \in [Cells -> CellByte]
      /\ controller' \in Controllers /\ Quiet(controller') /\ SameLook(controller, controller')
      /\ Visible(controller)' = seen' /\ oledBack' = seen'
      /\ (driver \in I2cDrivers)' => longest' \in 0 .. CHUNK
  BY <1>1, DisplayKept
<1>4. AsAsked(controller, wishes)' /\ Quiet(controller)'
  BY <1>1, <1>3 DEF SameLook, AsAsked, Quiet
<1> QED BY <1>1, <1>2, <1>3, <1>4 DEF PanelsIInv

LEMMA AskKept ==
  ASSUME PanelsIInv, NEW list, NEW wish \in Wishes, Ask(list, wish),
         Receive(controller, Commands(list)) \in Controllers, Quiet(Receive(controller, Commands(list))),
         SameRam(controller, Receive(controller, Commands(list))), AsAsked(Receive(controller, Commands(list)), wish)
  PROVE  PanelsIInv'
<1>1. /\ active /\ orders' \in 0 .. MaxOrders /\ controller' = Receive(controller, Commands(list)) /\ wishes' = wish
      /\ UNCHANGED <<driver, active, oledBuffer, oledBack, seen, longest, strokes, inits>>
  BY PanelsAssumption DEF Ask, PanelsIInv
<1> DEFINE d == Receive(controller, Commands(list))
<1>2. controller' = d /\ d \in Controllers /\ Quiet(d) /\ SameRam(controller, d) /\ AsAsked(d, wish)
  BY <1>1
<1> HIDE DEF d
<1>3. Visible(controller)' = Visible(controller)
  BY <1>1, <1>2 DEF Visible, SameRam
<1>4. Quiet(controller)' /\ AsAsked(controller, wishes)'
  BY <1>1, <1>2 DEF Quiet, AsAsked
<1> QED BY <1>1, <1>2, <1>3, <1>4 DEF PanelsIInv

(* The commands of a sketch.                                                *)
LEMMA LookAsked ==
  ASSUME PanelsIInv, active,
         displayOn \/ displayOff \/ invertDisplay \/ normalDisplay
  PROVE  PanelsIInv'
<1> DEFINE sh == driver \in SH1106s
<1>1. /\ controller \in Controllers /\ controller.awaits = <<>> /\ wishes \in Wishes /\ AsAsked(controller, wishes)
  BY DEF PanelsIInv, Quiet
<1>2. {"DISPLAYON", "DISPLAYOFF", "INVERTDISPLAY", "NORMALDISPLAY"} \subseteq Operations
  BY DEF Operations
<1>3. ASSUME NEW op \in {"DISPLAYON", "DISPLAYOFF", "INVERTDISPLAY", "NORMALDISPLAY"}
      PROVE  Receive(controller, Commands(<<Order(op)>>)) = Obey(sh, controller, Order(op)) /\ Order(op).op = op
  BY <1>1, <1>2, OneOrder, OrderTyped
<1> HIDE DEF sh
<1>4. CASE displayOn
  <2>1. Receive(controller, Commands(<<Order("DISPLAYON")>>)) = [controller EXCEPT !.lit = TRUE]
    BY <1>1, <1>3 DEF Obey
  <2>2. LET d == [controller EXCEPT !.lit = TRUE]
            w == [wishes EXCEPT !.lit = TRUE]
        IN  d \in Controllers /\ Quiet(d) /\ SameRam(controller, d) /\ w \in Wishes /\ AsAsked(d, w)
    BY <1>1 DEF Controllers, Quiet, SameRam, Wishes, AsAsked
  <2> QED BY <1>4, <2>1, <2>2, AskKept DEF displayOn
<1>5. CASE displayOff
  <2>1. Receive(controller, Commands(<<Order("DISPLAYOFF")>>)) = [controller EXCEPT !.lit = FALSE]
    BY <1>1, <1>3 DEF Obey
  <2>2. LET d == [controller EXCEPT !.lit = FALSE]
            w == [wishes EXCEPT !.lit = FALSE]
        IN  d \in Controllers /\ Quiet(d) /\ SameRam(controller, d) /\ w \in Wishes /\ AsAsked(d, w)
    BY <1>1 DEF Controllers, Quiet, SameRam, Wishes, AsAsked
  <2> QED BY <1>5, <2>1, <2>2, AskKept DEF displayOff
<1>6. CASE invertDisplay
  <2>1. Receive(controller, Commands(<<Order("INVERTDISPLAY")>>)) = [controller EXCEPT !.inverted = TRUE]
    BY <1>1, <1>3 DEF Obey
  <2>2. LET d == [controller EXCEPT !.inverted = TRUE]
            w == [wishes EXCEPT !.inverted = TRUE]
        IN  d \in Controllers /\ Quiet(d) /\ SameRam(controller, d) /\ w \in Wishes /\ AsAsked(d, w)
    BY <1>1 DEF Controllers, Quiet, SameRam, Wishes, AsAsked
  <2> QED BY <1>6, <2>1, <2>2, AskKept DEF invertDisplay
<1>7. CASE normalDisplay
  <2>1. Receive(controller, Commands(<<Order("NORMALDISPLAY")>>)) = [controller EXCEPT !.inverted = FALSE]
    BY <1>1, <1>3 DEF Obey
  <2>2. LET d == [controller EXCEPT !.inverted = FALSE]
            w == [wishes EXCEPT !.inverted = FALSE]
        IN  d \in Controllers /\ Quiet(d) /\ SameRam(controller, d) /\ w \in Wishes /\ AsAsked(d, w)
    BY <1>1 DEF Controllers, Quiet, SameRam, Wishes, AsAsked
  <2> QED BY <1>7, <2>1, <2>2, AskKept DEF normalDisplay
<1> QED BY <1>4, <1>5, <1>6, <1>7

LEMMA ContrastAsked ==
  ASSUME PanelsIInv, active, NEW n \in Contrasts, setContrast(n)
  PROVE  PanelsIInv'
<1> DEFINE d == Receive(controller, Commands(<<Order("SETCONTRAST"), PanelByte(n)>>))
           w == [wishes EXCEPT !.contrast = n]
<1>1. controller \in Controllers /\ Quiet(controller) /\ wishes \in Wishes /\ AsAsked(controller, wishes) /\ n \in Nat
  BY PanelsAssumption DEF PanelsIInv
<1>2. "SETCONTRAST" \in Operations
  BY DEF Operations
<1>3. d = Obey(driver \in SH1106s, Obey(driver \in SH1106s, controller, Order("SETCONTRAST")), PanelByte(n))
  BY <1>1, <1>2, TwoOrders, OrderTyped
<1>4. /\ SameRam(controller, d) /\ Quiet(d) /\ d.contrast = n
      /\ d.lit = controller.lit /\ d.inverted = controller.inverted /\ d.flipped = controller.flipped
  <2> DEFINE sh == driver \in SH1106s
  <2>1. sh \in BOOLEAN
    OBVIOUS
  <2>2. d = Obey(sh, Obey(sh, controller, Order("SETCONTRAST")), PanelByte(n))
    BY <1>3
  <2> HIDE DEF sh, d
  <2> QED BY <1>1, <2>1, <2>2, ContrastTaken
<1>5. d \in Controllers
  <2>1. Commands(<<Order("SETCONTRAST"), PanelByte(n)>>) \in Seq(Transmissions)
    <3> DEFINE list == <<Order("SETCONTRAST"), PanelByte(n)>>
    <3>1. list \in Seq(PanelOrders)
      <4>1. Order("SETCONTRAST") \in PanelOrders /\ PanelByte(n) \in PanelOrders
        BY <1>1, <1>2, OrderTyped
      <4> QED BY <4>1
    <3> HIDE DEF list
    <3>2. Commands(list) \in Seq(Transmissions)
      BY <1>1, <3>1, OrdersTaken
    <3> QED BY <3>2 DEF list
  <2> QED BY <1>1, <2>1, ReceiveTyped
<1>6. w \in Wishes /\ w.lit = wishes.lit /\ w.inverted = wishes.inverted /\ w.flipped = wishes.flipped /\ w.contrast = n
  BY <1>1 DEF Wishes
<1>7. AsAsked(d, w)
  <2> HIDE DEF d, w
  <2> QED BY <1>1, <1>4, <1>6 DEF AsAsked
<1> QED BY <1>4, <1>5, <1>6, <1>7, AskKept DEF setContrast

LEMMA FlipAsked ==
  ASSUME PanelsIInv, active, flipScreenVertically
  PROVE  PanelsIInv'
<1> DEFINE remap == [op |-> "SEGREMAP", n |-> 1]
           d == Receive(controller, Commands(<<remap, Order("COMSCANDEC")>>))
           m == [controller EXCEPT !.flipped = TRUE]
           w == [wishes EXCEPT !.flipped = TRUE]
           sh == driver \in SH1106s
<1>1. controller \in Controllers /\ controller.awaits = <<>> /\ wishes \in Wishes /\ AsAsked(controller, wishes)
  BY DEF PanelsIInv, Quiet
<1>2. "SEGREMAP" \in Operations /\ "COMSCANDEC" \in Operations /\ "COMSCANDEC" \in UnseenPlain /\ sh \in BOOLEAN
  BY DEF Operations, UnseenPlain
<1>3. remap \in PanelOrders /\ remap.op = "SEGREMAP" /\ remap.n = 1 /\ Order("COMSCANDEC") \in PanelOrders
  BY <1>2, OrderTyped
<1> HIDE DEF remap
<1>4. d = Obey(sh, Obey(sh, controller, remap), Order("COMSCANDEC"))
  BY <1>1, <1>3, TwoOrders
<1> HIDE DEF sh, d
<1>5. Obey(sh, controller, remap) = m
  BY <1>1, <1>3 DEF Obey
<1>6. m \in Controllers /\ Quiet(m) /\ SameRam(controller, m) /\ w \in Wishes /\ AsAsked(m, w)
  BY <1>1 DEF Controllers, Quiet, SameRam, Wishes, AsAsked
<1> HIDE DEF m, w
<1>7. d \in Controllers
  BY <1>2, <1>3, <1>4, <1>5, <1>6, ObeyTyped
<1>8. Quiet(d) /\ SameLook(m, d) /\ SameRam(m, d)
  BY <1>2, <1>4, <1>5, <1>6, UnseenOrder
<1>9. SameRam(controller, d) /\ AsAsked(d, w)
  BY <1>6, <1>8 DEF SameRam, SameLook, AsAsked
<1> QED BY <1>6, <1>7, <1>8, <1>9, AskKept DEF flipScreenVertically, d, w, remap

LEMMA PanelsKept == PanelsIInv /\ [PanelsNext]_panelsVars => PanelsIInv'
<1> SUFFICES ASSUME PanelsIInv, [PanelsNext]_panelsVars PROVE PanelsIInv'
  OBVIOUS
<1>1. CASE initPanel
  BY <1>1, InitPanelKept
<1>2. CASE initFails
  <2>1. inits' \in 0 .. MaxInits
    BY <1>2, PanelsAssumption DEF initFails, PanelsIInv
  <2> QED BY <1>2, <2>1 DEF initFails, PanelsIInv, Visible, Quiet, AsAsked
<1>3. CASE endPanel
  <2>1. BlankCell \in [Cells -> CellByte]
    BY DEF BlankCell, CellByte
  <2> QED BY <1>3, <2>1 DEF endPanel, PanelsIInv, Visible, Quiet, AsAsked
<1>4. CASE displayPanel
  BY <1>4, DisplayPanelKept
<1>5. ASSUME NEW cell \in Cells, DrawByte(cell) PROVE PanelsIInv'
  <2>1. oledBuffer' \in [Cells -> CellByte] /\ strokes' \in 0 .. MaxStrokes
    <3>1. oledBuffer \in [Cells -> CellByte] /\ strokes \in 0 .. MaxStrokes
      BY DEF PanelsIInv
    <3>2. 1 - oledBuffer[cell] \in CellByte
      BY <3>1 DEF CellByte
    <3> QED BY <1>5, <3>1, <3>2, PanelsAssumption DEF DrawByte
  <2> QED BY <1>5, <2>1 DEF DrawByte, PanelsIInv, Visible, Quiet, AsAsked
<1>6. CASE displayOn \/ displayOff \/ invertDisplay \/ normalDisplay
  <2>1. active
    BY <1>6 DEF displayOn, displayOff, invertDisplay, normalDisplay, Ask
  <2> QED BY <1>6, <2>1, LookAsked
<1>7. CASE flipScreenVertically
  <2>1. active
    BY <1>7 DEF flipScreenVertically, Ask
  <2> QED BY <1>7, <2>1, FlipAsked
<1>8. ASSUME NEW n \in Contrasts, setContrast(n) PROVE PanelsIInv'
  <2>1. active
    BY <1>8 DEF setContrast, Ask
  <2> QED BY <1>8, <2>1, ContrastAsked
<1>9. CASE UNCHANGED panelsVars
  BY <1>9 DEF panelsVars, PanelsIInv, Visible, Quiet, AsAsked
<1> QED BY <1>1, <1>2, <1>3, <1>4, <1>5, <1>6, <1>7, <1>8, <1>9 DEF PanelsNext

LEMMA PanelsImplied == PanelsIInv => PanelsInv
<1> SUFFICES ASSUME PanelsIInv PROVE PanelsInv
  OBVIOUS
<1>1. controller \in Controllers /\ wishes \in Wishes
  BY DEF PanelsIInv
<1>2. DOMAIN controller = DOMAIN PowerOn /\ DOMAIN controller.ram = Ram
  BY <1>1 DEF Controllers, PowerOn
<1>3. PanelsTypeOK
  BY <1>2 DEF PanelsIInv, PanelsTypeOK, CellByte
<1>4. EveryPanelShows
  BY DEF PanelsIInv, EveryPanelShows
<1>5. CommandsObeyed
  <2>1. DOMAIN wishes = {"lit", "inverted", "flipped", "contrast"}
    BY <1>1 DEF Wishes
  <2>2. active => AsAsked(controller, wishes) /\ Quiet(controller)
    BY DEF PanelsIInv
  <2> QED BY <2>1, <2>2 DEF CommandsObeyed, AsAsked, Quiet
<1>6. ChunksFit
  <2>1. driver \in I2cDrivers => longest <= CHUNK
    BY PanelConstants DEF PanelsIInv
  <2> QED BY <2>1 DEF ChunksFit
<1> QED BY <1>3, <1>4, <1>5, <1>6 DEF PanelsInv
=============================================================================
