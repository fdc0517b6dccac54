--------------------------- MODULE Request_proofs ---------------------------
(***************************************************************************)
(* Proofs about the requests of a browser: the handler each comes to, what  *)
(* the web server keeps of its headers and answers, and its arguments, for  *)
(* any handlers, headers, contents, forms and bodies, in any pieces.        *)
(***************************************************************************)
EXTENDS RequestHandlers, WebResponse, WebArguments, FiniteSetTheorems, SequenceTheorems, WellFoundedInduction, TLAPS


(***************************************************************************)
(* The handlers of the web server.                                          *)
(***************************************************************************)
LEMMA HandlersInitial == HandlersInit => HandlersIInv
<1> SUFFICES ASSUME HandlersInit PROVE HandlersIInv
  OBVIOUS
<1> USE DEF HandlersInit
<1>1. request \in Asks
  BY HandlersAssumption
<1>2. handlerList \in Seq(Handler) /\ Len(handlerList) = 0
  OBVIOUS
<1>3. MaxHandlers \in Nat /\ MaxAsked \in Nat
  BY HandlersAssumption
<1>4. {_firstHandler, _lastHandler, cursor, _currentHandler, addedBefore} \subseteq Pointers
  BY <1>3 DEF Pointers
<1>5. nextHandler \in [1 .. MaxHandlers -> Pointers]
  BY <1>3 DEF Pointers
<1>6. requestsAsked \in 0 .. MaxAsked
  BY <1>3
<1>7. {_fileUploadHandler, formRead} \subseteq BOOLEAN
  <2>1. _fileUploadHandler = FALSE /\ formRead = FALSE
    OBVIOUS
  <2> HIDE DEF HandlersInit
  <2> QED BY <2>1
<1>8. HandlersTypeOK
  <2>1. Len(handlerList) <= MaxHandlers
    BY <1>2, <1>3
  <2>2. handlerList \in Seq(Handler)
    BY <1>2
  <2>3. adding \in {"idle", "link", "last"} /\ routing \in {"idle", "search", "form", "answer"}
    OBVIOUS
  <2> HIDE DEF HandlersInit
  <2> QED BY <1>1, <1>4, <1>5, <1>6, <1>7, <2>1, <2>2, <2>3 DEF HandlersTypeOK
<1>9. Chained
  BY <1>2 DEF Chained, Linked
<1> QED BY <1>2, <1>8, <1>9 DEF HandlersIInv, Walked, Linked, FirstChosen, UploadOfAnswer

(* What a request can see of the list: no handler of it is changed.         *)
LEMMA MakeKeeps ==
  ASSUME HandlersIInv, NEW handler \in Handler, Make(handler)
  PROVE  HandlersIInv'
<1> DEFINE len == Len(handlerList)
<1> USE DEF Make, listVars, askedVars
<1>1. handlerList \in Seq(Handler) /\ len \in Nat /\ len < MaxHandlers /\ MaxHandlers \in Nat
  BY HandlersAssumption DEF HandlersIInv, HandlersTypeOK
<1>2. /\ handlerList' \in Seq(Handler) /\ Len(handlerList') = len + 1 /\ handlerList' # <<>>
      /\ \A n \in 1 .. len : handlerList'[n] = handlerList[n]
  BY <1>1
<1> HIDE DEF len
<1>3. HandlersTypeOK'
  BY <1>1, <1>2 DEF len, HandlersIInv, HandlersTypeOK
<1>4. Linked' = Linked /\ Linked = len
  BY <1>1, <1>2 DEF len, Linked
<1>5. Chained'
  BY <1>1, <1>2, <1>4 DEF len, HandlersIInv, Chained
<1>6. _lastHandler = len /\ addedBefore <= len /\ cursor <= len
  BY <1>1, <1>4 DEF HandlersIInv, Chained, Walked, len
<1>7. /\ Matches \subseteq Matches' /\ Matches' \subseteq Matches \cup {len + 1}
      /\ Matches \subseteq 1 .. len
  BY <1>1, <1>2 DEF Matches, canHandle, len
<1>8. _currentHandler \in Nat /\ addedBefore \in Nat /\ cursor \in Nat
  BY <1>1 DEF HandlersIInv, HandlersTypeOK, Pointers
<1>9. Walked'
  BY <1>1, <1>2, <1>4, <1>6, <1>7, <1>8 DEF HandlersIInv, Walked
<1>10. FirstChosen'
  BY <1>1, <1>6, <1>7, <1>8 DEF HandlersIInv, FirstChosen
<1>11. UploadOfAnswer'
  <2> SUFFICES ASSUME routing = "answer" PROVE UploadOfAnswer'
    BY DEF UploadOfAnswer
  <2>1. CASE _currentHandler = 0
    BY <2>1 DEF HandlersIInv, UploadOfAnswer
  <2>2. CASE _currentHandler # 0
    <3>1. _currentHandler \in 1 .. len
      BY <1>7, <2>2 DEF HandlersIInv, FirstChosen
    <3> QED BY <1>2, <3>1 DEF HandlersIInv, UploadOfAnswer
  <2> QED BY <2>1, <2>2
<1> QED BY <1>3, <1>5, <1>9, <1>10, <1>11 DEF HandlersIInv

(* The sketch links the new handler behind the last one.                    *)
LEMMA LinkingKeeps ==
  ASSUME HandlersIInv, addRequestHandler \/ MoveLast
  PROVE  HandlersIInv'
<1> DEFINE len == Len(handlerList)
<1> USE DEF addRequestHandler, MoveLast, listVars, askedVars
<1>1. handlerList \in Seq(Handler) /\ len \in 1 .. MaxHandlers /\ MaxHandlers \in Nat
  BY HandlersAssumption DEF HandlersIInv, HandlersTypeOK, Chained
<1>2. _lastHandler = len - 1 /\ _lastHandler \in Nat /\ addedBefore <= _lastHandler /\ addedBefore \in Nat
  BY <1>1 DEF HandlersIInv, HandlersTypeOK, Pointers, Chained, Walked
<1>3. nextHandler \in [1 .. MaxHandlers -> Pointers]
  BY DEF HandlersIInv, HandlersTypeOK
<1>4. Matches' = Matches
  BY DEF Matches, canHandle
<1> HIDE DEF len
<1>5. len' = len /\ handlerList' = handlerList /\ handlerList # <<>>
  BY <1>1 DEF len
<1>6. Linked' = len /\ Linked <= len
  BY <1>1 DEF Linked, len
<1>7. CASE addRequestHandler
  <2>1. Linked = len - 1
    BY <1>1, <1>7 DEF Linked, len
  <2>2. nextHandler' = IF len = 1 THEN nextHandler ELSE [nextHandler EXCEPT ![len - 1] = len]
    BY <1>1, <1>2, <1>7 DEF LinkTo, len
  <2>3. nextHandler' \in [1 .. MaxHandlers -> Pointers]
    BY <1>1, <1>3, <2>2 DEF Pointers
  <2>4. _firstHandler' = 1
    BY <1>1, <1>2, <1>7, <2>1 DEF HandlersIInv, Chained, len
  <2>5. \A n \in 1 .. MaxHandlers : nextHandler'[n] = IF n < len THEN n + 1 ELSE 0
      <3> SUFFICES ASSUME NEW n \in 1 .. MaxHandlers PROVE nextHandler'[n] = IF n < len THEN n + 1 ELSE 0
      OBVIOUS
    <3>1. nextHandler[n] = IF n < len - 1 THEN n + 1 ELSE 0
      BY <2>1 DEF HandlersIInv, Chained
    <3>2. CASE n = len - 1
      BY <1>1, <1>3, <2>2, <3>2
    <3>3. CASE n # len - 1
      <4>1. nextHandler'[n] = nextHandler[n]
        BY <1>1, <1>3, <2>2, <3>3
      <4> QED BY <1>1, <3>1, <3>3, <4>1
    <3> QED BY <3>2, <3>3
  <2>6. Chained'
    BY <1>1, <1>2, <1>5, <1>6, <1>7, <2>4, <2>5 DEF Chained, len
  <2>7. HandlersTypeOK'
    BY <1>1, <1>7, <2>3, <2>4 DEF HandlersIInv, HandlersTypeOK, Pointers
  <2>8. Walked'
    BY <1>1, <1>2, <1>4, <1>6, <1>7 DEF HandlersIInv, Walked, HandlersTypeOK, Pointers, Linked
  <2>9. FirstChosen' /\ UploadOfAnswer'
    BY <1>4, <1>7 DEF HandlersIInv, FirstChosen, UploadOfAnswer
  <2> QED BY <2>6, <2>7, <2>8, <2>9 DEF HandlersIInv
<1>8. CASE MoveLast
  <2>1. Linked = len
    BY <1>1, <1>8 DEF Linked, len
  <2>2. _lastHandler' = len
    BY <1>8 DEF len
  <2>3. Chained'
    BY <1>1, <1>5, <1>6, <1>8, <2>1, <2>2 DEF HandlersIInv, Chained, len
  <2>4. HandlersTypeOK'
    BY <1>1, <1>8, <2>2 DEF HandlersIInv, HandlersTypeOK, Pointers
  <2>5. Walked'
    BY <1>1, <1>2, <1>4, <1>6, <1>8, <2>1, <2>2 DEF HandlersIInv, Walked
  <2>6. FirstChosen' /\ UploadOfAnswer'
    BY <1>4, <1>8 DEF HandlersIInv, FirstChosen, UploadOfAnswer
  <2> QED BY <2>3, <2>4, <2>5, <2>6 DEF HandlersIInv
<1> QED BY <1>7, <1>8

LEMMA NewRequestKeeps ==
  ASSUME HandlersIInv, NEW ask \in Asks, NewRequest(ask)
  PROVE  HandlersIInv'
<1> USE DEF NewRequest, listVars
<1>1. requestsAsked' \in 0 .. MaxAsked
  BY HandlersAssumption DEF HandlersIInv, HandlersTypeOK
<1>2. {_firstHandler', _lastHandler', cursor', _currentHandler', addedBefore'} \subseteq Pointers
  BY DEF HandlersIInv, HandlersTypeOK
<1>3. HandlersTypeOK'
  BY <1>1, <1>2 DEF HandlersIInv, HandlersTypeOK, Pointers
<1>4. Chained' /\ Linked' = Linked
  BY DEF HandlersIInv, Chained, Linked
<1>5. Len(handlerList) \in Nat /\ _firstHandler \in Nat /\ _lastHandler \in Nat
  BY HandlersAssumption DEF HandlersIInv, HandlersTypeOK, Pointers
<1>6. Matches' \subseteq 1 .. Len(handlerList)
  BY DEF Matches
<1>7. /\ Linked \in Nat /\ _firstHandler = (IF Linked = 0 THEN 0 ELSE 1)
      /\ _lastHandler <= Linked
  BY <1>5 DEF HandlersIInv, Chained, Linked, HandlersTypeOK
<1>8. Walked'
  BY <1>4, <1>5, <1>6, <1>7 DEF Walked
<1> QED BY <1>3, <1>4, <1>8 DEF HandlersIInv, FirstChosen, UploadOfAnswer

(* The walk passes a handler only when it does not fit.                     *)
LEMMA SearchKeeps ==
  ASSUME HandlersIInv, SearchHandler
  PROVE  HandlersIInv'
<1> USE DEF SearchHandler, listVars
<1>1. Len(handlerList) \in Nat /\ cursor \in Nat /\ addedBefore \in Nat /\ _lastHandler \in Nat /\ MaxHandlers \in Nat
  BY HandlersAssumption DEF HandlersIInv, HandlersTypeOK, Pointers
<1>2. Linked \in Nat /\ Linked <= Len(handlerList) /\ _lastHandler <= Linked /\ cursor <= Linked
  BY <1>1 DEF HandlersIInv, Chained, Linked, HandlersTypeOK, Walked
<1>3. Matches' = Matches /\ Chained' /\ Linked' = Linked
  BY DEF Matches, canHandle, HandlersIInv, Chained, Linked
<1>4. Matches \subseteq 1 .. Len(handlerList)
  BY DEF Matches
<1>5. cursor # 0 => (cursor \in Matches <=> canHandle(cursor, request.method, request.uri))
  BY <1>1, <1>2 DEF Matches
<1>6. Len(handlerList) <= MaxHandlers
  BY DEF HandlersIInv, HandlersTypeOK
<1>7. CASE WalkEnds
  <2>1. HandlersTypeOK'
    BY <1>7 DEF HandlersIInv, HandlersTypeOK
  <2>2. Walked'
    BY <1>3, <1>7 DEF HandlersIInv, Walked
  <2>3. FirstChosen'
    BY <1>3, <1>5, <1>7 DEF HandlersIInv, Walked, FirstChosen, WalkEnds
  <2>4. UploadOfAnswer'
      <3> SUFFICES ASSUME routing' = "answer" PROVE UploadOfAnswer'
      BY DEF UploadOfAnswer
    <3>1. ~(request.form /\ request.method \in WithBody)
      BY <1>7
    <3>2. formRead' = FALSE
      BY DEF HandlersIInv, Walked, HandlersTypeOK
    <3> QED BY <3>1, <3>2 DEF UploadOfAnswer
  <2> QED BY <1>3, <2>1, <2>2, <2>3, <2>4 DEF HandlersIInv
<1>8. CASE ~WalkEnds
  <2>1. cursor \in 1 .. MaxHandlers /\ cursor \notin Matches
    BY <1>1, <1>2, <1>5, <1>6, <1>8 DEF WalkEnds
  <2>2. cursor' = IF cursor < Linked THEN cursor + 1 ELSE 0
    BY <1>8, <2>1 DEF HandlersIInv, Chained
  <2>3. HandlersTypeOK'
    BY <1>1, <1>2, <1>6, <1>8, <2>2 DEF HandlersIInv, HandlersTypeOK, Pointers
  <2>4. \A n \in Matches : n > cursor
    BY <1>1, <1>4, <1>8, <2>1 DEF HandlersIInv, Walked
  <2>5. Walked'
    BY <1>1, <1>2, <1>3, <1>4, <1>8, <2>2, <2>4 DEF HandlersIInv, Walked
  <2>6. FirstChosen' /\ UploadOfAnswer'
    BY <1>8 DEF FirstChosen, UploadOfAnswer
  <2> QED BY <1>3, <2>3, <2>5, <2>6 DEF HandlersIInv
<1> QED BY <1>7, <1>8

LEMMA ReadFormKeeps ==
  ASSUME HandlersIInv, ReadForm
  PROVE  HandlersIInv'
<1> USE DEF ReadForm, listVars
<1>1. Matches' = Matches /\ Chained' /\ Linked' = Linked
  BY DEF Matches, canHandle, HandlersIInv, Chained, Linked
<1>2. _currentHandler = 0 \/ _currentHandler \in Matches
  BY DEF HandlersIInv, FirstChosen
<1>3. _currentHandler # 0 => handlerList[_currentHandler] \in Handler /\ handlerList[_currentHandler].uri = request.uri
  BY <1>2 DEF Matches, canHandle, HandlersIInv, HandlersTypeOK
<1>4. formRead' = (/\ _currentHandler # 0 /\ handlerList[_currentHandler].ufn
                   /\ handlerList[_currentHandler].method \in {"HTTP_ANY", "HTTP_POST"})
  BY <1>3 DEF canUpload, canHandle
<1>5. formRead' \in BOOLEAN
  BY <1>3, <1>4 DEF Handler
<1>6. HandlersTypeOK'
  BY <1>5 DEF HandlersIInv, HandlersTypeOK
<1>7. Walked' /\ FirstChosen'
  BY <1>1 DEF HandlersIInv, Walked, FirstChosen
<1>8. request.form /\ request.method \in WithBody
  BY DEF HandlersIInv, Walked
<1>9. UploadOfAnswer'
  BY <1>4, <1>8 DEF UploadOfAnswer
<1> QED BY <1>1, <1>6, <1>7, <1>9 DEF HandlersIInv

LEMMA HandlersKept == HandlersIInv /\ [HandlersNext]_handlerVars => HandlersIInv'
<1> SUFFICES ASSUME HandlersIInv, [HandlersNext]_handlerVars PROVE HandlersIInv'
  OBVIOUS
<1>1. CASE UNCHANGED handlerVars
  BY <1>1 DEF handlerVars, listVars, askedVars, HandlersIInv, HandlersTypeOK, Chained, Walked, Linked, FirstChosen,
     UploadOfAnswer, Matches, canHandle
<1>2. ASSUME NEW handler \in HandlerKinds, on(handler) \/ onWithUpload(handler) PROVE HandlersIInv'
  <2>1. \A ufn \in BOOLEAN : WithUpload(handler, ufn) \in Handler
    BY HandlersAssumption DEF WithUpload, Handler
  <2>2. _fileUploadHandler \in BOOLEAN
    BY DEF HandlersIInv, HandlersTypeOK
  <2> QED BY <1>2, <2>1, <2>2, MakeKeeps DEF on, onWithUpload
<1>3. CASE onFileUpload
  BY <1>3 DEF onFileUpload, listVars, askedVars, HandlersIInv, HandlersTypeOK, Chained, Walked, Linked, FirstChosen,
     UploadOfAnswer, Matches, canHandle
<1>4. CASE AnswerRequest
  BY <1>4 DEF AnswerRequest, listVars, HandlersIInv, HandlersTypeOK, Chained, Walked, Linked, FirstChosen,
     UploadOfAnswer, Matches, canHandle
<1> QED BY <1>1, <1>2, <1>3, <1>4, LinkingKeeps, NewRequestKeeps, SearchKeeps, ReadFormKeeps DEF HandlersNext

LEMMA HandlersImplied == HandlersIInv => HandlersInv
BY DEF HandlersIInv, HandlersInv

(***************************************************************************)
(* Loops.                                                                   *)
(***************************************************************************)
(* A set of numbers has a least one.                                        *)
LEMMA LeastOne ==
  ASSUME NEW T, T \subseteq Nat, T # {}
  PROVE  \E x \in T : \A y \in T : x <= y
<1>1. PICK x \in T : \A y \in T : ~ (<<y, x>> \in OpToRel(<, Nat))
  BY NatLessThanWellFounded, WFMin, Zenon
<1>2. \A y \in T : ~(y < x)
  <2>1. ASSUME NEW y \in T, y < x PROVE FALSE
    <3>1. <<y, x>> \in Nat \X Nat /\ <<y, x>>[1] < <<y, x>>[2]
      BY <2>1
    <3> QED BY <1>1, <3>1 DEF OpToRel
  <2> QED BY <2>1
<1> QED BY <1>2

(* A loop of n turns over the values of D, as a recursive function: turn i  *)
(* makes F[<<i, x>>] of x.  It exists, by the least number of turns for     *)
(* which it would not.                                                      *)
Loops(f, D, F, base, n) ==
  f \in [0 .. n -> D] /\ f[0] = base /\ \A i \in 1 .. n : f[i] = F[<<i, f[i - 1]>>]

LEMMA LoopExists ==
  ASSUME NEW D, NEW n \in Nat, NEW F \in [(1 .. n) \X D -> D], NEW base \in D
  PROVE  \E f : Loops(f, D, F, base, n)
<1> DEFINE T == {m \in 0 .. n : ~ \E f : Loops(f, D, F, base, m)}
<1> SUFFICES ASSUME T # {} PROVE FALSE
  BY DEF Loops
<1>1. PICK m \in T : \A y \in T : m <= y
  <2>1. T \subseteq Nat
    OBVIOUS
  <2> QED BY <2>1, LeastOne
<1>2. CASE m = 0
  <2> DEFINE f == [i \in 0 .. 0 |-> base]
  <2>1. Loops(f, D, F, base, 0)
    BY DEF Loops
  <2> QED BY <1>1, <1>2, <2>1
<1>3. CASE m # 0
  <2>1. m \in 1 .. n /\ m - 1 \in 0 .. n /\ ~(m <= m - 1)
    BY <1>1, <1>3
  <2>2. m - 1 \notin T
    BY <1>1, <2>1
  <2>3. PICK f : Loops(f, D, F, base, m - 1)
    BY <2>1, <2>2
  <2> DEFINE g == [i \in 0 .. m |-> IF i = m THEN F[<<m, f[m - 1]>>] ELSE f[i]]
  <2>4. f \in [0 .. m - 1 -> D] /\ f[0] = base /\ \A i \in 1 .. m - 1 : f[i] = F[<<i, f[i - 1]>>]
    BY <2>3 DEF Loops
  <2>5. F[<<m, f[m - 1]>>] \in D
    BY <2>1, <2>4
  <2>6. g \in [0 .. m -> D]
    BY <2>1, <2>4, <2>5
  <2>7. g[0] = base
    BY <2>1, <2>4
  <2>8. ASSUME NEW i \in 1 .. m PROVE g[i] = F[<<i, g[i - 1]>>]
    <3>1. g[i - 1] = f[i - 1]
      BY <2>1
    <3> QED BY <2>1, <2>4, <3>1
  <2> HIDE DEF g
  <2>9. Loops(g, D, F, base, m)
    BY <2>6, <2>7, <2>8 DEF Loops
  <2> QED BY <1>1, <2>9
<1> QED BY <1>2, <1>3

(* What holds at the start and is kept by every turn holds at the end: P is *)
(* the set of the turns after which it holds.                               *)
LEMMA EveryTurn ==
  ASSUME NEW n \in Nat, NEW P, 0 \in P, \A i \in 1 .. n : i - 1 \in P => i \in P
  PROVE  0 .. n \subseteq P
<1> DEFINE T == (0 .. n) \ P
<1> SUFFICES ASSUME T # {} PROVE FALSE
  OBVIOUS
<1>1. T \subseteq Nat
  OBVIOUS
<1>2. PICK m \in T : \A y \in T : m <= y
  BY <1>1, LeastOne
<1>3. m \in 1 .. n /\ ~(m <= m - 1)
  BY <1>2
<1>4. m - 1 \in P
  BY <1>2, <1>3
<1> QED BY <1>2, <1>3, <1>4

(***************************************************************************)
(* The headers of a request (WebResponse).                                  *)
(***************************************************************************)
KeptValues == [DOMAIN _currentHeaders -> 0 .. 2]

LEMMA CollectingIs ==
  ASSUME _currentHeaders \in [DOMAIN _currentHeaders -> 0 .. 2], NEW lines \in Seq(HeaderLines)
  PROVE  /\ Collecting(lines) \in [0 .. Len(lines) -> KeptValues] /\ Collecting(lines)[0] = Forgotten
         /\ \A i \in 1 .. Len(lines) :
              Collecting(lines)[i] = collectHeader(Collecting(lines)[i - 1], lines[i])
<1> DEFINE n == Len(lines)
           F == [p \in (1 .. n) \X KeptValues |-> collectHeader(p[2], lines[p[1]])]
           Is(f) == f = [i \in 0 .. n |-> IF i = 0 THEN Forgotten ELSE collectHeader(f[i - 1], lines[i])]
<1>1. n \in Nat /\ Forgotten \in KeptValues
  BY DEF Forgotten, KeptValues
<1>2. \A i \in 1 .. n, x \in KeptValues : collectHeader(x, lines[i]) \in KeptValues
  <2>1. ASSUME NEW i \in 1 .. n PROVE lines[i].value \in 0 .. 2
    <3>1. lines[i] \in HeaderLines
      BY <1>1, ElementOfSeq
    <3>2. CASE lines[i] = NoColon
      <4>1. NoColon.value = 0
        BY DEF NoColon
      <4> QED BY <3>2, <4>1
    <3>3. CASE lines[i] # NoColon
      BY <3>1, <3>3 DEF HeaderLines
    <3> QED BY <3>2, <3>3
  <2> QED BY <2>1 DEF collectHeader, KeptValues
<1>3. F \in [(1 .. n) \X KeptValues -> KeptValues]
  BY <1>2
<1>4. \A i \in 1 .. n, x \in KeptValues : F[<<i, x>>] = collectHeader(x, lines[i])
  OBVIOUS
<1> HIDE DEF F
<1>5. PICK f : Loops(f, KeptValues, F, Forgotten, n)
  BY <1>1, <1>3, LoopExists
<1>6. /\ f \in [0 .. n -> KeptValues] /\ f[0] = Forgotten
      /\ \A i \in 1 .. n : f[i] = collectHeader(f[i - 1], lines[i])
  <2>1. f \in [0 .. n -> KeptValues] /\ f[0] = Forgotten /\ \A i \in 1 .. n : f[i] = F[<<i, f[i - 1]>>]
    BY <1>5 DEF Loops
  <2>2. \A i \in 1 .. n : i - 1 \in 0 .. n
    BY <1>1
  <2> QED BY <1>4, <2>1, <2>2
<1>7. Is(f)
  <2>1. \A i \in 0 .. n : f[i] = IF i = 0 THEN Forgotten ELSE collectHeader(f[i - 1], lines[i])
    BY <1>1, <1>6
  <2>2. f = [i \in 0 .. n |-> f[i]]
    BY <1>6
  <2> QED BY <2>1, <2>2
<1> DEFINE c == Collecting(lines)
<1>8. c = CHOOSE g : Is(g)
  BY DEF Collecting
<1>9. Is(c)
  BY <1>7, <1>8
<1>10. c[0] = Forgotten /\ \A i \in 1 .. n : c[i] = collectHeader(c[i - 1], lines[i])
  <2> HIDE DEF c
  <2> QED BY <1>1, <1>9
<1>11. \A i \in 0 .. n : c[i] \in KeptValues
  <2> DEFINE P == {i \in 0 .. n : c[i] \in KeptValues}
  <2>1. 0 \in P
    BY <1>1, <1>10
  <2>2. \A i \in 1 .. n : i - 1 \in P => i \in P
    BY <1>1, <1>2, <1>10
  <2>3. 0 .. n \subseteq P
    <3> HIDE DEF P
    <3> QED BY <1>1, <2>1, <2>2, EveryTurn
  <2> QED BY <2>3
<1>12. c \in [0 .. n -> KeptValues]
  <2>1. DOMAIN c = 0 .. n /\ c = [i \in DOMAIN c |-> c[i]]
    <3> HIDE DEF c
    <3> QED BY <1>9
  <2> QED BY <1>11, <2>1
<1> QED BY <1>10, <1>12

(* The last of the lines that has a name gives its value.                   *)
LastOf(value, lines, n, name) ==
  LET named == {i \in 1 .. n : lines[i].name = name}
  IN  IF named = {} THEN value = 0
      ELSE \E i \in named : value = lines[i].value /\ \A j \in named : j <= i

LEMMA CollectedIs ==
  ASSUME _currentHeaders \in KeptValues, NEW lines \in Seq(HeaderLines)
  PROVE  /\ Collected(lines) \in KeptValues
         /\ \A name \in DOMAIN _currentHeaders : LastOf(Collected(lines)[name], lines, Len(lines), name)
<1> DEFINE c == Collecting(lines)
           n == Len(lines)
<1>1. n \in Nat
  BY LenProperties
<1>2. /\ c \in [0 .. n -> KeptValues] /\ c[0] = Forgotten
      /\ \A i \in 1 .. n : c[i] = collectHeader(c[i - 1], lines[i])
  BY CollectingIs DEF KeptValues
<1>3. Collected(lines) = c[n]
  BY DEF Collected
<1> HIDE DEF c, n
<1>4. ASSUME NEW name \in DOMAIN _currentHeaders PROVE LastOf(c[n][name], lines, n, name)
  <2> DEFINE P == {i \in 0 .. n : LastOf(c[i][name], lines, i, name)}
  <2>1. 0 \in P
    <3>1. c[0][name] = 0
      BY <1>2 DEF Forgotten
    <3> QED BY <1>1, <3>1 DEF LastOf
  <2>2. ASSUME NEW i \in 1 .. n, i - 1 \in P PROVE i \in P
    <3> DEFINE before == {j \in 1 .. i - 1 : lines[j].name = name}
               after  == {j \in 1 .. i : lines[j].name = name}
    <3>1. i \in Nat /\ i - 1 \in 0 .. n
      BY <1>1
    <3>2. c[i - 1] \in KeptValues /\ c[i] = collectHeader(c[i - 1], lines[i])
      BY <1>2, <3>1
    <3>3. IF before = {} THEN c[i - 1][name] = 0
          ELSE \E k \in before : c[i - 1][name] = lines[k].value /\ \A j \in before : j <= k
      BY <2>2 DEF LastOf
    <3>4. after = IF lines[i].name = name THEN before \cup {i} ELSE before
      <4>1. \A j : j \in 1 .. i <=> j \in 1 .. i - 1 \/ j = i
        BY <3>1
      <4> QED BY <4>1
    <3>5. \A j \in before : j <= i
      BY <3>1
    <3> SUFFICES IF after = {} THEN c[i][name] = 0
                 ELSE \E k \in after : c[i][name] = lines[k].value /\ \A j \in after : j <= k
      BY DEF LastOf
    <3> HIDE DEF before, after
    <3>6. CASE lines[i].name = name
      <4>1. c[i][name] = lines[i].value
        BY <3>2, <3>6 DEF collectHeader, KeptValues
      <4> QED BY <3>1, <3>4, <3>5, <3>6, <4>1
    <3>7. CASE lines[i].name # name
      <4>1. c[i][name] = c[i - 1][name]
        BY <3>2, <3>7 DEF collectHeader, KeptValues
      <4> QED BY <3>3, <3>4, <3>7, <4>1
    <3> QED BY <3>6, <3>7
  <2> HIDE DEF P
  <2>3. 0 .. n \subseteq P
    BY <1>1, <2>1, <2>2, EveryTurn
  <2> QED BY <1>1, <2>3 DEF P
<1> QED BY <1>1, <1>2, <1>3, <1>4 DEF n

(* The lines up to one without a colon.                                     *)
LEMMA LinesAre ==
  ASSUME NEW headerLines \in Seq(HeaderLines)
  PROVE  /\ Lines(headerLines) \in Seq(HeaderLines) /\ Len(Lines(headerLines)) \in 0 .. Len(headerLines)
         /\ \A i \in 1 .. Len(Lines(headerLines)) : Lines(headerLines)[i] = headerLines[i]
         /\ \A i \in 1 .. Len(headerLines) :
              i \in 1 .. Len(Lines(headerLines)) <=> \A j \in 1 .. i : headerLines[j] # NoColon
<1> DEFINE ends == {i \in DOMAIN headerLines : headerLines[i] = NoColon}
           n    == Len(headerLines)
<1>1. n \in Nat /\ DOMAIN headerLines = 1 .. n
  BY LenProperties
<1>2. CASE ends = {}
  <2>1. Lines(headerLines) = headerLines
    BY <1>2 DEF Lines
  <2>2. \A i \in 1 .. n : \A j \in 1 .. i : headerLines[j] # NoColon
    BY <1>1, <1>2
  <2> QED BY <1>1, <2>1, <2>2
<1>3. CASE ends # {}
  <2> DEFINE m == Min(ends)
  <2>1. ends \subseteq Nat
    BY <1>1
  <2>2. m \in ends /\ \A y \in ends : m <= y
    <3>1. \E x \in ends : \A y \in ends : x <= y
      BY <1>3, <2>1, LeastOne
    <3> QED BY <3>1 DEF Min
  <2> HIDE DEF m
  <2>3. m \in 1 .. n
    BY <1>1, <2>2
  <2>4. Lines(headerLines) = SubSeq(headerLines, 1, m - 1)
    BY <1>3 DEF Lines, m
  <2>5. /\ Lines(headerLines) \in Seq(HeaderLines) /\ Len(Lines(headerLines)) = m - 1
        /\ \A i \in 1 .. m - 1 : Lines(headerLines)[i] = headerLines[i]
    BY <1>1, <2>3, <2>4, SubSeqProperties
  <2>6. ASSUME NEW i \in 1 .. n PROVE i \in 1 .. m - 1 <=> \A j \in 1 .. i : headerLines[j] # NoColon
    <3>1. CASE i < m
      BY <1>1, <2>2, <2>3, <3>1
    <3>2. CASE ~(i < m)
      BY <1>1, <2>2, <2>3, <3>2
    <3> QED BY <3>1, <3>2
  <2> QED BY <1>1, <2>3, <2>5, <2>6
<1> QED BY <1>2, <1>3

LEMMA ParsedHeadersOwn ==
  ASSUME ResponseTypeOK, NEW headerLines \in RequestLines, parseHeaders(headerLines)
  PROVE  HeadersOwn' /\ _currentHeaders' \in KeptValues /\ DOMAIN _currentHeaders' = DOMAIN _currentHeaders
<1> DEFINE lines == Lines(headerLines)
           m     == Len(lines)
<1>1. headerLines \in Seq(HeaderLines)
  BY ResponseAssumption
<1>2. _currentHeaders \in KeptValues
  BY DEF ResponseTypeOK, KeptValues
<1>3. /\ lines \in Seq(HeaderLines) /\ m \in 0 .. Len(headerLines)
      /\ \A i \in 1 .. m : lines[i] = headerLines[i]
      /\ \A i \in 1 .. Len(headerLines) : i \in 1 .. m <=> \A j \in 1 .. i : headerLines[j] # NoColon
  BY <1>1, LinesAre
<1>4. _currentHeaders' = Collected(lines) /\ requestLines' = headerLines
  BY DEF parseHeaders
<1>5. /\ Collected(lines) \in KeptValues
      /\ \A name \in DOMAIN _currentHeaders : LastOf(Collected(lines)[name], lines, m, name)
  BY <1>2, <1>3, CollectedIs
<1>6. DOMAIN _currentHeaders' = DOMAIN _currentHeaders
  BY <1>4, <1>5 DEF KeptValues
<1> HIDE DEF lines, m
<1>7. ASSUME NEW name \in DOMAIN _currentHeaders'
      PROVE  LET places == {i \in DOMAIN headerLines :
                              headerLines[i].name = name /\ \A j \in 1 .. i : headerLines[j] # NoColon}
             IN  headerOf(name)' = IF places = {} THEN 0 ELSE headerLines[Max(places)].value
  <2> DEFINE places == {i \in DOMAIN headerLines :
                          headerLines[i].name = name /\ \A j \in 1 .. i : headerLines[j] # NoColon}
             named  == {i \in 1 .. m : lines[i].name = name}
             value  == Collected(lines)[name]
  <2>1. places = named
    <3>1. DOMAIN headerLines = 1 .. Len(headerLines) /\ Len(headerLines) \in Nat
      BY <1>1, LenProperties
    <3>2. 1 .. m \subseteq 1 .. Len(headerLines)
      BY <1>3, <3>1
    <3> QED BY <1>3, <3>1, <3>2
  <2>2. headerOf(name)' = value
    BY <1>4, <1>7 DEF headerOf
  <2>3. IF named = {} THEN value = 0
        ELSE \E i \in named : value = lines[i].value /\ \A j \in named : j <= i
    BY <1>5, <1>6, <1>7 DEF LastOf
  <2>4. \A i \in named : i \in Nat /\ lines[i] = headerLines[i]
    BY <1>3
  <2> HIDE DEF places, named, value
  <2>5. CASE named # {}
    <3>1. PICK i \in named : value = lines[i].value /\ \A j \in named : j <= i
      BY <2>3, <2>5
    <3>2. Max(named) = i
      <4>1. Max(named) \in named /\ \A j \in named : Max(named) >= j
        BY <2>4, <3>1 DEF Max
      <4> QED BY <2>4, <3>1, <4>1
    <3> QED BY <2>1, <2>2, <2>4, <2>5, <3>1, <3>2 DEF places
  <2>6. CASE named = {}
    BY <2>1, <2>2, <2>3, <2>6 DEF places
  <2> QED BY <2>5, <2>6
<1> QED BY <1>4, <1>5, <1>6, <1>7 DEF HeadersOwn

(***************************************************************************)
(* What is sent of a content.                                               *)
(***************************************************************************)
Rising(b, low, high) ==
  /\ b \in Seq(Nat) /\ \A i \in 1 .. Len(b) : low < b[i] /\ b[i] <= high
  /\ \A i \in 1 .. Len(b) : i > 1 => b[i - 1] < b[i]

LEMMA RisingOn ==
  ASSUME NEW low \in Nat, NEW mid \in Nat, NEW high \in Nat, low <= mid, mid <= high,
         NEW b, NEW c, Rising(b, low, mid), Rising(c, mid, high)
  PROVE  Rising(b \o c, low, high)
<1>1. /\ b \in Seq(Nat) /\ c \in Seq(Nat)
  BY DEF Rising
<1>2. PICK lb \in Nat : lb = Len(b)
  BY <1>1, LenProperties
<1>3. PICK lc \in Nat : lc = Len(c)
  BY <1>1, LenProperties
<1>4. PICK d \in Seq(Nat) : d = b \o c
  BY <1>1, ConcatProperties
<1>5. Len(d) = lb + lc /\ \A i \in 1 .. lb + lc : d[i] = IF i <= lb THEN b[i] ELSE c[i - lb]
  BY <1>1, <1>2, <1>3, <1>4, ConcatProperties
<1>6. /\ \A i \in 1 .. lb : b[i] \in Nat /\ low < b[i] /\ b[i] <= mid /\ (i > 1 => b[i - 1] < b[i])
      /\ \A i \in 1 .. lc : c[i] \in Nat /\ mid < c[i] /\ c[i] <= high /\ (i > 1 => c[i - 1] < c[i])
  BY <1>1, <1>2, <1>3, ElementOfSeq DEF Rising
<1>7. ASSUME NEW i \in 1 .. lb + lc
      PROVE  low < d[i] /\ d[i] <= high /\ (i > 1 => d[i - 1] < d[i])
  <2>1. CASE i <= lb
    <3>1. i \in 1 .. lb /\ d[i] = b[i]
      BY <1>5, <2>1
    <3>2. i > 1 => i - 1 \in 1 .. lb + lc /\ i - 1 <= lb
      BY <2>1
    <3>3. i > 1 => d[i - 1] = b[i - 1]
      BY <1>5, <3>2
    <3>4. b[i] \in Nat /\ low < b[i] /\ b[i] <= mid /\ (i > 1 => b[i - 1] < b[i])
      BY <1>6, <3>1
    <3>5. low < b[i] /\ b[i] <= high
      BY <3>4
    <3> QED BY <3>1, <3>3, <3>4, <3>5
  <2>2. CASE i > lb
    <3>1. i - lb \in 1 .. lc /\ ~(i <= lb)
      BY <2>2
    <3>2. d[i] = c[i - lb]
      BY <1>5, <3>1
    <3>3. c[i - lb] \in Nat /\ mid < c[i - lb] /\ c[i - lb] <= high
      BY <1>6, <3>1
    <3>4. low < d[i] /\ d[i] <= high
      BY <3>2, <3>3
    <3>5. CASE i = lb + 1
      <4>1. i > 1 => i - 1 \in 1 .. lb + lc /\ i - 1 <= lb /\ i - 1 \in 1 .. lb
        BY <3>5
      <4>2. i > 1 => d[i - 1] = b[i - 1] /\ b[i - 1] \in Nat /\ b[i - 1] <= mid
        BY <1>5, <1>6, <4>1
      <4> QED BY <3>2, <3>3, <3>4, <4>2
    <3>6. CASE i # lb + 1
      <4>1. /\ i - 1 \in 1 .. lb + lc /\ ~(i - 1 <= lb) /\ (i - 1) - lb = (i - lb) - 1
            /\ i - lb > 1
        BY <2>2, <3>6
      <4>2. d[i - 1] = c[(i - lb) - 1]
        BY <1>5, <4>1
      <4>3. c[(i - lb) - 1] < c[i - lb]
        BY <1>6, <3>1, <4>1
      <4> QED BY <3>2, <3>4, <4>2, <4>3
    <3> QED BY <3>5, <3>6
  <2> QED BY <2>1, <2>2
<1> QED BY <1>4, <1>5, <1>7 DEF Rising

LEMMA NumberedIs ==
  ASSUME meant \in Nat, NEW n \in Nat
  PROVE  /\ Numbered(n) \in Seq(Nat) /\ Len(Numbered(n)) = n
         /\ \A k \in 1 .. n : Numbered(n)[k] = meant + k
BY DEF Numbered

(* A part of it, from the byte behind the first a.                          *)
LEMMA PartRises ==
  ASSUME meant \in Nat, NEW n \in Nat, NEW a \in Nat, NEW e \in 0 .. n
  PROVE  /\ a <= e => Rising(SubSeq(Numbered(n), a + 1, e), meant + a, meant + e)
         /\ a > e => SubSeq(Numbered(n), a + 1, e) = <<>>
<1> DEFINE s == Numbered(n)
           p == SubSeq(s, a + 1, e)
<1>1. s \in Seq(Nat) /\ Len(s) = n /\ \A k \in 1 .. n : s[k] = meant + k
  BY NumberedIs
<1> HIDE DEF s
<1>2. CASE a <= e
  <2>1. /\ p \in Seq(Nat) /\ Len(p) = e - a
        /\ \A i \in 1 .. e - a : p[i] = s[a + i]
    <3>1. a + 1 \in 1 .. n + 1 /\ e \in a .. n
      BY <1>2
    <3>2. /\ p \in Seq(Nat) /\ Len(p) = (e - (a + 1)) + 1
          /\ \A i \in 1 .. (e - (a + 1)) + 1 : p[i] = s[(a + 1) + i - 1]
      BY <1>1, <3>1, SubSeqProperties
    <3> QED BY <1>2, <3>2
  <2>2. \A i \in 1 .. e - a : p[i] = meant + (a + i)
    BY <1>1, <1>2, <2>1
  <2> HIDE DEF p
  <2>3. Rising(p, meant + a, meant + e)
    BY <1>2, <2>1, <2>2 DEF Rising
  <2> QED BY <1>2, <2>3 DEF p, s
<1>3. CASE a > e
  <2>1. p = <<>>
    BY <1>1, <1>3, SubSeqProperties
  <2> QED BY <1>3, <2>1 DEF s
<1> QED BY <1>2, <1>3

LEMMA SendContentRises ==
  ASSUME meant \in Nat, NEW n \in Nat, NEW b \in sendContent(n)
  PROVE  Rising(b, meant, meant + n)
<1>1. PICK k \in 0 .. n : b = SubSeq(Numbered(n), 1, k)
  BY DEF sendContent
<1>2. b = SubSeq(Numbered(n), 0 + 1, k)
  BY <1>1
<1>3. 0 <= k /\ 0 \in Nat
  OBVIOUS
<1>4. Rising(b, meant + 0, meant + k)
  BY <1>2, <1>3, PartRises
<1> QED BY <1>1, <1>4, ElementOfSeq DEF Rising

LEMMA UnitRises ==
  ASSUME meant \in Nat, NEW n \in Nat, NEW u \in Nat \ {0}, NEW k \in 0 .. UNIT, NEW a \in Nat, a = (u - 1) * UNIT
  PROVE  /\ Unit(n, u, k) \in Seq(Nat)
         /\ Rising(Unit(n, u, k), meant + Least(n, a), meant + Least(n, a + UNIT))
<1> DEFINE e == Least(n, a + k)
           p == SubSeq(Numbered(n), a + 1, e)
<1>1. UNIT \in Nat /\ k \in Nat /\ e \in 0 .. n
  BY ResponseAssumption DEF Least
<1>2. Unit(n, u, k) = p
  BY DEF Unit
<1>3. /\ a <= e => Rising(p, meant + a, meant + e)
      /\ a > e => p = <<>>
  BY <1>1, PartRises
<1> HIDE DEF p
<1>4. CASE a <= e
  <2>1. Rising(p, meant + a, meant + e) /\ Least(n, a) = a /\ e <= Least(n, a + UNIT)
    BY <1>1, <1>3, <1>4 DEF Least
  <2>2. \A i \in 1 .. Len(p) : p[i] \in Nat
    BY <2>1, ElementOfSeq DEF Rising
  <2>3. Least(n, a + UNIT) \in Nat
    BY <1>1 DEF Least
  <2> HIDE DEF e
  <2> QED BY <1>1, <1>2, <2>1, <2>2, <2>3 DEF Rising
<1>5. CASE a > e
  <2>1. p = <<>> /\ p \in Seq(Nat) /\ Len(p) = 0
    BY <1>3, <1>5
  <2> QED BY <1>2, <2>1 DEF Rising
<1> QED BY <1>1, <1>4, <1>5

LEMMA SendingIs ==
  ASSUME meant \in Nat, NEW n \in Nat, NEW m \in Nat, NEW takes \in [1 .. m -> 0 .. UNIT]
  PROVE  /\ Sending(n, takes)[0] = <<>>
         /\ \A u \in 1 .. m : Sending(n, takes)[u] = Sending(n, takes)[u - 1] \o Unit(n, u, takes[u])
<1> DEFINE F == [p \in (1 .. m) \X Seq(Nat) |-> p[2] \o Unit(n, p[1], takes[p[1]])]
           Is(f) == f = [u \in {0} \cup DOMAIN takes |-> IF u = 0 THEN <<>> ELSE f[u - 1] \o Unit(n, u, takes[u])]
           c == Sending(n, takes)
<1>1. {0} \cup DOMAIN takes = 0 .. m
  OBVIOUS
<1>2. \A u \in 1 .. m : Unit(n, u, takes[u]) \in Seq(Nat)
  <2> SUFFICES ASSUME NEW u \in 1 .. m PROVE Unit(n, u, takes[u]) \in Seq(Nat)
    OBVIOUS
  <2>1. u \in Nat \ {0} /\ takes[u] \in 0 .. UNIT /\ (u - 1) * UNIT \in Nat
    BY ResponseAssumption
  <2> QED BY <2>1, UnitRises
<1>3. F \in [(1 .. m) \X Seq(Nat) -> Seq(Nat)]
  BY <1>2, ConcatProperties
<1>4. \A u \in 1 .. m, x \in Seq(Nat) : F[<<u, x>>] = x \o Unit(n, u, takes[u])
  OBVIOUS
<1> HIDE DEF F
<1>5. PICK f : Loops(f, Seq(Nat), F, <<>>, m)
  <2>1. <<>> \in Seq(Nat)
    OBVIOUS
  <2> QED BY <1>3, <2>1, LoopExists
<1>6. /\ f \in [0 .. m -> Seq(Nat)] /\ f[0] = <<>>
      /\ \A u \in 1 .. m : f[u] = f[u - 1] \o Unit(n, u, takes[u])
  <2>1. f \in [0 .. m -> Seq(Nat)] /\ f[0] = <<>> /\ \A i \in 1 .. m : f[i] = F[<<i, f[i - 1]>>]
    BY <1>5 DEF Loops
  <2>2. \A i \in 1 .. m : i - 1 \in 0 .. m
    OBVIOUS
  <2> QED BY <1>4, <2>1, <2>2
<1>7. Is(f)
  <2>1. \A u \in 0 .. m : f[u] = IF u = 0 THEN <<>> ELSE f[u - 1] \o Unit(n, u, takes[u])
    <3>1. \A u \in 0 .. m : u # 0 => u \in 1 .. m
      OBVIOUS
    <3> QED BY <1>6, <3>1, Zenon
  <2>2. f = [u \in 0 .. m |-> f[u]]
    BY <1>6
  <2> QED BY <1>1, <2>1, <2>2
<1>8. c = CHOOSE g : Is(g)
  BY DEF Sending
<1>9. Is(c)
  BY <1>7, <1>8
<1> HIDE DEF c
<1>10. \A u \in 0 .. m : c[u] = IF u = 0 THEN <<>> ELSE c[u - 1] \o Unit(n, u, takes[u])
  BY <1>1, <1>9
<1>11. 0 \in 0 .. m /\ \A u \in 1 .. m : u \in 0 .. m /\ u # 0
  OBVIOUS
<1> QED BY <1>10, <1>11, Zenon DEF c

LEMMA SendContentPRises ==
  ASSUME meant \in Nat, NEW n \in Nat, NEW b \in sendContent_P(n)
  PROVE  Rising(b, meant, meant + n)
<1> DEFINE m == Units_P(n)
<1>1. PICK takes \in [1 .. m -> 0 .. UNIT] : b = Sending(n, takes)[m]
  BY DEF sendContent_P
<1>2. UNIT \in Nat \ {0} /\ m \in Nat
  BY ResponseAssumption DEF Units_P
<1> HIDE DEF m
<1> DEFINE c == Sending(n, takes)
           High(u) == meant + Least(n, u * UNIT)
           P == {u \in 0 .. m : Rising(c[u], meant, High(u))}
<1>3. c[0] = <<>> /\ \A u \in 1 .. m : c[u] = c[u - 1] \o Unit(n, u, takes[u])
  BY <1>2, SendingIs
<1> HIDE DEF c
<1>4. 0 \in P
  <2>1. <<>> \in Seq(Nat) /\ Len(<<>>) = 0
    OBVIOUS
  <2>2. Rising(c[0], meant, High(0))
    BY <1>3, <2>1 DEF Rising
  <2> QED BY <1>2, <2>2
<1>5. ASSUME NEW u \in 1 .. m, u - 1 \in P PROVE u \in P
  <2>1. PICK a \in Nat : a = (u - 1) * UNIT
    BY <1>2
  <2>2. u * UNIT = a + UNIT
    BY <1>2, <2>1
  <2>3. u \in Nat \ {0} /\ takes[u] \in 0 .. UNIT
    BY <1>1
  <2>4. Rising(Unit(n, u, takes[u]), meant + Least(n, a), meant + Least(n, a + UNIT))
    BY <2>1, <2>3, UnitRises
  <2>5. Rising(c[u - 1], meant, meant + Least(n, a))
    BY <1>5, <2>1
  <2>6. /\ Least(n, a) \in Nat /\ Least(n, a + UNIT) \in Nat /\ Least(n, a) <= Least(n, a + UNIT)
    BY <1>2 DEF Least
  <2>7. Rising(c[u - 1] \o Unit(n, u, takes[u]), meant, meant + Least(n, a + UNIT))
    <3>1. /\ meant + Least(n, a) \in Nat /\ meant + Least(n, a + UNIT) \in Nat
          /\ meant <= meant + Least(n, a) /\ meant + Least(n, a) <= meant + Least(n, a + UNIT)
      BY <2>6
    <3> QED BY <2>4, <2>5, <3>1, RisingOn
  <2>8. High(u) = meant + Least(n, a + UNIT)
    BY <2>2
  <2> HIDE DEF High
  <2>9. c[u] = c[u - 1] \o Unit(n, u, takes[u])
    BY <1>3
  <2>10. u \in 0 .. m
    OBVIOUS
  <2> QED BY <2>7, <2>8, <2>9, <2>10
<1> HIDE DEF P
<1>6. 0 .. m \subseteq P
  BY <1>2, <1>4, <1>5, EveryTurn
<1>7. Rising(c[m], meant, High(m))
  BY <1>2, <1>6 DEF P
<1>8. High(m) <= meant + n /\ High(m) \in Nat
  BY <1>2 DEF Least
<1>9. \A i \in 1 .. Len(b) : b[i] \in Nat
  BY <1>1, <1>7, ElementOfSeq DEF Rising, c
<1> HIDE DEF High
<1> QED BY <1>1, <1>7, <1>8, <1>9 DEF Rising, c

(***************************************************************************)
(* The steps of a response.                                                 *)
(***************************************************************************)
Owned(lines) == \A i \in DOMAIN lines : lines[i].by = requestNumber

HeadNames == {"X", "Content-Type", "Content-Length", "Connection", "WWW-Authenticate"}

LEMMA OwnedOn ==
  ASSUME NEW b \in Seq(ResponseHeads), NEW c \in Seq(ResponseHeads), Owned(b), Owned(c)
  PROVE  Owned(b \o c)
<1>1. /\ Len(b) \in Nat /\ Len(c) \in Nat /\ b \o c \in Seq(ResponseHeads) /\ Len(b \o c) = Len(b) + Len(c)
      /\ \A i \in 1 .. Len(b) + Len(c) : (b \o c)[i] = IF i <= Len(b) THEN b[i] ELSE c[i - Len(b)]
  BY ConcatProperties, LenProperties
<1>2. PICK d \in Seq(ResponseHeads) : d = b \o c
  BY <1>1
<1>3. DOMAIN d = 1 .. Len(b) + Len(c) /\ DOMAIN b = 1 .. Len(b) /\ DOMAIN c = 1 .. Len(c)
  BY <1>1, <1>2, LenProperties
<1>4. ASSUME NEW i \in DOMAIN d PROVE d[i].by = requestNumber
  <2>1. CASE i <= Len(b)
    <3>1. i \in DOMAIN b /\ d[i] = b[i]
      BY <1>1, <1>2, <1>3, <2>1
    <3> QED BY <3>1 DEF Owned
  <2>2. CASE ~(i <= Len(b))
    <3>1. i - Len(b) \in DOMAIN c /\ d[i] = c[i - Len(b)]
      BY <1>1, <1>2, <1>3, <2>2
    <3> QED BY <3>1 DEF Owned
  <2> QED BY <2>1, <2>2
<1> QED BY <1>2, <1>4 DEF Owned

LEMMA WithHeaderIs ==
  ASSUME requestNumber \in Nat, NEW lines \in Seq(ResponseHeads), NEW name \in HeadNames, NEW first \in BOOLEAN
  PROVE  /\ WithHeader(lines, name, first) \in Seq(ResponseHeads)
         /\ Owned(lines) => Owned(WithHeader(lines, name, first))
<1> DEFINE h == [name |-> name, by |-> requestNumber]
<1>1. h \in ResponseHeads /\ h.by = requestNumber
  BY DEF ResponseHeads, HeadNames
<1> HIDE DEF h
<1>2. <<h>> \in Seq(ResponseHeads) /\ DOMAIN <<h>> = {1} /\ <<h>>[1] = h
  BY <1>1
<1>3. Owned(<<h>>)
  BY <1>1, <1>2 DEF Owned
<1>4. Append(lines, h) = lines \o <<h>>
  BY <1>1, AppendIsConcat
<1>5. WithHeader(lines, name, first) = IF first THEN <<h>> \o lines ELSE lines \o <<h>>
  BY <1>4 DEF WithHeader, h
<1>6. <<h>> \o lines \in Seq(ResponseHeads) /\ lines \o <<h>> \in Seq(ResponseHeads)
  BY <1>2, ConcatProperties
<1> QED BY <1>2, <1>3, <1>5, <1>6, OwnedOn

LEMMA PreparedIs ==
  ASSUME requestNumber \in Nat, NEW lines \in Seq(ResponseHeads), NEW n
  PROVE  /\ prepareHeader(lines, n) \in Seq(ResponseHeads)
         /\ Owned(lines) => Owned(prepareHeader(lines, n))
<1> DEFINE typed  == WithHeader(lines, "Content-Type", TRUE)
           length == IF PromisedLength(n) = LengthUnknown THEN typed ELSE WithHeader(typed, "Content-Length", FALSE)
<1>1. "Content-Type" \in HeadNames /\ "Content-Length" \in HeadNames /\ "Connection" \in HeadNames
  BY DEF HeadNames
<1>2. typed \in Seq(ResponseHeads) /\ (Owned(lines) => Owned(typed))
  BY <1>1, WithHeaderIs
<1>3. length \in Seq(ResponseHeads) /\ (Owned(lines) => Owned(length))
  <2> HIDE DEF typed
  <2>1. LET more == WithHeader(typed, "Content-Length", FALSE)
        IN  more \in Seq(ResponseHeads) /\ (Owned(typed) => Owned(more))
    BY <1>1, <1>2, WithHeaderIs
  <2> QED BY <1>2, <2>1
<1>4. prepareHeader(lines, n) = WithHeader(length, "Connection", FALSE)
  BY DEF prepareHeader
<1> HIDE DEF length
<1> QED BY <1>1, <1>3, <1>4, WithHeaderIs

(* What a transmission leaves of the body.                                  *)
BodyKnown ==
  /\ Rising(transmitted.bytes, 0, meant)
  /\ ~short => transmitted.bytes = [k \in 1 .. meant |-> k]

LEMMA BodyIs == ResponseIInv => BodyKnown
<1> SUFFICES ASSUME ResponseIInv PROVE BodyKnown
  OBVIOUS
<1>1. transmitted.bytes \in Seq(Nat) /\ meant \in Nat
  BY DEF ResponseIInv, ResponseTypeOK
<1>2. DOMAIN transmitted.bytes = 1 .. Len(transmitted.bytes)
  BY <1>1, LenProperties
<1>3. \A i \in 1 .. Len(transmitted.bytes) : i > 1 => transmitted.bytes[i - 1] < transmitted.bytes[i]
  BY <1>2 DEF ResponseIInv, BodyInOrder
<1>4. \A i \in 1 .. Len(transmitted.bytes) : 0 < transmitted.bytes[i] /\ transmitted.bytes[i] <= meant
  BY <1>1, <1>2 DEF ResponseIInv, BytesMeant
<1>5. Rising(transmitted.bytes, 0, meant)
  BY <1>1, <1>3, <1>4 DEF Rising
<1>6. ~short => transmitted.bytes = [k \in 1 .. meant |-> k]
  BY DEF ResponseIInv, BodyInOrder
<1> QED BY <1>5, <1>6 DEF BodyKnown

(* A write sends some of the content behind what was sent before.           *)
LEMMA TransmitKeeps ==
  ASSUME ResponseTypeOK, BodyKnown, NEW n \in Nat, NEW possible, NEW response,
         response \in [heads : Seq(ResponseHeads), length : Lengths \cup {0, NotSet, LengthUnknown}, bytes : Seq(Nat)],
         response.bytes = transmitted.bytes, \A b \in possible : Rising(b, meant, meant + n),
         Transmit(n, possible, response)
  PROVE  /\ transmitted' \in [heads : Seq(ResponseHeads), length : Lengths \cup {0, NotSet, LengthUnknown}, bytes : Seq(Nat)]
         /\ transmitted'.heads = response.heads /\ transmitted'.length = response.length
         /\ meant' = meant + n /\ meant' \in Nat /\ cuts' \in 0 .. MaxCuts /\ short' \in BOOLEAN
         /\ BodyKnown'
<1>1. PICK b \in possible :
        /\ b # Numbered(n) => cuts < MaxCuts
        /\ cuts' = cuts + (IF b = Numbered(n) THEN 0 ELSE 1)
        /\ short' = (short \/ b # Numbered(n))
        /\ transmitted' = [response EXCEPT !.bytes = response.bytes \o b]
        /\ meant' = meant + n
  BY DEF Transmit
<1>2. meant \in Nat /\ cuts \in 0 .. MaxCuts /\ MaxCuts \in Nat
  BY ResponseAssumption DEF ResponseTypeOK
<1>3. cuts' \in 0 .. MaxCuts
  BY <1>1, <1>2
<1>4. short' \in BOOLEAN
  BY <1>1
<1>5. b \in Seq(Nat) /\ transmitted.bytes \in Seq(Nat)
  BY DEF ResponseTypeOK, Rising
<1>6. transmitted.bytes \o b \in Seq(Nat)
  BY <1>5, ConcatProperties
<1>7. /\ transmitted' \in [heads : Seq(ResponseHeads), length : Lengths \cup {0, NotSet, LengthUnknown}, bytes : Seq(Nat)]
      /\ transmitted'.heads = response.heads /\ transmitted'.length = response.length
      /\ transmitted'.bytes = transmitted.bytes \o b
  BY <1>1, <1>6
<1>8. Rising(transmitted'.bytes, 0, meant')
  <2>1. Rising(transmitted.bytes, 0, meant) /\ Rising(b, meant, meant + n) /\ 0 \in Nat /\ meant + n \in Nat
        /\ 0 <= meant /\ meant <= meant + n
    BY <1>2 DEF BodyKnown
  <2>2. Rising(transmitted.bytes \o b, 0, meant + n)
    BY <1>2, <2>1, RisingOn
  <2> QED BY <1>1, <1>7, <2>2
<1>9. ~short' => transmitted'.bytes = [k \in 1 .. meant' |-> k]
  <2> SUFFICES ASSUME ~short' PROVE transmitted'.bytes = [k \in 1 .. meant + n |-> k]
    BY <1>1
  <2>1. b = Numbered(n) /\ transmitted.bytes = [k \in 1 .. meant |-> k]
    BY <1>1 DEF BodyKnown
  <2>2. /\ b \in Seq(Nat) /\ Len(b) = n /\ \A k \in 1 .. n : b[k] = meant + k
    BY <1>2, <2>1, NumberedIs
  <2>3. Len(transmitted.bytes) = meant /\ \A k \in 1 .. meant : transmitted.bytes[k] = k
    BY <1>2, <2>1
  <2> DEFINE d == transmitted.bytes \o b
             e == [k \in 1 .. meant + n |-> k]
  <2>4. /\ d \in Seq(Nat) /\ Len(d) = meant + n
        /\ \A k \in 1 .. meant + n : d[k] = IF k <= meant THEN transmitted.bytes[k] ELSE b[k - meant]
    <3>1. /\ d \in Seq(Nat) /\ Len(d) = Len(transmitted.bytes) + Len(b)
          /\ \A k \in 1 .. Len(transmitted.bytes) + Len(b) :
               d[k] = IF k <= Len(transmitted.bytes) THEN transmitted.bytes[k] ELSE b[k - Len(transmitted.bytes)]
      BY <1>5, <2>2, ConcatProperties
    <3>2. Len(transmitted.bytes) = meant /\ Len(b) = n
      BY <2>2, <2>3
    <3> HIDE DEF d
    <3> QED BY <3>1, <3>2
  <2> HIDE DEF d
  <2>5. \A k \in 1 .. meant + n : d[k] = k
    <3> SUFFICES ASSUME NEW k \in 1 .. meant + n PROVE d[k] = k
      OBVIOUS
    <3>1. CASE k <= meant
      <4>1. k \in 1 .. meant
        BY <1>2, <3>1
      <4>2. d[k] = transmitted.bytes[k]
        BY <2>4, <3>1
      <4> QED BY <2>3, <4>1, <4>2
    <3>2. CASE ~(k <= meant)
      <4>1. k - meant \in 1 .. n /\ meant + (k - meant) = k
        BY <1>2, <3>2
      <4> QED BY <2>2, <2>4, <3>2, <4>1
    <3> QED BY <3>1, <3>2
  <2>6. e \in Seq(Nat) /\ Len(e) = meant + n /\ \A k \in 1 .. meant + n : e[k] = k
    BY <1>2
  <2> HIDE DEF e
  <2>7. d = e
    BY <1>2, <2>4, <2>5, <2>6, SeqEqual
  <2> QED BY <1>7, <2>7 DEF d, e
<1>10. BodyKnown'
  BY <1>8, <1>9 DEF BodyKnown
<1>11. meant' = meant + n /\ meant' \in Nat
  BY <1>1, <1>2
<1> QED BY <1>3, <1>4, <1>7, <1>10, <1>11

(* One more call, and what it says of header lines left.                    *)
LEMMA CallsGrow ==
  ASSUME ResponseTypeOK, NEW call \in HandlerCalls, Len(calls) < MaxHandlerCalls, calls' = Append(calls, call)
  PROVE  /\ calls' \in Seq(HandlerCalls) /\ Len(calls') <= MaxHandlerCalls /\ calls' # <<>>
         /\ \A c : calls' = <<c>> => call = c /\ calls = <<>>
         /\ \A c, d : calls' = <<c, d>> => call = d /\ calls = <<c>>
         /\ call \notin Answering =>
              /\ UnsentSince(0) => UnsentSince(0)'
              /\ \A i \in DOMAIN calls : calls[i] = "sendHeader" /\ UnsentSince(i)
                                      => i \in DOMAIN calls' /\ calls'[i] = "sendHeader" /\ UnsentSince(i)'
         /\ call = "sendHeader" => \E i \in DOMAIN calls' : calls'[i] = "sendHeader" /\ UnsentSince(i)'
<1>0. PICK n \in Nat : n = Len(calls)
  BY LenProperties DEF ResponseTypeOK
<1>1. calls \in Seq(HandlerCalls) /\ n \in Nat /\ DOMAIN calls = 1 .. n /\ MaxHandlerCalls \in Nat
  BY <1>0, ResponseAssumption, LenProperties DEF ResponseTypeOK
<1>2. /\ calls' \in Seq(HandlerCalls) /\ Len(calls') = n + 1 /\ DOMAIN calls' = 1 .. n + 1
      /\ calls'[n + 1] = call /\ \A i \in 1 .. n : calls'[i] = calls[i]
  <2>1. /\ calls' \in Seq(HandlerCalls) /\ Len(calls') = n + 1 /\ calls'[n + 1] = call
        /\ \A i \in 1 .. n : calls'[i] = calls[i]
    BY <1>0, <1>1, AppendProperties
  <2> QED BY <2>1, LenProperties
<1>3. calls' # <<>> /\ n + 1 <= MaxHandlerCalls
  BY <1>0, <1>1, <1>2
<1>4. ASSUME NEW c, calls' = <<c>> PROVE call = c /\ calls = <<>>
  <2>1. Len(<<c>>) = 1 /\ <<c>>[1] = c
    OBVIOUS
  <2>2. n = 0
    BY <1>1, <1>2, <1>4, <2>1
  <2> QED BY <1>1, <1>2, <1>4, <2>1, <2>2, <1>0, EmptySeq
<1>5. ASSUME NEW c, NEW d, calls' = <<c, d>> PROVE call = d /\ calls = <<c>>
  <2>1. Len(<<c, d>>) = 2 /\ <<c, d>>[1] = c /\ <<c, d>>[2] = d
    OBVIOUS
  <2>2. n = 1
    BY <1>1, <1>2, <1>5, <2>1
  <2>3. call = d /\ calls[1] = c
    BY <1>2, <1>5, <2>1, <2>2
  <2>4. c \in HandlerCalls
    BY <1>1, <2>2, <2>3, <1>0, ElementOfSeq
  <2>5. <<c>> \in Seq(HandlerCalls) /\ Len(<<c>>) = 1 /\ <<c>>[1] = c
    BY <2>4
  <2>6. calls = <<c>>
    BY <1>1, <2>2, <2>3, <2>5, <1>0, SeqEqual
  <2> QED BY <2>3, <2>6
<1>6. ASSUME call \notin Answering, NEW i \in 0 .. n, UnsentSince(i) PROVE UnsentSince(i)'
  <2>1. ASSUME NEW j \in i + 1 .. n + 1 PROVE calls'[j] \notin Answering
    <3>1. CASE j = n + 1
      BY <1>2, <1>6, <3>1
    <3>2. CASE j # n + 1
      <4>1. j \in i + 1 .. n /\ j \in 1 .. n
        BY <1>1, <3>2
      <4> QED BY <1>0, <1>2, <1>6, <4>1 DEF UnsentSince
    <3> QED BY <3>1, <3>2
  <2> QED BY <1>2, <2>1 DEF UnsentSince
<1>7. ASSUME call = "sendHeader" PROVE \E i \in DOMAIN calls' : calls'[i] = "sendHeader" /\ UnsentSince(i)'
  <2>1. \A j \in (n + 1) + 1 .. n + 1 : FALSE
    BY <1>1
  <2>2. UnsentSince(n + 1)'
    BY <1>2, <2>1 DEF UnsentSince
  <2>3. n + 1 \in DOMAIN calls'
    BY <1>1, <1>2
  <2> QED BY <1>2, <1>7, <2>2, <2>3
<1>8. 0 \in 0 .. n /\ \A i \in 1 .. n : i \in 0 .. n /\ i \in 1 .. n + 1
  BY <1>1
<1> QED BY <1>1, <1>2, <1>3, <1>4, <1>5, <1>6, <1>7, <1>8

LEMMA BodyStays ==
  ASSUME BodyKnown', meant' \in Nat,
         (calls \in {<<"send">>, <<"send_P">>, <<"sendHeader", "send">>} => transmitted.length = meant)'
  PROVE  BodyInOrder' /\ BytesMeant'
<1>1. transmitted'.bytes \in Seq(Nat) /\ DOMAIN transmitted'.bytes = 1 .. Len(transmitted'.bytes)
  BY LenProperties DEF BodyKnown, Rising
<1>2. \A i \in DOMAIN transmitted'.bytes :
        /\ transmitted'.bytes[i] \in 1 .. meant'
        /\ i > 1 => transmitted'.bytes[i - 1] < transmitted'.bytes[i]
  BY <1>1, ElementOfSeq DEF BodyKnown, Rising
<1> QED BY <1>2 DEF BodyInOrder, BytesMeant, BodyKnown

(* A handler answers with a response of its own.                            *)
LEMMA AnswerKept ==
  ASSUME ResponseIInv, requestLines # NoRequest, Len(calls) < MaxHandlerCalls,
         NEW call \in {"send", "send_P", "requestAuthentication"}, calls' = Append(calls, call),
         UNCHANGED <<_currentHeaders, requestLines, leftOver, requestNumber>>,
         NEW n \in Lengths \cup {0},
         NEW lines \in Seq(ResponseHeads), Owned(_responseHeaders) => Owned(lines),
         NEW possible, \A b \in possible : Rising(b, meant, meant + n), Answer(lines, n, possible)
  PROVE  ResponseIInv'
<1> DEFINE response == [transmitted EXCEPT !.heads = transmitted.heads \o prepareHeader(lines, n), !.length = PromisedLength(n)]
<1>1. ResponseTypeOK /\ BodyKnown /\ n \in Nat /\ requestNumber \in Nat /\ transmitted.heads \in Seq(ResponseHeads)
  BY BodyIs, ResponseAssumption DEF ResponseIInv, ResponseTypeOK
<1>2. /\ Transmit(n, possible, response)
      /\ _responseHeaders' = <<>> /\ _contentLength' = _contentLength
  BY DEF Answer
<1>3. prepareHeader(lines, n) \in Seq(ResponseHeads) /\ (Owned(lines) => Owned(prepareHeader(lines, n)))
  BY <1>1, PreparedIs
<1>4. transmitted.heads \o prepareHeader(lines, n) \in Seq(ResponseHeads)
  BY <1>1, <1>3, ConcatProperties
<1>5. PromisedLength(n) \in Lengths \cup {0, NotSet, LengthUnknown}
  BY <1>1 DEF PromisedLength, ResponseTypeOK
<1>6. /\ response \in [heads : Seq(ResponseHeads), length : Lengths \cup {0, NotSet, LengthUnknown}, bytes : Seq(Nat)]
      /\ response.bytes = transmitted.bytes /\ response.length = PromisedLength(n)
      /\ response.heads = transmitted.heads \o prepareHeader(lines, n)
  BY <1>1, <1>4, <1>5 DEF ResponseTypeOK
<1> HIDE DEF response
<1>7. /\ transmitted' \in [heads : Seq(ResponseHeads), length : Lengths \cup {0, NotSet, LengthUnknown}, bytes : Seq(Nat)]
      /\ transmitted'.heads = transmitted.heads \o prepareHeader(lines, n)
      /\ transmitted'.length = PromisedLength(n)
      /\ meant' = meant + n /\ meant' \in Nat /\ cuts' \in 0 .. MaxCuts /\ short' \in BOOLEAN
      /\ BodyKnown'
  BY <1>1, <1>2, <1>6, TransmitKeeps
<1>8. call \in HandlerCalls
  BY DEF HandlerCalls
<1>9. /\ calls' \in Seq(HandlerCalls) /\ Len(calls') <= MaxHandlerCalls /\ calls' # <<>>
      /\ \A c : calls' = <<c>> => call = c /\ calls = <<>>
      /\ \A c, d : calls' = <<c, d>> => call = d /\ calls = <<c>>
  BY <1>1, <1>8, CallsGrow
<1>10. ResponseTypeOK'
  <2>1. _responseHeaders' \in Seq(ResponseHeads)
    BY <1>2
  <2>2. /\ _currentHeaders' = _currentHeaders /\ requestLines' = requestLines /\ leftOver' = leftOver
        /\ requestNumber' = requestNumber /\ _contentLength' = _contentLength
    BY <1>2
  <2> QED BY <1>1, <1>7, <1>9, <2>1, <2>2 DEF ResponseTypeOK
<1>11. HeadersOwn'
  BY DEF ResponseIInv, HeadersOwn, headerOf
<1>12. LinesOwn'
  <2> SUFFICES ASSUME ~leftOver PROVE \A i \in DOMAIN transmitted'.heads : transmitted'.heads[i].by = requestNumber
    BY DEF LinesOwn
  <2>1. Owned(transmitted.heads) /\ Owned(lines)
    BY DEF ResponseIInv, LinesOwn, UnsentKnown, Owned
  <2>2. Owned(transmitted'.heads)
    BY <1>1, <1>3, <1>7, <2>1, OwnedOn
  <2> QED BY <2>2 DEF Owned
<1>13. (calls \in {<<"send">>, <<"send_P">>, <<"sendHeader", "send">>} => transmitted.length = meant)'
  <2> SUFFICES ASSUME calls' \in {<<"send">>, <<"send_P">>, <<"sendHeader", "send">>} PROVE transmitted'.length = meant'
    OBVIOUS
  <2>1. calls = <<>> \/ calls = <<"sendHeader">>
    BY <1>9
  <2>2. meant = 0 /\ _contentLength = NotSet
    BY <2>1 DEF ResponseIInv, BetweenRequests
  <2> QED BY <1>1, <1>7, <2>2 DEF PromisedLength
<1>14. BodyInOrder' /\ BytesMeant'
  BY <1>7, <1>13, BodyStays
<1>15. UnsentKnown'
  BY <1>2 DEF UnsentKnown
<1>16. BetweenRequests'
  BY <1>9 DEF BetweenRequests
<1> QED BY <1>10, <1>11, <1>12, <1>14, <1>15, <1>16 DEF ResponseIInv

(* It sends more of its content.                                            *)
LEMMA MoreKept ==
  ASSUME ResponseIInv, requestLines # NoRequest, Len(calls) < MaxHandlerCalls,
         NEW call \in {"sendContent", "sendContent_P"}, calls' = Append(calls, call),
         UNCHANGED <<_currentHeaders, requestLines, leftOver, requestNumber>>,
         NEW n \in Lengths, NEW possible, \A b \in possible : Rising(b, meant, meant + n), MoreContent(n, possible)
  PROVE  ResponseIInv'
<1>1. ResponseTypeOK /\ BodyKnown /\ n \in Nat
  BY BodyIs, ResponseAssumption DEF ResponseIInv
<1>2. Transmit(n, possible, transmitted) /\ UNCHANGED <<_responseHeaders, _contentLength>>
  BY DEF MoreContent
<1>3. transmitted \in [heads : Seq(ResponseHeads), length : Lengths \cup {0, NotSet, LengthUnknown}, bytes : Seq(Nat)]
  BY <1>1 DEF ResponseTypeOK
<1>4. /\ transmitted' \in [heads : Seq(ResponseHeads), length : Lengths \cup {0, NotSet, LengthUnknown}, bytes : Seq(Nat)]
      /\ transmitted'.heads = transmitted.heads
      /\ meant' \in Nat /\ cuts' \in 0 .. MaxCuts /\ short' \in BOOLEAN
      /\ BodyKnown'
  BY <1>1, <1>2, <1>3, TransmitKeeps
<1>5. call \in HandlerCalls /\ call \notin Answering /\ call \notin {"send", "send_P", "sendHeader"}
  BY DEF HandlerCalls, Answering
<1>6. /\ calls' \in Seq(HandlerCalls) /\ Len(calls') <= MaxHandlerCalls /\ calls' # <<>>
      /\ \A c : calls' = <<c>> => call = c
      /\ \A c, d : calls' = <<c, d>> => call = d
      /\ UnsentSince(0) => UnsentSince(0)'
      /\ \A i \in DOMAIN calls : calls[i] = "sendHeader" /\ UnsentSince(i)
                              => i \in DOMAIN calls' /\ calls'[i] = "sendHeader" /\ UnsentSince(i)'
  BY <1>1, <1>5, CallsGrow
<1>7. ResponseTypeOK'
  BY <1>1, <1>2, <1>4, <1>6 DEF ResponseTypeOK
<1>8. HeadersOwn' /\ LinesOwn'
  <2>1. HeadersOwn'
    BY DEF ResponseIInv, HeadersOwn, headerOf
  <2>2. LinesOwn'
    BY <1>4 DEF ResponseIInv, LinesOwn
  <2> QED BY <2>1, <2>2
<1>9. calls' \notin {<<"send">>, <<"send_P">>, <<"sendHeader", "send">>, <<"sendHeader">>}
  BY <1>5, <1>6
<1>10. BodyInOrder' /\ BytesMeant'
  BY <1>4, <1>9, BodyStays
<1>11. UnsentKnown'
  BY <1>2, <1>6 DEF ResponseIInv, UnsentKnown
<1>12. BetweenRequests'
  BY <1>6, <1>9 DEF BetweenRequests
<1> QED BY <1>7, <1>8, <1>10, <1>11, <1>12 DEF ResponseIInv

(* It adds a header line, or sets the length.                               *)
LEMMA PreparingKept ==
  ASSUME ResponseIInv, requestLines # NoRequest, Len(calls) < MaxHandlerCalls,
         NEW call, calls' = Append(calls, call),
         UNCHANGED <<_currentHeaders, requestLines, leftOver, requestNumber>>,
         \/ call = "sendHeader" /\ \E first \in BOOLEAN : sendHeader("X", first)
         \/ call = "setContentLength" /\ \E n \in Lengths \cup {LengthUnknown} : setContentLength(n)
  PROVE  ResponseIInv'
<1>1. ResponseTypeOK /\ BodyKnown /\ requestNumber \in Nat /\ _responseHeaders \in Seq(ResponseHeads)
  BY BodyIs, ResponseAssumption DEF ResponseIInv, ResponseTypeOK
<1>2. UNCHANGED <<transmitted, meant, short, cuts>>
  BY DEF sendHeader, setContentLength
<1>3. /\ _responseHeaders' \in Seq(ResponseHeads) /\ (Owned(_responseHeaders) => Owned(_responseHeaders'))
      /\ call # "sendHeader" => _responseHeaders' = _responseHeaders
  <2>1. CASE call = "setContentLength"
    BY <1>1, <2>1 DEF setContentLength
  <2>2. CASE call = "sendHeader"
    <3>1. PICK first \in BOOLEAN : sendHeader("X", first)
      BY <2>2
    <3>2. "X" \in HeadNames
      BY DEF HeadNames
    <3> QED BY <1>1, <2>2, <3>1, <3>2, WithHeaderIs DEF sendHeader
  <2> QED BY <2>1, <2>2
<1>4. call \in HandlerCalls /\ call \notin Answering /\ call \notin {"send", "send_P"}
  BY DEF HandlerCalls, Answering
<1>5. /\ calls' \in Seq(HandlerCalls) /\ Len(calls') <= MaxHandlerCalls /\ calls' # <<>>
      /\ \A c : calls' = <<c>> => call = c /\ calls = <<>>
      /\ \A c, d : calls' = <<c, d>> => call = d
      /\ UnsentSince(0) => UnsentSince(0)'
      /\ \A i \in DOMAIN calls : calls[i] = "sendHeader" /\ UnsentSince(i)
                              => i \in DOMAIN calls' /\ calls'[i] = "sendHeader" /\ UnsentSince(i)'
      /\ call = "sendHeader" => \E i \in DOMAIN calls' : calls'[i] = "sendHeader" /\ UnsentSince(i)'
  BY <1>1, <1>4, CallsGrow
<1>6. _contentLength' \in Lengths \cup {NotSet, LengthUnknown} /\ (call = "sendHeader" => _contentLength' = _contentLength)
  BY <1>1 DEF sendHeader, setContentLength, ResponseTypeOK
<1>7. ResponseTypeOK'
  BY <1>1, <1>2, <1>3, <1>5, <1>6 DEF ResponseTypeOK
<1>8. HeadersOwn' /\ LinesOwn'
  BY <1>2 DEF ResponseIInv, HeadersOwn, headerOf, LinesOwn
<1>9. calls' \notin {<<"send">>, <<"send_P">>, <<"sendHeader", "send">>}
  BY <1>4, <1>5
<1>10. BodyInOrder' /\ BytesMeant'
  BY <1>2, <1>9 DEF ResponseIInv, BodyInOrder, BytesMeant
<1>11. UnsentKnown'
  <2>1. ~leftOver => \A i \in DOMAIN _responseHeaders' : _responseHeaders'[i].by = requestNumber
    BY <1>3 DEF ResponseIInv, UnsentKnown, Owned
  <2> QED BY <1>3, <1>5, <2>1 DEF ResponseIInv, UnsentKnown
<1>12. BetweenRequests'
  <2>1. calls' = <<"sendHeader">> => calls = <<>> /\ call = "sendHeader"
    BY <1>5
  <2> QED BY <1>2, <1>5, <1>6, <2>1 DEF ResponseIInv, BetweenRequests
<1> QED BY <1>7, <1>8, <1>10, <1>11, <1>12 DEF ResponseIInv

LEMMA HandleKept ==
  ASSUME ResponseIInv, NEW call \in HandlerCalls, Handle(call)
  PROVE  ResponseIInv'
<1>1. /\ requestLines # NoRequest /\ Len(calls) < MaxHandlerCalls /\ calls' = Append(calls, call)
      /\ UNCHANGED <<_currentHeaders, requestLines, leftOver, requestNumber>>
  BY DEF Handle
<1>2. /\ meant \in Nat /\ requestNumber \in Nat /\ _responseHeaders \in Seq(ResponseHeads) /\ Lengths \subseteq Nat
  BY ResponseAssumption DEF ResponseIInv, ResponseTypeOK
<1>3. CASE call \in {"sendHeader", "setContentLength"}
  <2>1. \/ call = "sendHeader" /\ \E first \in BOOLEAN : sendHeader("X", first)
        \/ call = "setContentLength" /\ \E n \in Lengths \cup {LengthUnknown} : setContentLength(n)
    BY <1>3 DEF Handle
  <2> QED BY <1>1, <2>1, PreparingKept
<1>4. CASE call = "send"
  <2>1. PICK n \in Lengths : send(n)
    BY <1>4 DEF Handle
  <2>2. \A b \in sendContent(n) : Rising(b, meant, meant + n)
    BY <1>2, SendContentRises
  <2> QED BY <1>1, <1>2, <1>4, <2>1, <2>2, AnswerKept DEF send
<1>5. CASE call = "send_P"
  <2>1. PICK n \in Lengths : send_P(n)
    BY <1>5 DEF Handle
  <2>2. \A b \in sendContent_P(n) : Rising(b, meant, meant + n)
    BY <1>2, SendContentPRises
  <2> QED BY <1>1, <1>2, <1>5, <2>1, <2>2, AnswerKept DEF send_P
<1>6. CASE call = "sendContent"
  <2>1. PICK n \in Lengths : MoreContent(n, sendContent(n))
    BY <1>6 DEF Handle
  <2>2. \A b \in sendContent(n) : Rising(b, meant, meant + n)
    BY <1>2, SendContentRises
  <2> QED BY <1>1, <1>6, <2>1, <2>2, MoreKept
<1>7. CASE call = "sendContent_P"
  <2>1. PICK n \in Lengths : MoreContent(n, sendContent_P(n))
    BY <1>7 DEF Handle
  <2>2. \A b \in sendContent_P(n) : Rising(b, meant, meant + n)
    BY <1>2, SendContentPRises
  <2> QED BY <1>1, <1>7, <2>1, <2>2, MoreKept
<1>8. CASE call = "requestAuthentication"
  <2>1. requestAuthentication
    BY <1>8 DEF Handle
  <2>2. \A b \in sendContent(0) : Rising(b, meant, meant + 0)
    <3>1. 0 \in Nat
      OBVIOUS
    <3> QED BY <1>2, <3>1, SendContentRises
  <2>3. "WWW-Authenticate" \in HeadNames
    BY DEF HeadNames
  <2> DEFINE lines == WithHeader(_responseHeaders, "WWW-Authenticate", FALSE)
  <2>4. lines \in Seq(ResponseHeads) /\ (Owned(_responseHeaders) => Owned(lines))
    BY <1>2, <2>3, WithHeaderIs
  <2>5. Answer(lines, 0, sendContent(0))
    BY <2>1 DEF requestAuthentication
  <2> HIDE DEF lines
  <2> QED BY <1>1, <1>8, <2>2, <2>4, <2>5, AnswerKept
<1> QED BY <1>3, <1>4, <1>5, <1>6, <1>7, <1>8 DEF HandlerCalls

LEMMA ParseKept ==
  ASSUME ResponseIInv, NEW headerLines \in RequestLines, parseHeaders(headerLines)
  PROVE  ResponseIInv'
<1> USE DEF parseHeaders
<1>1. ResponseTypeOK /\ requestLines = NoRequest /\ headerLines # NoRequest
  BY ResponseAssumption DEF ResponseIInv
<1>2. HeadersOwn' /\ _currentHeaders' \in KeptValues /\ DOMAIN _currentHeaders' = DOMAIN _currentHeaders
  BY <1>1, ParsedHeadersOwn
<1>3. calls = <<>> /\ transmitted = NoAnswer /\ ~short /\ meant = 0
  BY <1>1 DEF ResponseIInv, BetweenRequests
<1>4. requestNumber' \in 0 .. MaxAnswers
  BY <1>1, ResponseAssumption DEF ResponseTypeOK
<1>5. ResponseTypeOK'
  <2>1. _currentHeaders' \in [DOMAIN _currentHeaders' -> 0 .. 2]
    BY <1>2 DEF KeptValues
  <2>2. UNCHANGED <<_responseHeaders, transmitted, meant, calls, short, leftOver, cuts>>
    OBVIOUS
  <2>3. _contentLength' = NotSet /\ requestLines' \in RequestLines
    OBVIOUS
  <2> HIDE DEF parseHeaders
  <2> QED BY <1>1, <1>2, <1>4, <2>1, <2>2, <2>3 DEF ResponseTypeOK
<1>6. LinesOwn'
  BY <1>3 DEF LinesOwn, NoAnswer
<1>7. BodyInOrder' /\ BytesMeant'
  BY DEF ResponseIInv, BodyInOrder, BytesMeant
<1>8. DOMAIN calls = {}
  BY <1>3
<1>9. ~leftOver => _responseHeaders = <<>>
  BY <1>8 DEF ResponseIInv, UnsentKnown
<1>10. UnsentKnown'
  <2>1. UnsentSince(0) = UnsentSince(0)'
    BY DEF UnsentSince
  <2> QED BY <1>8, <1>9, <2>1 DEF ResponseIInv, UnsentKnown
<1>11. BetweenRequests'
  BY <1>1, <1>3 DEF BetweenRequests
<1> QED BY <1>2, <1>5, <1>6, <1>7, <1>10, <1>11 DEF ResponseIInv

LEMMA EndRequestKept ==
  ASSUME ResponseIInv, EndRequest
  PROVE  ResponseIInv'
<1> USE DEF EndRequest
<1>1. /\ calls' = <<>> /\ transmitted' = NoAnswer /\ meant' = 0 /\ short' = FALSE /\ requestLines' = NoRequest
      /\ UNCHANGED <<_currentHeaders, _responseHeaders, _contentLength, requestNumber, cuts>>
  OBVIOUS
<1>2. leftOver' \in BOOLEAN
  OBVIOUS
<1>3. leftOver' <=> \/ leftOver /\ UnsentSince(0)
                    \/ \E i \in DOMAIN calls : calls[i] = "sendHeader" /\ UnsentSince(i)
  OBVIOUS
<1> HIDE DEF EndRequest
<1>4. NoAnswer \in [heads : Seq(ResponseHeads), length : Lengths \cup {0, NotSet, LengthUnknown}, bytes : Seq(Nat)]
  BY DEF NoAnswer
<1>5. calls' \in Seq(HandlerCalls) /\ Len(calls') = 0 /\ MaxHandlerCalls \in Nat
  BY <1>1, ResponseAssumption
<1>6. {short', leftOver'} \subseteq BOOLEAN
  BY <1>1, <1>2
<1>7. ResponseTypeOK'
  BY <1>1, <1>4, <1>5, <1>6 DEF ResponseIInv, ResponseTypeOK
<1>8. HeadersOwn' /\ LinesOwn'
  BY <1>1 DEF HeadersOwn, LinesOwn, NoAnswer
<1>9. BodyInOrder' /\ BytesMeant'
  <2>1. transmitted'.bytes = <<>> /\ DOMAIN transmitted'.bytes = {}
    BY <1>1 DEF NoAnswer
  <2>2. [k \in 1 .. 0 |-> k] = <<>>
    OBVIOUS
  <2>3. calls' \notin {<<"send">>, <<"send_P">>, <<"sendHeader", "send">>}
    BY <1>1
  <2> QED BY <1>1, <2>1, <2>2, <2>3 DEF BodyInOrder, BytesMeant
<1>10. _responseHeaders' # <<>> => leftOver'
  BY <1>1, <1>3 DEF ResponseIInv, UnsentKnown
<1>11. UnsentSince(0)'
  <2>1. \A j \in 0 + 1 .. 0 : FALSE
    OBVIOUS
  <2> QED BY <1>5, <2>1 DEF UnsentSince
<1>12. UnsentKnown'
  <2>1. _responseHeaders' = <<>> => DOMAIN _responseHeaders' = {}
    OBVIOUS
  <2> QED BY <1>10, <1>11, <2>1 DEF UnsentKnown
<1>13. BetweenRequests'
  BY <1>1 DEF BetweenRequests
<1> QED BY <1>7, <1>8, <1>9, <1>12, <1>13 DEF ResponseIInv

LEMMA ResponseInitial == ResponseInit => ResponseIInv
<1> SUFFICES ASSUME ResponseInit PROVE ResponseIInv
  OBVIOUS
<1>1. PICK names \in SUBSET HeaderKeys : _currentHeaders = collectHeaders(names)
  BY DEF ResponseInit
<1>2. /\ _responseHeaders = <<>> /\ _contentLength = NotSet
      /\ requestLines = NoRequest /\ transmitted = NoAnswer /\ meant = 0 /\ short = FALSE /\ leftOver = FALSE
      /\ requestNumber = 0 /\ calls = <<>> /\ cuts = 0
  BY DEF ResponseInit
<1>3. NoAnswer \in [heads : Seq(ResponseHeads), length : Lengths \cup {0, NotSet, LengthUnknown}, bytes : Seq(Nat)]
  BY DEF NoAnswer
<1>4. /\ DOMAIN _currentHeaders \subseteq HeaderNames /\ Authorization \in DOMAIN _currentHeaders
      /\ _currentHeaders \in [DOMAIN _currentHeaders -> 0 .. 2]
  BY <1>1 DEF collectHeaders, HeaderNames
<1>5. requestNumber \in 0 .. MaxAnswers /\ cuts \in 0 .. MaxCuts /\ calls \in Seq(HandlerCalls) /\ Len(calls) <= MaxHandlerCalls
  BY <1>2, ResponseAssumption
<1>6. {short, leftOver} \subseteq BOOLEAN
  BY <1>2
<1>7. ResponseTypeOK
  BY <1>2, <1>3, <1>4, <1>5, <1>6 DEF ResponseTypeOK
<1>8. HeadersOwn /\ LinesOwn
  BY <1>2 DEF HeadersOwn, LinesOwn, NoAnswer
<1>9. BodyInOrder /\ BytesMeant
  <2>1. transmitted.bytes = <<>> /\ DOMAIN transmitted.bytes = {}
    BY <1>2 DEF NoAnswer
  <2>2. [k \in 1 .. 0 |-> k] = <<>>
    OBVIOUS
  <2>3. calls \notin {<<"send">>, <<"send_P">>, <<"sendHeader", "send">>}
    BY <1>2
  <2> QED BY <1>2, <2>1, <2>2, <2>3 DEF BodyInOrder, BytesMeant
<1>10. UnsentKnown /\ BetweenRequests
  <2>1. DOMAIN _responseHeaders = {}
    BY <1>2
  <2> QED BY <1>2, <2>1 DEF UnsentKnown, BetweenRequests
<1> QED BY <1>7, <1>8, <1>9, <1>10 DEF ResponseIInv

LEMMA ResponseKept == ResponseIInv /\ [ResponseNext]_responseVars => ResponseIInv'
<1> SUFFICES ASSUME ResponseIInv, [ResponseNext]_responseVars PROVE ResponseIInv'
  OBVIOUS
<1>1. CASE UNCHANGED responseVars
  <2> USE <1>1 DEF responseVars, ResponseIInv
  <2>1. ResponseTypeOK' /\ LinesOwn' /\ BetweenRequests' /\ BytesMeant'
    BY DEF ResponseTypeOK, LinesOwn, BetweenRequests, BytesMeant
  <2>2. HeadersOwn'
    BY DEF HeadersOwn, headerOf
  <2>3. BodyInOrder'
    BY DEF BodyInOrder
  <2>4. UnsentKnown'
    BY DEF UnsentKnown, UnsentSince
  <2> QED BY <2>1, <2>2, <2>3, <2>4
<1> QED BY <1>1, ParseKept, HandleKept, EndRequestKept DEF ResponseNext

LEMMA ResponseImplied == ResponseIInv => ResponseInv
BY DEF ResponseIInv, ResponseInv

(***************************************************************************)
(* Sequences that grow at their end (WebArguments).                         *)
(***************************************************************************)
Grows(c, t, n, S) ==
  /\ t \in [1 .. n -> Seq(S)] /\ c \in [0 .. n -> Seq(S)]
  /\ c[0] = <<>> /\ \A i \in 1 .. n : c[i] = c[i - 1] \o t[i]

LEMMA GrowingExists ==
  ASSUME NEW S, NEW n \in Nat, NEW t \in [1 .. n -> Seq(S)]
  PROVE  \E c : Grows(c, t, n, S)
<1> DEFINE F == [p \in (1 .. n) \X Seq(S) |-> p[2] \o t[p[1]]]
<1>1. F \in [(1 .. n) \X Seq(S) -> Seq(S)]
  BY ConcatProperties
<1>2. \A i \in 1 .. n, x \in Seq(S) : F[<<i, x>>] = x \o t[i]
  OBVIOUS
<1> HIDE DEF F
<1>3. PICK f : Loops(f, Seq(S), F, <<>>, n)
  <2>1. <<>> \in Seq(S)
    OBVIOUS
  <2> QED BY <1>1, <2>1, LoopExists
<1>4. f \in [0 .. n -> Seq(S)] /\ f[0] = <<>> /\ \A i \in 1 .. n : f[i] = F[<<i, f[i - 1]>>]
  BY <1>3 DEF Loops
<1>5. \A i \in 1 .. n : i - 1 \in 0 .. n
  OBVIOUS
<1> QED BY <1>2, <1>4, <1>5 DEF Grows

Within(s, t) == Len(s) <= Len(t) /\ \A j \in 1 .. Len(s) : t[j] = s[j]
Placed(s, b, a, t) == \A j \in 1 .. b : t[a + j] = s[j]

(* What it has become stays at its beginning, and each part is where it was *)
(* put.                                                                     *)
LEMMA GrowingKeeps ==
  ASSUME NEW S, NEW n \in Nat, NEW t, NEW c, Grows(c, t, n, S),
         NEW k \in 0 .. n
  PROVE  Within(c[k], c[n])
<1> DEFINE P == {m \in 0 .. n : k <= m => /\ Len(c[k]) <= Len(c[m])
                                         /\ \A j \in 1 .. Len(c[k]) : c[m][j] = c[k][j]}
<1>1. \A m \in 0 .. n : c[m] \in Seq(S) /\ Len(c[m]) \in Nat
  BY LenProperties DEF Grows
<1>5. c[0] = <<>>
  BY DEF Grows
<1>2. 0 \in P
  BY <1>1
<1>3. ASSUME NEW m \in 1 .. n, m - 1 \in P PROVE m \in P
  <2>0. m - 1 \in 0 .. n /\ m \in 0 .. n /\ t[m] \in Seq(S)
    BY DEF Grows
  <2>1. m - 1 \in 0 .. n /\ m \in 0 .. n /\ c[m] = c[m - 1] \o t[m] /\ t[m] \in Seq(S)
    BY <2>0 DEF Grows
  <2>2. PICK a \in Nat : a = Len(c[m - 1])
    BY <1>1, <2>1
  <2>3. Len(c[m]) = a + Len(t[m]) /\ Len(t[m]) \in Nat
        /\ \A j \in 1 .. a + Len(t[m]) : c[m][j] = IF j <= a THEN c[m - 1][j] ELSE t[m][j - a]
    <3>1. c[m - 1] \in Seq(S) /\ Len(t[m]) \in Nat
      BY <1>1, <2>1, LenProperties
    <3>2. /\ Len(c[m - 1] \o t[m]) = Len(c[m - 1]) + Len(t[m])
          /\ \A j \in 1 .. Len(c[m - 1]) + Len(t[m]) :
               (c[m - 1] \o t[m])[j] = IF j <= Len(c[m - 1]) THEN c[m - 1][j] ELSE t[m][j - Len(c[m - 1])]
      BY <2>1, <3>1, ConcatProperties
    <3> QED BY <2>1, <2>2, <3>1, <3>2
  <2>4. CASE k = m
    BY <1>1, <2>1, <2>4
  <2>5. CASE k <= m - 1
    <3>1. Len(c[k]) <= a /\ \A j \in 1 .. Len(c[k]) : c[m - 1][j] = c[k][j]
      BY <1>3, <2>2, <2>5
    <3>2. \A j \in 1 .. Len(c[k]) : j \in 1 .. a + Len(t[m]) /\ j <= a
      BY <1>1, <2>3, <3>1
    <3>3. \A j \in 1 .. Len(c[k]) : c[m][j] = c[k][j]
      BY <2>3, <3>1, <3>2
    <3>4. Len(c[k]) <= Len(c[m])
      BY <1>1, <2>1, <2>3, <3>1
    <3> QED BY <2>1, <3>3, <3>4
  <2>6. CASE ~(k <= m)
    BY <2>1, <2>6
  <2> QED BY <2>1, <2>4, <2>5, <2>6
<1> HIDE DEF P
<1>4. n \in P
  <2>1. 0 .. n \subseteq P
    BY <1>2, <1>3, EveryTurn
  <2> QED BY <2>1
<1> QED BY <1>1, <1>4 DEF P, Within

Long(s, a) == Len(s) = a

LEMMA GrowingAt ==
  ASSUME NEW S, NEW n \in Nat, NEW t, NEW c, Grows(c, t, n, S), NEW i \in 1 .. n,
         NEW a \in Nat, Long(c[i - 1], a), NEW b \in Nat, Long(t[i], b)
  PROVE  /\ Long(c[i], a + b) /\ Len(c[n]) \in Nat /\ Len(c[i]) <= Len(c[n])
         /\ Placed(t[i], b, a, c[n])
<1>0. i - 1 \in 0 .. n /\ i \in 0 .. n /\ t[i] \in Seq(S)
  BY DEF Grows
<1>1. i - 1 \in 0 .. n /\ i \in 0 .. n /\ c[i] = c[i - 1] \o t[i] /\ t[i] \in Seq(S) /\ c[i - 1] \in Seq(S)
  <2>1. \A m \in 0 .. n : c[m] \in Seq(S)
    BY DEF Grows
  <2>2. c[i] = c[i - 1] \o t[i]
    BY DEF Grows
  <2> QED BY <1>0, <2>1, <2>2
<1>4. Len(c[i]) = a + b /\ \A j \in 1 .. a + b : c[i][j] = IF j <= a THEN c[i - 1][j] ELSE t[i][j - a]
  <2>1. /\ Len(c[i - 1] \o t[i]) = Len(c[i - 1]) + Len(t[i])
        /\ \A j \in 1 .. Len(c[i - 1]) + Len(t[i]) :
             (c[i - 1] \o t[i])[j] = IF j <= Len(c[i - 1]) THEN c[i - 1][j] ELSE t[i][j - Len(c[i - 1])]
    BY <1>1, ConcatProperties
  <2>2. Len(c[i - 1]) = a /\ Len(t[i]) = b
    BY DEF Long
  <2> QED BY <1>1, <2>1, <2>2
<1>5. /\ Len(c[n]) \in Nat /\ Len(c[i]) <= Len(c[n])
      /\ \A j \in 1 .. Len(c[i]) : c[n][j] = c[i][j]
  <2>1. i \in 0 .. n
    BY <1>0
  <2>2. Len(c[n]) \in Nat
    <3>1. n \in 0 .. n
      OBVIOUS
    <3>2. c[n] \in Seq(S)
      BY <3>1 DEF Grows
    <3> QED BY <3>2, LenProperties
  <2>3. Within(c[i], c[n])
    BY <2>1, GrowingKeeps
  <2> QED BY <2>2, <2>3 DEF Within
<1>6. ASSUME NEW j \in 1 .. b PROVE c[n][a + j] = t[i][j]
  <2>1. a + j \in 1 .. a + b /\ ~(a + j <= a) /\ (a + j) - a = j
    OBVIOUS
  <2> QED BY <1>4, <1>5, <2>1
<1>7. Long(c[i], a + b)
  BY <1>4 DEF Long
<1>8. Placed(t[i], b, a, c[n])
  BY <1>6 DEF Placed
<1> QED BY <1>5, <1>7, <1>8
(***************************************************************************)
(* Values, from the browser to the handler (WebArguments).                  *)
(***************************************************************************)
(* A character becomes itself, "+", or "%" and its code, from which it is   *)
(* made again.                                                              *)
LEMMA SignIs ==
  ASSUME NEW c \in Alphabet
  PROVE  /\ Sign(c) \in Text /\ Len(Sign(c)) \in {1, 3} /\ \A j \in 1 .. Len(Sign(c)) : Sign(c)[j] # "&"
         /\ Len(Sign(c)) = 1 => Sign(c)[1] # "%" /\ c = IF Sign(c)[1] = "+" THEN " " ELSE Sign(c)[1]
         /\ Len(Sign(c)) = 3 => Sign(c)[1] = "%" /\ c = Character(Sign(c)[2], Sign(c)[3])
<1>1. {"&", "=", "%", "+", " ", "2", "3", "5", "6", "B", "D", "?"} \subseteq Alphabet
  BY ArgsAssumption
<1>2. CASE c = " "
  <2>1. Sign(c) = <<"+">>
    BY <1>2 DEF Sign
  <2>2. Sign(c) \in Text /\ Len(Sign(c)) = 1 /\ Sign(c)[1] = "+" /\ 1 # 3
    <3>1. "+" \in Alphabet
      BY <1>1
    <3>2. <<"+">> \in Seq(Alphabet) /\ Len(<<"+">>) = 1 /\ <<"+">>[1] = "+"
      BY <3>1
    <3> QED BY <2>1, <3>2 DEF Text
  <2>3. \A j \in 1 .. 1 : j = 1
    OBVIOUS
  <2>4. "+" # "&" /\ "+" # "%"
    OBVIOUS
  <2> QED BY <1>2, <2>2, <2>3, <2>4
<1>3. CASE c \in {"&", "=", "%", "+"}
  <2>1. PICK h \in {<<"2", "6">>, <<"3", "D">>, <<"2", "5">>, <<"2", "B">>} : h = Hex[c]
    BY <1>3 DEF Hex
  <2>2. DOMAIN Hex = {"&", "=", "%", "+"}
    BY DEF Hex
  <2>3. Sign(c) = <<"%">> \o h
    BY <1>3, <2>1, <2>2 DEF Sign
  <2>4. h = <<h[1], h[2]>> /\ h[1] \in {"2", "3"} /\ h[2] \in {"6", "D", "5", "B"}
    BY <2>1
  <2>5. Sign(c) = <<"%", h[1], h[2]>>
    <3>1. ASSUME NEW x \in Alphabet, NEW y \in Alphabet PROVE <<"%">> \o <<x, y>> = <<"%", x, y>>
      <4>1. <<"%">> \in Seq(Alphabet) /\ <<x, y>> \in Seq(Alphabet) /\ <<"%", x, y>> \in Seq(Alphabet)
        <5>1. "%" \in Alphabet
          BY <1>1
        <5> QED BY <5>1
      <4>2. PICK d \in Seq(Alphabet) : d = <<"%">> \o <<x, y>>
        BY <4>1, ConcatProperties
      <4>3. Len(d) = 3 /\ \A i \in 1 .. 3 : d[i] = IF i <= 1 THEN <<"%">>[i] ELSE <<x, y>>[i - 1]
        <5>1. Len(<<"%">>) = 1 /\ Len(<<x, y>>) = 2
          OBVIOUS
        <5> QED BY <4>1, <4>2, <5>1, ConcatProperties
      <4>4. d[1] = "%" /\ d[2] = x /\ d[3] = y
        <5>1. 1 \in 1 .. 3 /\ 2 \in 1 .. 3 /\ 3 \in 1 .. 3 /\ ~(2 <= 1) /\ ~(3 <= 1) /\ 2 - 1 = 1 /\ 3 - 1 = 2
          OBVIOUS
        <5> QED BY <4>3, <5>1
      <4>5. PICK f \in Seq(Alphabet) : f = <<"%", x, y>>
        BY <4>1
      <4>6. Len(f) = 3 /\ f[1] = "%" /\ f[2] = x /\ f[3] = y
        BY <4>5
      <4>7. \A i \in 1 .. 3 : d[i] = f[i]
        <5>1. \A i \in 1 .. 3 : i = 1 \/ i = 2 \/ i = 3
          OBVIOUS
        <5> QED BY <4>4, <4>6, <5>1
      <4>8. d = f
        BY <4>3, <4>6, <4>7, SeqEqual
      <4> QED BY <4>2, <4>5, <4>8
    <3>2. h[1] \in Alphabet /\ h[2] \in Alphabet
      BY <1>1, <2>4
    <3>3. <<"%">> \o <<h[1], h[2]>> = <<"%", h[1], h[2]>>
      BY <3>1, <3>2
    <3> QED BY <2>3, <2>4, <3>3
  <2>6. \A d \in DOMAIN Hex : Hex[d] = <<h[1], h[2]>> => d = c
    <3>1. Hex["&"] = <<"2", "6">> /\ Hex["="] = <<"3", "D">> /\ Hex["%"] = <<"2", "5">> /\ Hex["+"] = <<"2", "B">>
      BY DEF Hex
    <3> QED BY <1>3, <2>1, <2>2, <2>4, <3>1
  <2>7. Character(h[1], h[2]) = c
    <3>1. c \in DOMAIN Hex /\ Hex[c] = <<h[1], h[2]>>
      BY <1>3, <2>1, <2>2, <2>4
    <3> QED BY <2>6, <3>1 DEF Character
  <2>8. Sign(c) \in Text /\ Len(Sign(c)) = 3 /\ Sign(c)[1] = "%" /\ Sign(c)[2] = h[1] /\ Sign(c)[3] = h[2]
    <3>1. {"%", h[1], h[2]} \subseteq Alphabet
      BY <1>1, <2>4
    <3> QED BY <2>5, <3>1 DEF Text
  <2>9. \A j \in 1 .. 3 : Sign(c)[j] # "&"
    BY <2>4, <2>8
  <2> QED BY <2>7, <2>8, <2>9
<1>4. CASE c # " " /\ c \notin {"&", "=", "%", "+"}
  <2>1. Sign(c) = <<c>>
    BY <1>4 DEF Sign, Hex
  <2>2. Sign(c) \in Text /\ Len(Sign(c)) = 1 /\ Sign(c)[1] = c /\ 1 # 3
    BY <2>1 DEF Text
  <2>3. \A j \in 1 .. 1 : j = 1
    OBVIOUS
  <2> QED BY <1>4, <2>2, <2>3
<1> QED BY <1>2, <1>3, <1>4

LEMMA CharacterIs ==
  ASSUME NEW hi, NEW lo
  PROVE  Character(hi, lo) \in Alphabet
<1>1. DOMAIN Hex \subseteq Alphabet /\ "?" \in Alphabet
  BY ArgsAssumption DEF Hex
<1> QED BY <1>1 DEF Character

LEMMA EncodingIs ==
  ASSUME NEW value \in Text
  PROVE  Grows(Encoding(value), [i \in 1 .. Len(value) |-> Sign(value[i])], Len(value), Alphabet)
<1> DEFINE n == Len(value)
           t == [i \in 1 .. Len(value) |-> Sign(value[i])]
           e == Encoding(value)
           Is(f) == f = [i \in 0 .. Len(value) |-> IF i = 0 THEN <<>> ELSE f[i - 1] \o Sign(value[i])]
<1>1. n \in Nat /\ t \in [1 .. n -> Seq(Alphabet)]
  <2>1. n \in Nat /\ \A i \in 1 .. n : value[i] \in Alphabet
    BY LenProperties, ElementOfSeq DEF Text
  <2> QED BY <2>1, SignIs DEF Text
<1>2. PICK c : Grows(c, t, n, Alphabet)
  <2> HIDE DEF n, t
  <2> QED BY <1>1, GrowingExists
<1>3. Is(c)
  <2>1. c \in [0 .. n -> Seq(Alphabet)] /\ c[0] = <<>> /\ \A i \in 1 .. n : c[i] = c[i - 1] \o t[i]
    BY <1>2 DEF Grows
  <2>2. \A i \in 0 .. n : c[i] = IF i = 0 THEN <<>> ELSE c[i - 1] \o Sign(value[i])
    <3>1. \A i \in 0 .. n : i # 0 => i \in 1 .. n
      BY <1>1
    <3>2. \A i \in 1 .. n : t[i] = Sign(value[i])
      OBVIOUS
    <3> HIDE DEF n, t
    <3> QED BY <2>1, <3>1, <3>2, Zenon
  <2>3. c = [i \in 0 .. n |-> c[i]]
    BY <2>1
  <2> QED BY <2>2, <2>3
<1>4. e = CHOOSE f : Is(f)
  BY DEF Encoding
<1>5. Is(e)
  BY <1>3, <1>4
<1> HIDE DEF e
<1>6. /\ DOMAIN e = 0 .. n /\ e[0] = <<>> /\ \A i \in 1 .. n : e[i] = e[i - 1] \o t[i]
  <2>1. \A i \in 0 .. n : e[i] = IF i = 0 THEN <<>> ELSE e[i - 1] \o Sign(value[i])
    BY <1>5
  <2>2. 0 \in 0 .. n /\ \A i \in 1 .. n : i \in 0 .. n /\ i # 0 /\ t[i] = Sign(value[i])
    BY <1>1
  <2>3. DOMAIN e = 0 .. n
    BY <1>5
  <2> HIDE DEF n, t
  <2> QED BY <2>1, <2>2, <2>3, Zenon
<1>7. \A i \in 0 .. n : e[i] \in Seq(Alphabet)
  <2> DEFINE P == {i \in 0 .. n : e[i] \in Seq(Alphabet)}
  <2>1. 0 \in P
    BY <1>1, <1>6
  <2>2. ASSUME NEW i \in 1 .. n, i - 1 \in P PROVE i \in P
    <3>1. t[i] \in Seq(Alphabet) /\ e[i - 1] \in Seq(Alphabet) /\ i \in 0 .. n
      BY <1>1, <2>2
    <3>2. e[i - 1] \o t[i] \in Seq(Alphabet)
      BY <3>1, ConcatProperties
    <3> QED BY <1>6, <3>1, <3>2
  <2> HIDE DEF P
  <2>3. 0 .. n \subseteq P
    BY <1>1, <2>1, <2>2, EveryTurn
  <2> QED BY <2>3 DEF P
<1>8. e \in [0 .. n -> Seq(Alphabet)]
  <2>1. e = [i \in 0 .. n |-> e[i]]
    BY <1>5
  <2> QED BY <1>7, <2>1
<1> QED BY <1>1, <1>6, <1>8 DEF Grows, e

(* The code of a value ends where its characters end, and holds no "&".     *)
LEMMA EncodeIs ==
  ASSUME NEW value \in Text
  PROVE  Encode(value) \in Text /\ \A j \in DOMAIN Encode(value) : Encode(value)[j] # "&"
<1> DEFINE n == Len(value)
           t == [i \in 1 .. Len(value) |-> Sign(value[i])]
           e == Encoding(value)
           P == {i \in 0 .. n : \A j \in 1 .. Len(e[i]) : e[i][j] # "&"}
<1>1. n \in Nat /\ Grows(e, t, n, Alphabet) /\ \A i \in 1 .. n : value[i] \in Alphabet
  BY EncodingIs, LenProperties, ElementOfSeq DEF Text
<1>2. \A i \in 1 .. n : t[i] = Sign(value[i])
  OBVIOUS
<1> HIDE DEF t, e
<1>3. e \in [0 .. n -> Seq(Alphabet)] /\ e[0] = <<>> /\ \A i \in 1 .. n : e[i] = e[i - 1] \o t[i]
  BY <1>1 DEF Grows
<1>4. 0 \in P
  BY <1>1, <1>3
<1>5. ASSUME NEW i \in 1 .. n, i - 1 \in P PROVE i \in P
  <2>1. value[i] \in Alphabet /\ t[i] = Sign(value[i]) /\ i - 1 \in 0 .. n /\ i \in 0 .. n
    BY <1>1, <1>2
  <2>2. t[i] \in Seq(Alphabet) /\ \A j \in 1 .. Len(t[i]) : t[i][j] # "&"
    BY <2>1, SignIs DEF Text
  <2>3. e[i - 1] \in Seq(Alphabet) /\ e[i] = e[i - 1] \o t[i]
    BY <1>3, <2>1
  <2>4. PICK a \in Nat : a = Len(e[i - 1])
    BY <2>3, LenProperties
  <2>5. PICK b \in Nat : b = Len(t[i])
    BY <2>2, LenProperties
  <2>6. Len(e[i]) = a + b /\ \A j \in 1 .. a + b : e[i][j] = IF j <= a THEN e[i - 1][j] ELSE t[i][j - a]
    <3>1. /\ Len(e[i - 1] \o t[i]) = Len(e[i - 1]) + Len(t[i])
          /\ \A j \in 1 .. Len(e[i - 1]) + Len(t[i]) :
               (e[i - 1] \o t[i])[j] = IF j <= Len(e[i - 1]) THEN e[i - 1][j] ELSE t[i][j - Len(e[i - 1])]
      BY <2>2, <2>3, ConcatProperties
    <3> QED BY <2>3, <2>4, <2>5, <3>1
  <2>7. \A j \in 1 .. a + b : IF j <= a THEN j \in 1 .. a ELSE j - a \in 1 .. b
    OBVIOUS
  <2>8. \A j \in 1 .. a : e[i - 1][j] # "&"
    BY <1>5, <2>4
  <2>9. \A j \in 1 .. b : t[i][j] # "&"
    BY <2>2, <2>5
  <2>10. \A j \in 1 .. a + b : e[i][j] # "&"
    BY <2>6, <2>7, <2>8, <2>9
  <2> QED BY <2>1, <2>6, <2>10
<1> HIDE DEF P
<1>6. n \in P
  <2>1. 0 .. n \subseteq P
    BY <1>1, <1>4, <1>5, EveryTurn
  <2> QED BY <1>1, <2>1
<1>7. e[n] \in Seq(Alphabet) /\ \A j \in 1 .. Len(e[n]) : e[n][j] # "&"
  BY <1>1, <1>3, <1>6 DEF P
<1>8. DOMAIN e[n] = 1 .. Len(e[n])
  BY <1>7, LenProperties
<1> QED BY <1>7, <1>8 DEF Encode, Text, e

(***************************************************************************)
(* urlDecode.                                                               *)
(***************************************************************************)
DecodeTurns == [i : Nat, decoded : Text]

LEMMA NextCharacterIs ==
  ASSUME NEW encoded \in Text, NEW t \in DecodeTurns
  PROVE  NextCharacter(encoded, t) \in DecodeTurns
<1>1. t.i \in Nat /\ t.decoded \in Seq(Alphabet) /\ Len(encoded) \in Nat
  BY LenProperties DEF DecodeTurns, Text
<1>2. CASE t.i >= Len(encoded)
  BY <1>2 DEF NextCharacter
<1>3. CASE ~(t.i >= Len(encoded))
  <2> DEFINE i == t.i + 1
             coded == encoded[i] = "%" /\ Enough(i, Len(encoded))
             c == IF coded THEN Character(encoded[i + 1], encoded[i + 2])
                           ELSE IF encoded[i] = "+" THEN " " ELSE encoded[i]
  <2>1. c \in Alphabet
    <3>1. i \in 1 .. Len(encoded)
      BY <1>1, <1>3
    <3>2. encoded[i] \in Alphabet /\ " " \in Alphabet
      BY <3>1, ElementOfSeq, ArgsAssumption DEF Text
    <3>3. Character(encoded[i + 1], encoded[i + 2]) \in Alphabet
      BY CharacterIs
    <3> HIDE DEF coded
    <3> QED BY <3>2, <3>3
  <2>2. NextCharacter(encoded, t) = [i |-> IF coded THEN i + 2 ELSE i, decoded |-> Append(t.decoded, c)]
    BY <1>3 DEF NextCharacter
  <2> HIDE DEF c
  <2>3. Append(t.decoded, c) \in Text
    BY <1>1, <2>1, AppendProperties DEF Text
  <2>4. (IF coded THEN i + 2 ELSE i) \in Nat
    BY <1>1
  <2> HIDE DEF coded, i
  <2> QED BY <2>2, <2>3, <2>4 DEF DecodeTurns
<1> QED BY <1>2, <1>3

LEMMA DecodingIs ==
  ASSUME NEW encoded \in Text
  PROVE  /\ Decoding(encoded) \in [0 .. Len(encoded) -> DecodeTurns]
         /\ Decoding(encoded)[0] = [i |-> 0, decoded |-> <<>>]
         /\ \A n \in 1 .. Len(encoded) : Decoding(encoded)[n] = NextCharacter(encoded, Decoding(encoded)[n - 1])
<1> DEFINE m == Len(encoded)
           start == [i |-> 0, decoded |-> <<>>]
           F == [p \in (1 .. m) \X DecodeTurns |-> NextCharacter(encoded, p[2])]
           e == Decoding(encoded)
           Is(f) == f = [n \in 0 .. Len(encoded) |-> IF n = 0 THEN [i |-> 0, decoded |-> <<>>]
                                                     ELSE NextCharacter(encoded, f[n - 1])]
<1>1. m \in Nat /\ start \in DecodeTurns
  BY LenProperties DEF Text, DecodeTurns
<1>2. F \in [(1 .. m) \X DecodeTurns -> DecodeTurns]
  BY NextCharacterIs
<1>3. \A n \in 1 .. m, x \in DecodeTurns : F[<<n, x>>] = NextCharacter(encoded, x)
  OBVIOUS
<1> HIDE DEF F
<1>4. PICK f : Loops(f, DecodeTurns, F, start, m)
  <2> HIDE DEF start, m
  <2> QED BY <1>1, <1>2, LoopExists
<1>5. f \in [0 .. m -> DecodeTurns] /\ f[0] = start /\ \A n \in 1 .. m : f[n] = NextCharacter(encoded, f[n - 1])
  <2>1. f \in [0 .. m -> DecodeTurns] /\ f[0] = start /\ \A n \in 1 .. m : f[n] = F[<<n, f[n - 1]>>]
    BY <1>4 DEF Loops
  <2>2. \A n \in 1 .. m : n - 1 \in 0 .. m
    BY <1>1
  <2> HIDE DEF start, m
  <2> QED BY <1>3, <2>1, <2>2
<1>6. Is(f)
  <2>1. \A n \in 0 .. m : n # 0 => n \in 1 .. m
    BY <1>1
  <2>2. \A n \in 0 .. m : f[n] = IF n = 0 THEN start ELSE NextCharacter(encoded, f[n - 1])
    <3> HIDE DEF start, m
    <3> QED BY <1>5, <2>1, Zenon
  <2>3. f = [n \in 0 .. m |-> f[n]]
    BY <1>5
  <2> QED BY <2>2, <2>3
<1>7. e = CHOOSE g : Is(g)
  BY DEF Decoding
<1>8. Is(e)
  BY <1>6, <1>7
<1> HIDE DEF e
<1>9. DOMAIN e = 0 .. m /\ e[0] = start /\ \A n \in 1 .. m : e[n] = NextCharacter(encoded, e[n - 1])
  <2>1. \A n \in 0 .. m : e[n] = IF n = 0 THEN start ELSE NextCharacter(encoded, e[n - 1])
    BY <1>8
  <2>2. 0 \in 0 .. m /\ \A n \in 1 .. m : n \in 0 .. m /\ n # 0
    BY <1>1
  <2>3. DOMAIN e = 0 .. m
    BY <1>8
  <2> HIDE DEF start, m
  <2> QED BY <2>1, <2>2, <2>3, Zenon
<1>10. \A n \in 0 .. m : e[n] \in DecodeTurns
  <2> DEFINE P == {n \in 0 .. m : e[n] \in DecodeTurns}
  <2>1. 0 \in P
    BY <1>1, <1>9
  <2>2. ASSUME NEW n \in 1 .. m, n - 1 \in P PROVE n \in P
    <3>1. e[n - 1] \in DecodeTurns /\ n \in 0 .. m
      BY <1>1, <2>2
    <3>2. NextCharacter(encoded, e[n - 1]) \in DecodeTurns
      BY <3>1, NextCharacterIs
    <3> QED BY <1>9, <3>1, <3>2
  <2> HIDE DEF P, m
  <2>3. 0 .. m \subseteq P
    BY <1>1, <2>1, <2>2, EveryTurn
  <2> QED BY <2>3 DEF P
<1>11. e \in [0 .. m -> DecodeTurns]
  <2>1. e = [n \in 0 .. m |-> e[n]]
    BY <1>8
  <2> QED BY <1>10, <2>1
<1> QED BY <1>9, <1>11 DEF e

LEMMA OneMore ==
  ASSUME NEW S, NEW value \in Seq(S), NEW k \in 1 .. Len(value)
  PROVE  Append(SubSeq(value, 1, k - 1), value[k]) = SubSeq(value, 1, k)
<1>1. Len(value) \in Nat /\ 1 \in 1 .. Len(value) /\ k \in 1 .. Len(value) /\ value[k] \in S
      /\ \A i \in 1 .. k - 1 : value[i] \in S
  BY LenProperties, ElementOfSeq
<1>2. SubSeq(value, 1, k) = SubSeq(value, 1, k - 1) \o <<value[k]>>
  BY <1>1, SubSeqRecursiveSecond
<1>3. SubSeq(value, 1, k - 1) \in Seq(S)
  BY <1>1, SubSeqProperties
<1>4. Append(SubSeq(value, 1, k - 1), value[k]) = SubSeq(value, 1, k - 1) \o <<value[k]>>
  BY <1>1, <1>3, AppendIsConcat
<1> QED BY <1>2, <1>4

LEMMA urlDecodeIs ==
  ASSUME NEW encoded \in Text
  PROVE  urlDecode(encoded) \in Text
<1>1. Len(encoded) \in 0 .. Len(encoded)
  BY LenProperties DEF Text
<1>2. Decoding(encoded)[Len(encoded)] \in DecodeTurns
  BY <1>1, DecodingIs
<1> QED BY <1>2 DEF urlDecode, DecodeTurns

LEMMA GrowingLong ==
  ASSUME NEW S, NEW n \in Nat, NEW t, NEW c, Grows(c, t, n, S), \A i \in 1 .. n : Len(t[i]) >= 1
  PROVE  \A i \in 0 .. n : Len(c[i]) >= i
<1> DEFINE P == {i \in 0 .. n : Len(c[i]) >= i}
<1>1. 0 \in P
  BY DEF Grows
<1>2. ASSUME NEW i \in 1 .. n, i - 1 \in P PROVE i \in P
  <2>1. i \in 0 .. n /\ i - 1 \in 0 .. n /\ t[i] \in Seq(S)
    BY DEF Grows
  <2>2. c[i - 1] \in Seq(S)
    BY <2>1 DEF Grows
  <2>3. PICK a \in Nat : a = Len(c[i - 1])
    BY <2>2, LenProperties
  <2>4. PICK b \in Nat : b = Len(t[i])
    BY <2>1, LenProperties
  <2>6. Len(c[i]) = a + b
    <3>1. Long(c[i - 1], a) /\ Long(t[i], b)
      BY <2>3, <2>4 DEF Long
    <3>2. Long(c[i], a + b)
      BY <3>1, GrowingAt
    <3> QED BY <3>2 DEF Long
  <2>7. b >= 1 /\ a >= i - 1
    BY <1>2, <2>3, <2>4
  <2>5. Len(c[i]) >= i
    BY <2>6, <2>7
  <2> QED BY <2>1, <2>5
<1> HIDE DEF P
<1>3. 0 .. n \subseteq P
  BY <1>1, <1>2, EveryTurn
<1> QED BY <1>3 DEF P

(* urlDecode gives back every text that a browser has encoded, whatever is  *)
(* in it: the codes are those of the four signs and nothing else is one.    *)
THEOREM EncodeDecoded ==
  ASSUME NEW value \in Text
  PROVE  urlDecode(Encode(value)) = value
<1> DEFINE n == Len(value)
           t == [i \in 1 .. Len(value) |-> Sign(value[i])]
           e == Encoding(value)
           encoded == Encode(value)
           m == Len(encoded)
           d == Decoding(encoded)
           TurnAt(q) == [i |-> Len(e[q]), decoded |-> SubSeq(value, 1, q)]
           P == {k \in 0 .. m : d[k] = TurnAt(IF k <= n THEN k ELSE n)}
<1>1. n \in Nat /\ Grows(e, t, n, Alphabet) /\ \A i \in 1 .. n : value[i] \in Alphabet
  BY EncodingIs, LenProperties, ElementOfSeq DEF Text
<1>2. \A i \in 1 .. n : t[i] = Sign(value[i])
  OBVIOUS
<1>3. encoded = e[n]
  BY DEF Encode
<1>4. encoded \in Text
  BY EncodeIs
<1> HIDE DEF t, e, encoded
<1>5. m \in Nat
  BY <1>4, LenProperties DEF Text
<1>6. \A i \in 1 .. n : Len(t[i]) >= 1
  <2>1. \A i \in 1 .. n : Len(t[i]) \in {1, 3}
    BY <1>1, <1>2, SignIs
  <2> QED BY <2>1
<1>7. n <= m
  <2>1. \A i \in 0 .. n : Len(e[i]) >= i
    BY <1>1, <1>6, GrowingLong
  <2> QED BY <1>1, <1>3, <1>5, <2>1
<1>8. d[0] = [i |-> 0, decoded |-> <<>>] /\ \A k \in 1 .. m : d[k] = NextCharacter(encoded, d[k - 1])
  BY <1>4, DecodingIs
<1> HIDE DEF d
<1>9. 0 \in P
  <2>1. e[0] = <<>> /\ Len(e[0]) = 0
    BY <1>1 DEF Grows
  <2>2. SubSeq(value, 1, 0) = <<>>
    BY SubSeqEmpty
  <2>3. 0 <= n /\ 0 \in 0 .. m
    BY <1>1, <1>5
  <2> QED BY <1>8, <2>1, <2>2, <2>3
<1>10. ASSUME NEW k \in 1 .. m, k - 1 \in P PROVE k \in P
  <2>1. k \in 0 .. m /\ d[k] = NextCharacter(encoded, d[k - 1])
    BY <1>5, <1>8
  <2>2. CASE k <= n
    <3>1. k \in 1 .. n /\ k - 1 <= n /\ value[k] \in Alphabet /\ t[k] = Sign(value[k])
      BY <1>1, <1>2, <2>2
    <3>2. d[k - 1] = TurnAt(k - 1)
      BY <1>10, <3>1
    <3>4. PICK s \in Text : s = Sign(value[k])
      BY <3>1, SignIs
    <3>3. PICK a \in Nat : a = Len(e[k - 1])
      <4>1. k - 1 \in 0 .. n
        BY <1>1, <3>1
      <4>2. e[k - 1] \in Seq(Alphabet)
        BY <1>1, <4>1 DEF Grows
      <4> QED BY <4>2, LenProperties
    <3>13. PICK b \in Nat : b = Len(s)
      BY LenProperties DEF Text
    <3>14. Long(t[k], b) /\ Long(e[k - 1], a)
      BY <3>1, <3>3, <3>4, <3>13 DEF Long
    <3>5. Len(e[k]) = a + b
      <4>1. Long(e[k], a + b)
        BY <1>1, <3>1, <3>14, GrowingAt
      <4> QED BY <4>1 DEF Long
    <3>6. Len(e[k]) <= m
      BY <1>1, <1>3, <3>1, <3>14, GrowingAt
    <3>7. \A j \in 1 .. b : encoded[a + j] = s[j]
      <4>1. Placed(t[k], b, a, e[n])
        BY <1>1, <3>1, <3>14, GrowingAt
      <4> QED BY <1>3, <3>1, <3>4, <4>1 DEF Placed
    <3>8. /\ b \in {1, 3}
          /\ b = 1 => s[1] # "%" /\ value[k] = IF s[1] = "+" THEN " " ELSE s[1]
          /\ b = 3 => s[1] = "%" /\ value[k] = Character(s[2], s[3])
      BY <3>1, <3>4, <3>13, SignIs
    <3>9. d[k - 1].i = a /\ d[k - 1].decoded = SubSeq(value, 1, k - 1)
      BY <3>2, <3>3
    <3>10. ~(a >= m) /\ d[k - 1].i + 1 = a + 1
      <4>0. a + b <= m
        <5> HIDE DEF m
        <5> QED BY <3>5, <3>6
      <4>2. b \in {1, 3}
        BY <3>8
      <4>1. a + b <= m /\ b >= 1
        BY <4>0, <4>2
      <4> QED BY <1>5, <3>9, <4>1
    <3>11. Append(SubSeq(value, 1, k - 1), value[k]) = SubSeq(value, 1, k)
      BY <3>1, OneMore DEF Text
    <3>12. NextCharacter(encoded, d[k - 1]) = TurnAt(k)
      <4>1. CASE b = 1
        <5>1. encoded[a + 1] = s[1] /\ s[1] # "%" /\ value[k] = IF s[1] = "+" THEN " " ELSE s[1]
          <6>1. 1 \in 1 .. b
            BY <4>1
          <6> QED BY <3>7, <3>8, <4>1, <6>1
        <5>2. NextCharacter(encoded, d[k - 1])
                = [i |-> a + 1, decoded |-> Append(SubSeq(value, 1, k - 1), IF s[1] = "+" THEN " " ELSE s[1])]
          BY <3>9, <3>10, <5>1 DEF NextCharacter
        <5> QED BY <3>5, <3>11, <4>1, <5>1, <5>2
      <4>2. CASE b = 3
        <5>1. encoded[a + 1] = s[1] /\ encoded[a + 2] = s[2] /\ encoded[a + 3] = s[3]
          BY <3>7, <4>2
        <5>2. s[1] = "%" /\ value[k] = Character(s[2], s[3])
          BY <3>8, <4>2
        <5>3. Enough(a + 1, m)
          BY <1>5, <3>5, <3>6, <4>2 DEF Enough
        <5>4. (a + 1) + 1 = a + 2 /\ (a + 1) + 2 = a + 3
          OBVIOUS
        <5>5. NextCharacter(encoded, d[k - 1])
                = [i |-> a + 3, decoded |-> Append(SubSeq(value, 1, k - 1), Character(s[2], s[3]))]
          BY <3>9, <3>10, <5>1, <5>2, <5>3, <5>4 DEF NextCharacter
        <5> QED BY <3>5, <3>11, <4>2, <5>2, <5>5
      <4> QED BY <3>8, <4>1, <4>2
    <3> HIDE DEF TurnAt
    <3> QED BY <2>1, <2>2, <3>12
  <2>3. CASE ~(k <= n)
    <3>1. (IF k - 1 <= n THEN k - 1 ELSE n) = n
      BY <1>1, <2>3
    <3>2. d[k - 1] = TurnAt(n)
      BY <1>10, <3>1
    <3>3. d[k - 1].i = m
      BY <1>3, <3>2
    <3>4. NextCharacter(encoded, d[k - 1]) = d[k - 1]
      BY <1>5, <3>3 DEF NextCharacter
    <3> HIDE DEF TurnAt
    <3> QED BY <2>1, <2>3, <3>2, <3>4
  <2> QED BY <2>2, <2>3
<1> HIDE DEF P
<1>11. m \in P
  <2>1. 0 .. m \subseteq P
    BY <1>5, <1>9, <1>10, EveryTurn
  <2> QED BY <1>5, <2>1
<1>12. d[m] = TurnAt(n)
  <2>1. (IF m <= n THEN m ELSE n) = n
    BY <1>1, <1>5, <1>7
  <2> HIDE DEF TurnAt, m, n
  <2> QED BY <1>11, <2>1 DEF P
<1>13. urlDecode(encoded) = d[m].decoded
  BY DEF urlDecode, d
<1>14. SubSeq(value, 1, n) = value
  BY SubSeqFull DEF Text
<1> QED BY <1>12, <1>13, <1>14 DEF encoded

(* Text without codes stays as it is.                                       *)
LEMMA PlainDecoded ==
  ASSUME NEW word \in Text, \A i \in DOMAIN word : word[i] \notin {"%", "+"}
  PROVE  urlDecode(word) = word
<1> DEFINE n == Len(word)
           d == Decoding(word)
           P == {k \in 0 .. n : d[k] = [i |-> k, decoded |-> SubSeq(word, 1, k)]}
<1>1. n \in Nat /\ \A i \in 1 .. n : word[i] # "%" /\ word[i] # "+"
  BY LenProperties DEF Text
<1>2. d[0] = [i |-> 0, decoded |-> <<>>] /\ \A k \in 1 .. n : d[k] = NextCharacter(word, d[k - 1])
  BY DecodingIs
<1> HIDE DEF d
<1>3. 0 \in P
  <2>1. SubSeq(word, 1, 0) = <<>>
    BY SubSeqEmpty
  <2> QED BY <1>1, <1>2, <2>1
<1>4. ASSUME NEW k \in 1 .. n, k - 1 \in P PROVE k \in P
  <2>1. k \in 0 .. n /\ d[k] = NextCharacter(word, d[k - 1]) /\ word[k] # "%" /\ word[k] # "+"
    BY <1>1, <1>2
  <2>2. d[k - 1].i = k - 1 /\ d[k - 1].decoded = SubSeq(word, 1, k - 1)
    BY <1>4
  <2>3. ~(k - 1 >= n) /\ (k - 1) + 1 = k
    BY <1>1
  <2>4. NextCharacter(word, d[k - 1]) = [i |-> k, decoded |-> Append(SubSeq(word, 1, k - 1), word[k])]
    BY <2>1, <2>2, <2>3 DEF NextCharacter
  <2>5. Append(SubSeq(word, 1, k - 1), word[k]) = SubSeq(word, 1, k)
    BY OneMore DEF Text
  <2> QED BY <2>1, <2>4, <2>5
<1> HIDE DEF P
<1>5. n \in P
  <2>1. 0 .. n \subseteq P
    BY <1>1, <1>3, <1>4, EveryTurn
  <2> QED BY <1>1, <2>1
<1>6. d[n].decoded = SubSeq(word, 1, n)
  BY <1>5 DEF P
<1>7. SubSeq(word, 1, n) = word
  BY SubSeqFull DEF Text
<1> QED BY <1>6, <1>7 DEF urlDecode, d

(***************************************************************************)
(* _parseArguments.                                                         *)
(***************************************************************************)
LEMMA IndexIs ==
  ASSUME NEW data \in Text, NEW c, NEW p \in Nat \ {0}, NEW q \in Nat, p <= q, q <= Len(data), data[q] = c,
         \A j \in p .. q - 1 : data[j] # c
  PROVE  indexOf(data, c, p) = q
<1> DEFINE found == {i \in p .. Len(data) : data[i] = c}
<1>1. Len(data) \in Nat
  BY LenProperties DEF Text
<1>2. q \in found
  BY <1>1
<1>3. \A y \in found : q <= y
  BY <1>1
<1>4. found \subseteq Nat
  BY <1>1
<1> HIDE DEF found
<1>5. Min(found) = q
  <2>1. \A x \in found : (\A y \in found : x <= y) => x = q
    BY <1>2, <1>3, <1>4
  <2> QED BY <1>2, <1>3, <2>1 DEF Min
<1>6. found # {}
  BY <1>2
<1> QED BY <1>5, <1>6 DEF indexOf, found

LEMMA IndexNone ==
  ASSUME NEW data, NEW c, NEW p, \A j \in p .. Len(data) : data[j] # c
  PROVE  indexOf(data, c, p) = 0
  BY DEF indexOf

LEMMA IndexTyped ==
  ASSUME NEW data \in Text, NEW c, NEW p \in Nat \ {0}
  PROVE  indexOf(data, c, p) = 0 \/ indexOf(data, c, p) \in p .. Len(data)
<1> DEFINE found == {i \in p .. Len(data) : data[i] = c}
<1>1. found \subseteq Nat /\ found \subseteq p .. Len(data)
  BY LenProperties DEF Text
<1>2. CASE found = {}
  BY <1>2 DEF indexOf
<1>3. CASE found # {}
  <2> HIDE DEF found
  <2>1. \E x \in found : \A y \in found : x <= y
    BY <1>1, <1>3, LeastOne
  <2>2. Min(found) \in found
    BY <2>1 DEF Min
  <2>3. indexOf(data, c, p) = Min(found)
    BY <1>3 DEF indexOf, found
  <2> QED BY <1>1, <2>2, <2>3
<1> QED BY <1>2, <1>3

Argument == [key : Text, value : Text]
ParseTurns == [place : Nat \ {0}, args : Seq(Argument), ends : BOOLEAN]

LEMMA PieceOf ==
  ASSUME NEW data \in Text, NEW a \in Nat \ {0}, NEW b \in Int, b <= Len(data)
  PROVE  SubSeq(data, a, b) \in Text
<1>1. \A i \in a .. b : data[i] \in Alphabet
  <2>1. \A i \in a .. b : i \in 1 .. Len(data)
    BY LenProperties DEF Text
  <2> QED BY <2>1, ElementOfSeq DEF Text
<1> QED BY <1>1, SubSeqProperties DEF Text

LEMMA NextArgumentIs ==
  ASSUME NEW data \in Text, NEW t \in ParseTurns
  PROVE  NextArgument(data, t) \in ParseTurns
<1> DEFINE equal == indexOf(data, "=", t.place)
           amp   == indexOf(data, "&", t.place)
           end   == IF amp = 0 THEN Len(data) ELSE amp - 1
           argument == [key |-> SubSeq(data, t.place, equal - 1), value |-> urlDecode(SubSeq(data, equal + 1, end))]
           args == IF equal = 0 \/ (amp # 0 /\ equal > amp) THEN t.args ELSE Append(t.args, argument)
<1>1. t.place \in Nat \ {0} /\ t.args \in Seq(Argument) /\ t.ends \in BOOLEAN /\ Len(data) \in Nat
  BY LenProperties DEF ParseTurns, Text
<1>2. equal = 0 \/ equal \in t.place .. Len(data)
  BY <1>1, IndexTyped
<1>3. amp = 0 \/ amp \in t.place .. Len(data)
  BY <1>1, IndexTyped
<1>4. NextArgument(data, t) = IF t.ends THEN t ELSE [place |-> amp + 1, ends |-> amp = 0, args |-> args]
  BY DEF NextArgument
<1> HIDE DEF equal, amp
<1>5. equal \in 0 .. Len(data) /\ amp \in 0 .. Len(data)
  BY <1>1, <1>2, <1>3
<1>6. equal # 0 => argument \in Argument
  <2> SUFFICES ASSUME equal # 0 PROVE argument \in Argument
    OBVIOUS
  <2>1. SubSeq(data, t.place, equal - 1) \in Text
    BY <1>1, <1>5, PieceOf
  <2>2. end \in Int /\ end <= Len(data)
    BY <1>1, <1>5
  <2> HIDE DEF end
  <2>3. SubSeq(data, equal + 1, end) \in Text
    <3>1. equal + 1 \in Nat \ {0}
      BY <1>5
    <3> QED BY <2>2, <3>1, PieceOf
  <2>4. urlDecode(SubSeq(data, equal + 1, end)) \in Text
    BY <2>3, urlDecodeIs
  <2> QED BY <2>1, <2>4 DEF Argument
<1> HIDE DEF argument
<1>7. args \in Seq(Argument)
  BY <1>1, <1>6, AppendProperties
<1> HIDE DEF args
<1>8. amp + 1 \in Nat \ {0}
  BY <1>5
<1>9. (amp = 0) \in BOOLEAN
  OBVIOUS
<1>10. [place |-> amp + 1, ends |-> amp = 0, args |-> args] \in ParseTurns
  BY <1>7, <1>8, <1>9 DEF ParseTurns
<1> QED BY <1>4, <1>10

LEMMA ParsingIs ==
  ASSUME NEW data \in Text
  PROVE  /\ Parsing(data) \in [0 .. Len(data) -> ParseTurns]
         /\ Parsing(data)[0] = [place |-> 1, args |-> <<>>, ends |-> FALSE]
         /\ \A n \in 1 .. Len(data) : Parsing(data)[n] = NextArgument(data, Parsing(data)[n - 1])
<1> DEFINE m == Len(data)
           start == [place |-> 1, args |-> <<>>, ends |-> FALSE]
           F == [p \in (1 .. m) \X ParseTurns |-> NextArgument(data, p[2])]
           e == Parsing(data)
           Is(f) == f = [n \in 0 .. Len(data) |-> IF n = 0 THEN [place |-> 1, args |-> <<>>, ends |-> FALSE]
                                                  ELSE NextArgument(data, f[n - 1])]
<1>1. m \in Nat /\ start \in ParseTurns
  <2>1. m \in Nat
    BY LenProperties DEF Text
  <2>2. <<>> \in Seq(Argument) /\ 1 \in Nat \ {0} /\ FALSE \in BOOLEAN
    OBVIOUS
  <2> QED BY <2>1, <2>2 DEF ParseTurns
<1>2. F \in [(1 .. m) \X ParseTurns -> ParseTurns]
  BY NextArgumentIs
<1>3. \A n \in 1 .. m, x \in ParseTurns : F[<<n, x>>] = NextArgument(data, x)
  OBVIOUS
<1> HIDE DEF F
<1>4. PICK f : Loops(f, ParseTurns, F, start, m)
  <2> HIDE DEF start, m
  <2> QED BY <1>1, <1>2, LoopExists
<1>5. f \in [0 .. m -> ParseTurns] /\ f[0] = start /\ \A n \in 1 .. m : f[n] = NextArgument(data, f[n - 1])
  <2>1. f \in [0 .. m -> ParseTurns] /\ f[0] = start /\ \A n \in 1 .. m : f[n] = F[<<n, f[n - 1]>>]
    BY <1>4 DEF Loops
  <2>2. \A n \in 1 .. m : n - 1 \in 0 .. m
    BY <1>1
  <2> HIDE DEF start, m
  <2> QED BY <1>3, <2>1, <2>2
<1>6. Is(f)
  <2>1. \A n \in 0 .. m : n # 0 => n \in 1 .. m
    BY <1>1
  <2>2. \A n \in 0 .. m : f[n] = IF n = 0 THEN start ELSE NextArgument(data, f[n - 1])
    <3> HIDE DEF start, m
    <3> QED BY <1>5, <2>1, Zenon
  <2>3. f = [n \in 0 .. m |-> f[n]]
    BY <1>5
  <2> QED BY <2>2, <2>3
<1>7. e = CHOOSE g : Is(g)
  BY DEF Parsing
<1>8. Is(e)
  BY <1>6, <1>7
<1> HIDE DEF e
<1>9. DOMAIN e = 0 .. m /\ e[0] = start /\ \A n \in 1 .. m : e[n] = NextArgument(data, e[n - 1])
  <2>1. \A n \in 0 .. m : e[n] = IF n = 0 THEN start ELSE NextArgument(data, e[n - 1])
    BY <1>8
  <2>2. 0 \in 0 .. m /\ \A n \in 1 .. m : n \in 0 .. m /\ n # 0
    BY <1>1
  <2>3. DOMAIN e = 0 .. m
    BY <1>8
  <2> HIDE DEF start, m
  <2> QED BY <2>1, <2>2, <2>3, Zenon
<1>10. \A n \in 0 .. m : e[n] \in ParseTurns
  <2> DEFINE P == {n \in 0 .. m : e[n] \in ParseTurns}
  <2>1. 0 \in P
    <3>1. 0 \in 0 .. m
      BY <1>1
    <3> HIDE DEF start
    <3> QED BY <1>1, <1>9, <3>1
  <2>2. ASSUME NEW n \in 1 .. m, n - 1 \in P PROVE n \in P
    <3>1. e[n - 1] \in ParseTurns /\ n \in 0 .. m
      BY <1>1, <2>2
    <3>2. NextArgument(data, e[n - 1]) \in ParseTurns
      BY <3>1, NextArgumentIs
    <3> QED BY <1>9, <3>1, <3>2
  <2> HIDE DEF P, m
  <2>3. 0 .. m \subseteq P
    BY <1>1, <2>1, <2>2, EveryTurn
  <2> QED BY <2>3 DEF P
<1>11. e \in [0 .. m -> ParseTurns]
  <2>1. e = [n \in 0 .. m |-> e[n]]
    BY <1>8
  <2> QED BY <1>10, <2>1
<1> QED BY <1>9, <1>11 DEF e

LEMMA parseArgumentsIs ==
  ASSUME NEW data \in Text
  PROVE  parseArguments(data) \in Seq(Argument)
<1>1. Len(data) \in 0 .. Len(data)
  BY LenProperties DEF Text
<1>2. Parsing(data)[Len(data)] \in ParseTurns
  BY <1>1, ParsingIs
<1> QED BY <1>2 DEF parseArguments, ParseTurns

ArgumentAt(data, p, key, k, word, x) ==
  /\ \A j \in 1 .. k : data[(p - 1) + j] = key[j]
  /\ data[p + k] = "="
  /\ \A j \in 1 .. x : data[(p + k) + j] = word[j]

KeyFree(key, k)   == \A j \in 1 .. k : key[j] \notin {"=", "&"}
TextFree(word, x) == \A j \in 1 .. x : word[j] # "&"

Flag(last) == last \in BOOLEAN

NextPlace(e, last, place) == place = IF last THEN 1 ELSE e + 2

(* What a turn makes of the place and of what it has found before.          *)
TurnMakes(data, p, args, place, last, found) ==
  NextArgument(data, [place |-> p, args |-> args, ends |-> FALSE]) = [place |-> place, ends |-> last, args |-> found]

Followed(data, m, e, last) == IF last THEN m = e ELSE e + 1 <= m /\ data[e + 1] = "&"

(* A turn finds the argument that starts at its place.                      *)
LEMMA TurnIs ==
  ASSUME NEW data \in Text, NEW p \in Nat \ {0}, NEW args, NEW key \in Text, NEW word \in Text,
         NEW k \in Nat, NEW x \in Nat, NEW m \in Nat, Long(key, k), Long(word, x), Long(data, m),
         ArgumentAt(data, p, key, k, word, x), KeyFree(key, k), TextFree(word, x),
         NEW last, Flag(last), Followed(data, m, p + k + x, last), NEW place, NextPlace(p + k + x, last, place)
  PROVE  TurnMakes(data, p, args, place, last,
                   Append(args, [key |-> key, value |-> urlDecode(word)]))
<1> DEFINE t == [place |-> p, args |-> args, ends |-> FALSE]
           equal == indexOf(data, "=", p)
           amp   == indexOf(data, "&", p)
           end   == IF amp = 0 THEN Len(data) ELSE amp - 1
<1>13. last \in BOOLEAN
  BY DEF Flag
<1>0. /\ \A j \in 1 .. k : data[(p - 1) + j] = key[j] /\ key[j] # "=" /\ key[j] # "&"
      /\ data[p + k] = "="
      /\ \A j \in 1 .. x : data[(p + k) + j] = word[j] /\ word[j] # "&"
  BY DEF ArgumentAt, KeyFree, TextFree
<1>1. Len(data) = m /\ Len(key) = k /\ Len(word) = x
  BY DEF Long
<1>12. IF last THEN m = p + k + x ELSE p + k + x + 1 <= m /\ data[p + k + x + 1] = "&"
  BY DEF Followed
<1>2. p + k \in Nat /\ p + k <= m /\ p + k + x \in Nat /\ p + k + x <= m
  BY <1>12
<1>3. \A j \in p .. (p + k) - 1 : data[j] # "=" /\ data[j] # "&"
  <2> SUFFICES ASSUME NEW j \in p .. (p + k) - 1 PROVE data[j] # "=" /\ data[j] # "&"
    OBVIOUS
  <2>1. j - (p - 1) \in 1 .. k /\ (p - 1) + (j - (p - 1)) = j
    OBVIOUS
  <2> QED BY <1>0, <2>1
<1>4. \A j \in p .. p + k + x : data[j] # "&"
  <2> SUFFICES ASSUME NEW j \in p .. p + k + x PROVE data[j] # "&"
    OBVIOUS
  <2>1. CASE j \in p .. (p + k) - 1
    BY <1>3, <2>1
  <2>2. CASE j = p + k
    BY <1>0, <2>2
  <2>3. CASE j > p + k
    <3>1. j - (p + k) \in 1 .. x /\ (p + k) + (j - (p + k)) = j
      BY <2>3
    <3> QED BY <1>0, <3>1
  <2> QED BY <2>1, <2>2, <2>3
<1>5. equal = p + k
  <2>1. p <= p + k /\ p + k <= Len(data)
    BY <1>1, <1>2
  <2> QED BY <1>0, <1>2, <1>3, <2>1, IndexIs
<1>6. amp = IF last THEN 0 ELSE p + k + x + 1
  <2>1. CASE last
    <3>1. \A j \in p .. Len(data) : data[j] # "&"
      BY <1>1, <1>4, <1>12, <2>1
    <3> QED BY <2>1, <3>1, IndexNone
  <2>2. CASE ~last
    <3>1. PICK q \in Nat : q = p + k + x + 1
      OBVIOUS
    <3>2. p <= q /\ q <= Len(data) /\ data[q] = "&" /\ \A j \in p .. q - 1 : data[j] # "&"
      BY <1>1, <1>4, <1>12, <2>2, <3>1
    <3>3. indexOf(data, "&", p) = q
      BY <3>2, IndexIs
    <3> QED BY <2>2, <3>1, <3>3
  <2> QED BY <1>13, <2>1, <2>2
<1>7. end = p + k + x
  <2>1. CASE last
    BY <1>1, <1>6, <1>12, <2>1
  <2>2. CASE ~last
    <3>1. amp = p + k + x + 1 /\ amp # 0
      BY <1>6, <2>2
    <3> HIDE DEF amp
    <3> QED BY <3>1
  <2> QED BY <1>13, <2>1, <2>2
<1>8. SubSeq(data, p, equal - 1) = key
  <2>1. PICK q \in Int : q = (p + k) - 1
    OBVIOUS
  <2>2. \A i \in p .. q : data[i] \in Alphabet
    <3>1. \A i \in p .. q : i \in 1 .. Len(data)
      BY <1>1, <1>2, <2>1
    <3> QED BY <3>1, ElementOfSeq DEF Text
  <2>3. PICK d : d = SubSeq(data, p, q)
    OBVIOUS
  <2>4. d \in Seq(Alphabet) /\ Len(d) = (IF p <= q THEN q - p + 1 ELSE 0) /\ \A i \in 1 .. q - p + 1 : d[i] = data[p + i - 1]
    BY <2>2, <2>3, SubSeqProperties
  <2>5. (IF p <= q THEN q - p + 1 ELSE 0) = k /\ q - p + 1 = k
    BY <2>1
  <2>6. \A i \in 1 .. k : p + i - 1 = (p - 1) + i
    OBVIOUS
  <2>7. Len(d) = k /\ \A i \in 1 .. k : d[i] = key[i]
    BY <1>0, <2>4, <2>5, <2>6
  <2>8. d = key
    BY <1>1, <2>4, <2>7, SeqEqual DEF Text
  <2>9. equal - 1 = q
    BY <1>5, <2>1
  <2> QED BY <2>3, <2>8, <2>9
<1>9. SubSeq(data, equal + 1, end) = word
  <2>1. PICK r \in Int : r = p + k + 1
    OBVIOUS
  <2>10. PICK q \in Int : q = p + k + x
    OBVIOUS
  <2>2. \A i \in r .. q : data[i] \in Alphabet
    <3>1. \A i \in r .. q : i \in 1 .. Len(data)
      BY <1>1, <1>2, <2>1, <2>10
    <3> QED BY <3>1, ElementOfSeq DEF Text
  <2>3. PICK d : d = SubSeq(data, r, q)
    OBVIOUS
  <2>4. d \in Seq(Alphabet) /\ Len(d) = (IF r <= q THEN q - r + 1 ELSE 0) /\ \A i \in 1 .. q - r + 1 : d[i] = data[r + i - 1]
    BY <2>2, <2>3, SubSeqProperties
  <2>5. (IF r <= q THEN q - r + 1 ELSE 0) = x /\ q - r + 1 = x
    BY <2>1, <2>10
  <2>6. \A i \in 1 .. x : r + i - 1 = (p + k) + i
    BY <2>1
  <2>7. Len(d) = x /\ \A i \in 1 .. x : d[i] = word[i]
    BY <1>0, <2>4, <2>5, <2>6
  <2>8. d = word
    BY <1>1, <2>4, <2>7, SeqEqual DEF Text
  <2>9. equal + 1 = r /\ end = q
    BY <1>5, <1>7, <2>1, <2>10
  <2> QED BY <2>3, <2>8, <2>9
<1>10. NextArgument(data, t)
         = [place |-> amp + 1, ends |-> amp = 0,
            args  |-> IF equal = 0 \/ (amp # 0 /\ equal > amp) THEN args
                      ELSE Append(args, [key |-> SubSeq(data, p, equal - 1), value |-> urlDecode(SubSeq(data, equal + 1, end))])]
  BY DEF NextArgument
<1>11. /\ amp + 1 = IF last THEN 1 ELSE p + k + x + 2
       /\ (amp = 0) = last
       /\ ~(equal = 0 \/ (amp # 0 /\ equal > amp))
  <2> HIDE DEF amp, equal
  <2>1. CASE last
    <3>1. amp = 0 /\ last = TRUE /\ equal # 0
      BY <1>5, <1>6, <1>13, <2>1
    <3>2. amp + 1 = 1
      BY <3>1
    <3>3. (amp = 0) = last
      BY <3>1
    <3> QED BY <2>1, <3>1, <3>2, <3>3
  <2>2. CASE ~last
    BY <1>5, <1>6, <1>13, <2>2
  <2> QED BY <1>13, <2>1, <2>2
<1> HIDE DEF amp, equal, end
<1> QED BY <1>8, <1>9, <1>10, <1>11 DEF TurnMakes, NextPlace

(***************************************************************************)
(* The arguments a browser writes one after the other.                      *)
(***************************************************************************)
LEMMA Associative ==
  \A s, t, u \in Seq(Alphabet) : (s \o t) \o u = s \o (t \o u)
  BY ConcatAssociative

LEMMA TwoPlaced ==
  ASSUME NEW S, NEW s \in Seq(S), NEW t \in Seq(S), NEW a \in Nat, NEW b \in Nat, Long(s, a), Long(t, b)
  PROVE  s \o t \in Seq(S) /\ Long(s \o t, a + b) /\ Placed(s, a, 0, s \o t) /\ Placed(t, b, a, s \o t)
<1>1. Len(s) = a /\ Len(t) = b
  BY DEF Long
<1>2. PICK u \in Seq(S) : u = s \o t
  BY ConcatProperties
<1>3. Len(u) = a + b /\ \A j \in 1 .. a + b : u[j] = IF j <= a THEN s[j] ELSE t[j - a]
  <2>1. /\ Len(s \o t) = Len(s) + Len(t)
        /\ \A j \in 1 .. Len(s) + Len(t) : (s \o t)[j] = IF j <= Len(s) THEN s[j] ELSE t[j - Len(s)]
    BY ConcatProperties
  <2> QED BY <1>1, <1>2, <2>1
<1>4. ASSUME NEW j \in 1 .. a PROVE u[0 + j] = s[j]
  <2>1. 0 + j = j /\ j \in 1 .. a + b /\ j <= a
    OBVIOUS
  <2> QED BY <1>3, <2>1
<1>5. ASSUME NEW j \in 1 .. b PROVE u[a + j] = t[j]
  <2>1. a + j \in 1 .. a + b /\ ~(a + j <= a) /\ (a + j) - a = j
    OBVIOUS
  <2> QED BY <1>3, <2>1
<1> QED BY <1>2, <1>3, <1>4, <1>5 DEF Long, Placed

LEMMA PlacedInside ==
  ASSUME NEW u, NEW s, NEW w, NEW l \in Nat, NEW o \in Nat, NEW a \in Nat, NEW p \in Nat,
         Placed(u, l, o, s), o + l <= a, Placed(s, a, p, w)
  PROVE  Placed(u, l, p + o, w)
<1> SUFFICES ASSUME NEW j \in 1 .. l PROVE w[(p + o) + j] = u[j]
  BY DEF Placed
<1>1. o + j \in 1 .. a /\ p + (o + j) = (p + o) + j
  OBVIOUS
<1>2. s[o + j] = u[j]
  BY DEF Placed
<1>3. w[p + (o + j)] = s[o + j]
  BY <1>1 DEF Placed
<1> QED BY <1>1, <1>2, <1>3

LEMMA FourPlaced ==
  ASSUME NEW S, NEW q \in Seq(S), NEW r \in Seq(S), NEW s \in Seq(S), NEW t \in Seq(S),
         NEW a \in Nat, NEW b \in Nat, NEW c \in Nat, NEW d \in Nat,
         Long(q, a), Long(r, b), Long(s, c), Long(t, d)
  PROVE  /\ q \o r \o s \o t \in Seq(S) /\ Long(q \o r \o s \o t, a + b + c + d)
         /\ Placed(q, a, 0, q \o r \o s \o t) /\ Placed(r, b, a, q \o r \o s \o t)
         /\ Placed(s, c, a + b, q \o r \o s \o t) /\ Placed(t, d, a + b + c, q \o r \o s \o t)
<1>1. PICK v : v = q \o r
  OBVIOUS
<1>2. v \in Seq(S) /\ Long(v, a + b) /\ Placed(q, a, 0, v) /\ Placed(r, b, a, v)
  BY <1>1, TwoPlaced
<1>3. PICK w : w = v \o s
  OBVIOUS
<1>4. PICK e \in Nat : e = a + b
  OBVIOUS
<1>5. w \in Seq(S) /\ Long(w, e + c) /\ Placed(v, e, 0, w) /\ Placed(s, c, e, w)
  BY <1>2, <1>3, <1>4, TwoPlaced
<1>6. PICK f \in Nat : f = e + c
  BY <1>4
<1>7. PICK z : z = w \o t
  OBVIOUS
<1>8. z \in Seq(S) /\ Long(z, f + d) /\ Placed(w, f, 0, z) /\ Placed(t, d, f, z)
  BY <1>5, <1>6, <1>7, TwoPlaced
<1>9. Placed(v, e, 0, z)
  <2>1. 0 + e <= f /\ 0 + 0 = 0 /\ 0 \in Nat
    BY <1>6
  <2>2. Placed(v, e, 0 + 0, z)
    BY <1>5, <1>8, <2>1, PlacedInside
  <2> QED BY <2>1, <2>2
<1>10. Placed(s, c, e, z)
  <2>1. e + c <= f /\ 0 + e = e /\ 0 \in Nat
    BY <1>6
  <2>2. Placed(s, c, 0 + e, z)
    BY <1>5, <1>8, <2>1, PlacedInside
  <2> QED BY <2>1, <2>2
<1>11. Placed(q, a, 0, z)
  <2>1. 0 + a <= e /\ 0 + 0 = 0 /\ 0 \in Nat
    BY <1>4
  <2>2. Placed(q, a, 0 + 0, z)
    BY <1>2, <1>9, <2>1, PlacedInside
  <2> QED BY <2>1, <2>2
<1>12. Placed(r, b, a, z)
  <2>1. a + b <= e /\ 0 + a = a /\ 0 \in Nat
    BY <1>4
  <2>2. Placed(r, b, 0 + a, z)
    BY <1>2, <1>9, <2>1, PlacedInside
  <2> QED BY <2>1, <2>2
<1>13. z = q \o r \o s \o t
  BY <1>1, <1>3, <1>7
<1> QED BY <1>4, <1>6, <1>8, <1>10, <1>11, <1>12, <1>13

RawPair  == [key : {key \in Text : Named(key)}, text : {word \in Text : \A j \in DOMAIN word : word[j] # "&"}]
Part(pairs, i) == Separator(i) \o Written(pairs[i])
Gap(i) == IF i = 1 THEN 0 ELSE 1

LEMMA SeparatorIs ==
  ASSUME NEW i \in Nat
  PROVE  Separator(i) \in Text /\ Long(Separator(i), Gap(i)) /\ Gap(i) \in Nat /\ (i # 1 => Separator(i)[1] = "&")
<1>1. "&" \in Alphabet
  BY ArgsAssumption
<1>2. <<"&">> \in Seq(Alphabet) /\ Len(<<"&">>) = 1 /\ <<"&">>[1] = "&" /\ <<>> \in Seq(Alphabet) /\ Len(<<>>) = 0
  BY <1>1
<1>3. CASE i = 1
  BY <1>2, <1>3 DEF Separator, Gap, Long, Text
<1>4. CASE i # 1
  BY <1>2, <1>4 DEF Separator, Gap, Long, Text
<1> QED BY <1>3, <1>4

LEMMA PartIs ==
  ASSUME NEW pairs \in Seq(RawPair), NEW i \in 1 .. Len(pairs), NEW k \in Nat, NEW x \in Nat,
         Long(pairs[i].key, k), Long(pairs[i].text, x)
  PROVE  /\ Part(pairs, i) \in Text /\ Long(Part(pairs, i), Gap(i) + k + 1 + x) /\ Gap(i) \in Nat
         /\ i # 1 => Part(pairs, i)[1] = "&"
         /\ Placed(pairs[i].key, k, Gap(i), Part(pairs, i))
         /\ Part(pairs, i)[Gap(i) + k + 1] = "="
         /\ Placed(pairs[i].text, x, Gap(i) + k + 1, Part(pairs, i))
<1>1. pairs[i] \in RawPair /\ i \in Nat
  BY ElementOfSeq
<1>2. pairs[i].key \in Seq(Alphabet) /\ pairs[i].text \in Seq(Alphabet)
  BY <1>1 DEF RawPair, Text
<1>3. Separator(i) \in Seq(Alphabet) /\ Long(Separator(i), Gap(i)) /\ Gap(i) \in Nat
  BY <1>1, SeparatorIs DEF Text
<1>4. <<"=">> \in Seq(Alphabet) /\ Long(<<"=">>, 1) /\ <<"=">>[1] = "=" /\ 1 \in Nat
  <2>1. "=" \in Alphabet
    BY ArgsAssumption
  <2> QED BY <2>1 DEF Long
<1>5. PICK g \in Nat : g = Gap(i)
  BY <1>3
<1>6. PICK z : z = Separator(i) \o pairs[i].key \o <<"=">> \o pairs[i].text
  OBVIOUS
<1>10. z = Part(pairs, i)
  <2> DEFINE q == Separator(i)
             v == pairs[i].key
             e == <<"=">>
             t == pairs[i].text
  <2>1. q \in Seq(Alphabet) /\ v \in Seq(Alphabet) /\ e \in Seq(Alphabet) /\ t \in Seq(Alphabet)
    BY <1>2, <1>3, <1>4
  <2>2. z = ((q \o v) \o e) \o t /\ Part(pairs, i) = q \o ((v \o e) \o t)
    BY <1>6 DEF Part, Written
  <2> HIDE DEF q, v, e, t
  <2>3. v \o e \in Seq(Alphabet) /\ (q \o v) \o e = q \o (v \o e)
    BY <2>1, ConcatProperties, Associative
  <2>4. (q \o (v \o e)) \o t = q \o ((v \o e) \o t)
    BY <2>1, <2>3, Associative
  <2> QED BY <2>2, <2>3, <2>4
<1>7. /\ z \in Seq(Alphabet) /\ Long(z, g + k + 1 + x)
      /\ Placed(Separator(i), g, 0, z) /\ Placed(pairs[i].key, k, g, z)
      /\ Placed(<<"=">>, 1, g + k, z) /\ Placed(pairs[i].text, x, g + k + 1, z)
  BY <1>2, <1>3, <1>4, <1>5, <1>6, FourPlaced
<1>8. z[g + k + 1] = "="
  <2>1. 1 \in 1 .. 1 /\ (g + k) + 1 = g + k + 1
    OBVIOUS
  <2>2. z[(g + k) + 1] = <<"=">>[1]
    BY <1>7, <2>1 DEF Placed
  <2> QED BY <1>4, <2>1, <2>2
<1>9. ASSUME i # 1 PROVE z[1] = "&"
  <2>1. g = 1 /\ Separator(i)[1] = "&"
    BY <1>1, <1>5, <1>9, SeparatorIs DEF Gap
  <2>2. 1 \in 1 .. g /\ 0 + 1 = 1
    BY <2>1
  <2>3. z[0 + 1] = Separator(i)[1]
    BY <1>7, <2>2 DEF Placed
  <2> QED BY <2>1, <2>2, <2>3
<1> QED BY <1>5, <1>7, <1>8, <1>9, <1>10 DEF Text

LEMMA ListingIs ==
  ASSUME NEW pairs \in Seq(RawPair)
  PROVE  Grows(Listing(pairs), [i \in 1 .. Len(pairs) |-> Part(pairs, i)], Len(pairs), Alphabet)
<1> DEFINE n == Len(pairs)
           t == [i \in 1 .. Len(pairs) |-> Part(pairs, i)]
           e == Listing(pairs)
           Is(f) == f = [i \in 0 .. Len(pairs) |->
                           IF i = 0 THEN <<>>
                           ELSE f[i - 1] \o (Separator(i) \o Written(pairs[i]))]
<1>1. n \in Nat /\ t \in [1 .. n -> Seq(Alphabet)]
  <2>1. ASSUME NEW i \in 1 .. n PROVE Part(pairs, i) \in Seq(Alphabet)
    <3>1. pairs[i].key \in Seq(Alphabet) /\ pairs[i].text \in Seq(Alphabet)
      <4>1. pairs[i] \in RawPair
        BY ElementOfSeq
      <4> QED BY <4>1 DEF RawPair, Text
    <3>2. PICK k \in Nat : k = Len(pairs[i].key)
      BY <3>1, LenProperties
    <3>3. PICK x \in Nat : x = Len(pairs[i].text)
      BY <3>1, LenProperties
    <3>4. Long(pairs[i].key, k) /\ Long(pairs[i].text, x)
      BY <3>2, <3>3 DEF Long
    <3> QED BY <3>4, PartIs DEF Text
  <2> QED BY <2>1, LenProperties
<1>2. PICK c : Grows(c, t, n, Alphabet)
  <2> HIDE DEF n, t
  <2> QED BY <1>1, GrowingExists
<1>3. Is(c)
  <2>1. c \in [0 .. n -> Seq(Alphabet)] /\ c[0] = <<>> /\ \A i \in 1 .. n : c[i] = c[i - 1] \o t[i]
    BY <1>2 DEF Grows
  <2>2. \A i \in 0 .. n : c[i] = IF i = 0 THEN <<>> ELSE c[i - 1] \o Part(pairs, i)
    <3>1. \A i \in 0 .. n : i # 0 => i \in 1 .. n
      BY <1>1
    <3>2. \A i \in 1 .. n : t[i] = Part(pairs, i)
      OBVIOUS
    <3> HIDE DEF n, t
    <3> QED BY <2>1, <3>1, <3>2, Zenon
  <2>3. c = [i \in 0 .. n |-> c[i]]
    BY <2>1
  <2> QED BY <2>2, <2>3 DEF Part
<1>4. e = CHOOSE f : Is(f)
  BY DEF Listing
<1>5. Is(e)
  BY <1>3, <1>4
<1> HIDE DEF e
<1>6. /\ DOMAIN e = 0 .. n /\ e[0] = <<>> /\ \A i \in 1 .. n : e[i] = e[i - 1] \o t[i]
  <2>1. \A i \in 0 .. n : e[i] = IF i = 0 THEN <<>> ELSE e[i - 1] \o Part(pairs, i)
    BY <1>5 DEF Part
  <2>2. 0 \in 0 .. n /\ \A i \in 1 .. n : i \in 0 .. n /\ i # 0 /\ t[i] = Part(pairs, i)
    BY <1>1
  <2>3. DOMAIN e = 0 .. n
    BY <1>5
  <2> HIDE DEF n, t
  <2> QED BY <2>1, <2>2, <2>3, Zenon
<1>7. \A i \in 0 .. n : e[i] \in Seq(Alphabet)
  <2> DEFINE P == {i \in 0 .. n : e[i] \in Seq(Alphabet)}
  <2>1. 0 \in P
    <3>1. 0 \in 0 .. n /\ <<>> \in Seq(Alphabet)
      BY <1>1
    <3> QED BY <1>6, <3>1
  <2>2. ASSUME NEW i \in 1 .. n, i - 1 \in P PROVE i \in P
    <3>1. t[i] \in Seq(Alphabet) /\ e[i - 1] \in Seq(Alphabet) /\ i \in 0 .. n
      BY <1>1, <2>2
    <3>2. e[i - 1] \o t[i] \in Seq(Alphabet)
      BY <3>1, ConcatProperties
    <3> QED BY <1>6, <3>1, <3>2
  <2> HIDE DEF P
  <2>3. 0 .. n \subseteq P
    BY <1>1, <2>1, <2>2, EveryTurn
  <2> QED BY <2>3 DEF P
<1>8. e \in [0 .. n -> Seq(Alphabet)]
  <2>1. e = [i \in 0 .. n |-> e[i]]
    BY <1>5
  <2> QED BY <1>7, <2>1
<1> QED BY <1>1, <1>6, <1>8 DEF Grows, e

(* The server finds each of them.                                           *)
Decoded(pairs) == [i \in 1 .. Len(pairs) |-> [key |-> pairs[i].key, value |-> urlDecode(pairs[i].text)]]

LEMMA DecodedIs ==
  ASSUME NEW pairs \in Seq(RawPair)
  PROVE  /\ Decoded(pairs) \in Seq(Argument) /\ Len(Decoded(pairs)) = Len(pairs)
         /\ \A i \in 1 .. Len(pairs) : Decoded(pairs)[i] = [key |-> pairs[i].key, value |-> urlDecode(pairs[i].text)]
<1>1. Len(pairs) \in Nat
  BY LenProperties
<1>2. \A i \in 1 .. Len(pairs) : [key |-> pairs[i].key, value |-> urlDecode(pairs[i].text)] \in Argument
  <2> SUFFICES ASSUME NEW i \in 1 .. Len(pairs)
               PROVE [key |-> pairs[i].key, value |-> urlDecode(pairs[i].text)] \in Argument
    OBVIOUS
  <2>1. pairs[i].key \in Text /\ pairs[i].text \in Text
    <3>1. pairs[i] \in RawPair
      BY ElementOfSeq
    <3> QED BY <3>1 DEF RawPair
  <2> QED BY <2>1, urlDecodeIs DEF Argument
<1> QED BY <1>1, <1>2 DEF Decoded

(* The place at which the i-th one starts.                                  *)
PlacedAt(pairs, i, b, g, k, x, m) ==
  /\ Gap(i) = g /\ Long(Listing(pairs)[i], b + g + k + 1 + x) /\ b + g + k + 1 + x <= m
  /\ ArgumentAt(Listing(pairs)[Len(pairs)], b + g + 1, pairs[i].key, k, pairs[i].text, x)
  /\ i # 1 => Listing(pairs)[Len(pairs)][b + 1] = "&"

LEMMA ArgumentPlaced ==
  ASSUME NEW pairs \in Seq(RawPair), NEW i \in 1 .. Len(pairs), NEW k \in Nat, NEW x \in Nat, NEW b \in Nat, NEW m \in Nat,
         Long(pairs[i].key, k), Long(pairs[i].text, x), Long(Listing(pairs)[i - 1], b),
         Long(Listing(pairs)[Len(pairs)], m)
  PROVE  \E g \in Nat : PlacedAt(pairs, i, b, g, k, x, m)
<1> DEFINE n == Len(pairs)
           t == [h \in 1 .. Len(pairs) |-> Part(pairs, h)]
           e == Listing(pairs)
<1>1. n \in Nat /\ Grows(e, t, n, Alphabet)
  BY ListingIs, LenProperties
<1>2. t[i] = Part(pairs, i)
  OBVIOUS
<1>3. PICK z : z = Part(pairs, i)
  OBVIOUS
<1>4. PICK data : data = e[n]
  OBVIOUS
<1>5. PICK g \in Nat : g = Gap(i)
  BY PartIs
<1>6. PICK l \in Nat : l = g + k + 1 + x
  OBVIOUS
<1>7. /\ Long(z, l) /\ (i # 1 => z[1] = "&") /\ Placed(pairs[i].key, k, g, z)
      /\ z[g + k + 1] = "=" /\ Placed(pairs[i].text, x, g + k + 1, z)
  BY <1>3, <1>5, <1>6, PartIs
<1>8. Long(e[i - 1], b)
  OBVIOUS
<1>9. Long(t[i], l)
  BY <1>2, <1>3, <1>7
<1> HIDE DEF t, e, n
<1>13. i \in 1 .. n
  BY DEF n
<1>10. Long(e[i], b + l)
  BY <1>1, <1>8, <1>9, <1>13, GrowingAt
<1>11. Placed(t[i], l, b, e[n])
  BY <1>1, <1>8, <1>9, <1>13, GrowingAt
<1>12. Len(e[i]) <= Len(e[n])
  BY <1>1, <1>8, <1>9, <1>13, GrowingAt
<1>14. Placed(z, l, b, data)
  BY <1>2, <1>3, <1>4, <1>11
<1>15. b + l <= m
  <2>1. Len(e[i]) = b + l /\ Len(e[n]) = m
    BY <1>10 DEF Long, e, n
  <2> QED BY <1>12, <2>1
<1>16. Placed(pairs[i].key, k, b + g, data)
  <2>1. g + k <= l
    BY <1>6
  <2> QED BY <1>7, <1>14, <2>1, PlacedInside
<1>17. Placed(pairs[i].text, x, b + g + k + 1, data)
  <2>1. (g + k + 1) + x <= l /\ g + k + 1 \in Nat /\ b + (g + k + 1) = b + g + k + 1
    BY <1>6
  <2>2. Placed(pairs[i].text, x, b + (g + k + 1), data)
    BY <1>7, <1>14, <2>1, PlacedInside
  <2> QED BY <2>1, <2>2
<1>18. data[b + g + k + 1] = "="
  <2>1. g + k + 1 \in 1 .. l /\ b + (g + k + 1) = b + g + k + 1
    BY <1>6
  <2>2. data[b + (g + k + 1)] = z[g + k + 1]
    BY <1>14, <2>1 DEF Placed
  <2> QED BY <1>7, <2>1, <2>2
<1>19. i # 1 => data[b + 1] = "&"
  <2>1. 1 \in 1 .. l
    BY <1>6
  <2>2. data[b + 1] = z[1]
    BY <1>14, <2>1 DEF Placed
  <2> QED BY <1>7, <2>2
<1>20. b + l = b + g + k + 1 + x
  BY <1>6
<1>21. data = Listing(pairs)[Len(pairs)] /\ e[i] = Listing(pairs)[i]
  BY <1>4 DEF e, n
<1>22. Long(Listing(pairs)[i], b + g + k + 1 + x) /\ b + g + k + 1 + x <= m
  BY <1>10, <1>15, <1>20, <1>21
<1>23. /\ \A j \in 1 .. k : data[(b + g) + j] = pairs[i].key[j]
       /\ \A j \in 1 .. x : data[(b + g + k + 1) + j] = pairs[i].text[j]
  BY <1>16, <1>17 DEF Placed
<1>24. ArgumentAt(data, b + g + 1, pairs[i].key, k, pairs[i].text, x)
  <2>1. (b + g + 1) - 1 = b + g /\ b + g + 1 + k = b + g + k + 1
    OBVIOUS
  <2> QED BY <1>18, <1>23, <2>1 DEF ArgumentAt
<1>25. PlacedAt(pairs, i, b, g, k, x, m)
  BY <1>5, <1>19, <1>21, <1>22, <1>24 DEF PlacedAt
<1> QED BY <1>25

LEMMA ParsedIs ==
  ASSUME NEW pairs \in Seq(RawPair)
  PROVE  /\ Listing(pairs)[Len(pairs)] \in Text
         /\ parseArguments(Listing(pairs)[Len(pairs)]) = Decoded(pairs)
<1> DEFINE n == Len(pairs)
           t == [h \in 1 .. Len(pairs) |-> Part(pairs, h)]
           e == Listing(pairs)
           data == e[n]
           r == Decoded(pairs)
           s == Parsing(data)
<1>1. n \in Nat /\ Grows(e, t, n, Alphabet)
  BY ListingIs, LenProperties
<1>2. \A i \in 1 .. n : t[i] = Part(pairs, i)
  OBVIOUS
<1>3. e \in [0 .. n -> Seq(Alphabet)] /\ e[0] = <<>>
  BY <1>1 DEF Grows
<1>4. data \in Text
  <2>1. n \in 0 .. n
    BY <1>1
  <2> HIDE DEF n, e
  <2> QED BY <1>3, <2>1 DEF Text
<1>5. PICK m \in Nat : m = Len(data)
  BY <1>4, LenProperties DEF Text
<1>6. s[0] = [place |-> 1, args |-> <<>>, ends |-> FALSE] /\ \A k \in 1 .. m : s[k] = NextArgument(data, s[k - 1])
  BY <1>4, <1>5, ParsingIs
<1>7. r \in Seq(Argument) /\ Len(r) = n
      /\ \A i \in 1 .. n : r[i] = [key |-> pairs[i].key, value |-> urlDecode(pairs[i].text)]
  BY DecodedIs
<1>8. parseArguments(data) = s[m].args
  BY <1>5 DEF parseArguments
<1>9. PICK z \in [0 .. n -> Nat] : \A i \in 0 .. n : Long(e[i], z[i])
  <2> DEFINE y == [i \in 0 .. n |-> Len(e[i])]
  <2> HIDE DEF e, n
  <2>1. \A i \in 0 .. n : e[i] \in Seq(Alphabet)
    BY <1>3
  <2>2. y \in [0 .. n -> Nat]
    BY <2>1, LenProperties
  <2>3. \A i \in 0 .. n : Long(e[i], y[i])
    BY DEF Long
  <2> QED BY <2>2, <2>3
<1>10. \A i \in 1 .. n : pairs[i] \in RawPair /\ pairs[i].key \in Text /\ pairs[i].text \in Text
  <2>1. \A i \in 1 .. n : pairs[i] \in RawPair
    BY ElementOfSeq
  <2> QED BY <2>1 DEF RawPair
<1>11. PICK c \in [1 .. n -> Nat] : \A i \in 1 .. n : Long(pairs[i].key, c[i])
  <2> DEFINE y == [i \in 1 .. n |-> Len(pairs[i].key)]
  <2> HIDE DEF n
  <2>2. y \in [1 .. n -> Nat]
    BY <1>10, LenProperties DEF Text
  <2>3. \A i \in 1 .. n : Long(pairs[i].key, y[i])
    BY DEF Long
  <2> QED BY <2>2, <2>3
<1>12. PICK x \in [1 .. n -> Nat] : \A i \in 1 .. n : Long(pairs[i].text, x[i])
  <2> DEFINE y == [i \in 1 .. n |-> Len(pairs[i].text)]
  <2> HIDE DEF n
  <2>2. y \in [1 .. n -> Nat]
    BY <1>10, LenProperties DEF Text
  <2>3. \A i \in 1 .. n : Long(pairs[i].text, y[i])
    BY DEF Long
  <2> QED BY <2>2, <2>3
<1>13. n \in 0 .. n /\ z[n] = m
  <2>1. n \in 0 .. n
    BY <1>1
  <2>2. Long(e[n], z[n])
    BY <1>9, <2>1
  <2> HIDE DEF n, e
  <2> QED BY <1>5, <2>1, <2>2 DEF Long
<1>14. Long(data, m)
  BY <1>5 DEF Long
<1>15. ASSUME NEW i \in 1 .. n
       PROVE  \E b, g, h, y \in Nat :
                /\ z[i - 1] = b /\ Gap(i) = g /\ c[i] = h /\ x[i] = y /\ z[i] = b + g + h + 1 + y /\ z[i] <= m
                /\ ArgumentAt(data, b + g + 1, pairs[i].key, h, pairs[i].text, y)
                /\ i # 1 => data[b + 1] = "&"
  <2>1. i \in 0 .. n /\ i - 1 \in 0 .. n
    BY <1>1
  <2>2. Long(pairs[i].key, c[i]) /\ Long(pairs[i].text, x[i]) /\ Long(e[i - 1], z[i - 1]) /\ Long(e[i], z[i])
    BY <1>9, <1>11, <1>12, <2>1
  <2>3. PICK b \in Nat : z[i - 1] = b
    BY <1>9, <2>1
  <2>4. PICK h \in Nat : c[i] = h
    BY <1>11
  <2>5. PICK y \in Nat : x[i] = y
    BY <1>12
  <2>6. Long(pairs[i].key, h) /\ Long(pairs[i].text, y) /\ Long(e[i - 1], b)
    BY <2>2, <2>3, <2>4, <2>5
  <2>10. PICK g \in Nat : PlacedAt(pairs, i, b, g, h, y, m)
    BY <1>14, <2>6, ArgumentPlaced
  <2>7. /\ Gap(i) = g /\ Long(e[i], b + g + h + 1 + y) /\ b + g + h + 1 + y <= m
        /\ ArgumentAt(data, b + g + 1, pairs[i].key, h, pairs[i].text, y)
        /\ i # 1 => data[b + 1] = "&"
    BY <2>10 DEF PlacedAt
  <2>8. z[i] = b + g + h + 1 + y
    <3> HIDE DEF e
    <3>1. Len(e[i]) = z[i]
      BY <2>2 DEF Long
    <3>2. Len(e[i]) = b + g + h + 1 + y
      BY <2>7 DEF Long
    <3> QED BY <3>1, <3>2
  <2>9. z[i] <= m
    BY <2>7, <2>8
  <2> QED BY <2>3, <2>4, <2>5, <2>7, <2>8, <2>9
<1>16. n <= m
  <2>1. ASSUME NEW i \in 1 .. n PROVE Len(t[i]) >= 1
    <3>1. c[i] \in Nat /\ x[i] \in Nat /\ Long(pairs[i].key, c[i]) /\ Long(pairs[i].text, x[i])
      BY <1>11, <1>12
    <3>4. PICK g \in Nat : g = Gap(i)
      BY DEF Gap
    <3>2. Long(Part(pairs, i), g + c[i] + 1 + x[i])
      BY <3>1, <3>4, PartIs
    <3>3. g + c[i] + 1 + x[i] >= 1
      BY <3>1
    <3> QED BY <1>2, <3>2, <3>3 DEF Long
  <2> HIDE DEF t, e, n
  <2>2. \A i \in 0 .. n : Len(e[i]) >= i
    BY <1>1, <2>1, GrowingLong
  <2> QED BY <1>5, <1>13, <2>2
<1> DEFINE At(q) == [place |-> IF q = n THEN 1 ELSE z[q] + Gap(q + 1) + 1, args |-> SubSeq(r, 1, q), ends |-> q = n]
           P == {k \in 0 .. m : s[k] = At(IF k <= n THEN k ELSE n)}
<1> HIDE DEF t, s, r, data, e
<1>17. CASE n = 0
  <2>1. m = 0
    <3>1. data = <<>>
      BY <1>3, <1>17 DEF data
    <3> QED BY <1>5, <3>1
  <2>2. r = <<>>
    BY <1>7, <1>17, EmptySeq
  <2>3. parseArguments(data) = r
    BY <1>6, <1>8, <2>1, <2>2
  <2> QED BY <1>4, <2>3 DEF data, r, e
<1>18. CASE n # 0
  <2>1. 0 \in P
    <3>1. z[0] = 0
      <4>1. Long(e[0], z[0]) /\ Len(e[0]) = 0
        BY <1>1, <1>3, <1>9
      <4> QED BY <4>1 DEF Long
    <3>2. Gap(0 + 1) = 0
      BY DEF Gap
    <3>3. SubSeq(r, 1, 0) = <<>>
      BY SubSeqEmpty
    <3>4. At(0) = [place |-> 1, args |-> <<>>, ends |-> FALSE]
      <4>1. (0 = n) = FALSE
        BY <1>18
      <4>2. (IF 0 = n THEN 1 ELSE z[0] + Gap(0 + 1) + 1) = 1
        BY <1>18, <3>1, <3>2
      <4> HIDE DEF n
      <4> QED BY <3>3, <4>1, <4>2
    <3>5. 0 <= n /\ 0 \in 0 .. m
      BY <1>1
    <3> HIDE DEF At, n
    <3> QED BY <1>6, <3>4, <3>5
  <2>2. ASSUME NEW k \in 1 .. m, k - 1 \in P PROVE k \in P
    <3>1. k \in 0 .. m /\ s[k] = NextArgument(data, s[k - 1])
      BY <1>6
    <3>2. CASE k <= n
      <4>1. k \in 1 .. n /\ k - 1 <= n /\ k - 1 # n /\ (k - 1) + 1 = k /\ k \in 0 .. n /\ k - 1 \in 0 .. n
        BY <1>1, <3>2
      <4>2. s[k - 1] = At(k - 1)
        BY <2>2, <4>1
      <4>3. PICK b, g, h, y \in Nat :
                /\ z[k - 1] = b /\ Gap(k) = g /\ c[k] = h /\ x[k] = y /\ z[k] = b + g + h + 1 + y /\ z[k] <= m
                /\ ArgumentAt(data, b + g + 1, pairs[k].key, h, pairs[k].text, y)
        BY <1>15, <4>1
      <4>7. PICK p \in Nat \ {0} : p = b + g + 1
        OBVIOUS
      <4>8. s[k - 1] = [place |-> p, args |-> SubSeq(r, 1, k - 1), ends |-> FALSE]
        <5>1. (k - 1 = n) = FALSE
          BY <4>1
        <5>2. (IF k - 1 = n THEN 1 ELSE z[k - 1] + Gap((k - 1) + 1) + 1) = p
          BY <4>1, <4>3, <4>7
        <5> HIDE DEF n
        <5> QED BY <4>2, <5>1, <5>2
      <4>10. p + h + y = b + g + h + 1 + y /\ z[k] = p + h + y
        BY <4>3, <4>7
      <4>11. KeyFree(pairs[k].key, h)
        <5>1. Named(pairs[k].key) /\ pairs[k].key \in Seq(Alphabet) /\ Len(pairs[k].key) = h
          BY <1>10, <1>11, <4>1, <4>3 DEF RawPair, Text, Long
        <5>2. DOMAIN pairs[k].key = 1 .. h
          BY <5>1, LenProperties
        <5> QED BY <5>1, <5>2 DEF Named, KeyFree
      <4>12. TextFree(pairs[k].text, y)
        <5>1. pairs[k].text \in Seq(Alphabet) /\ Len(pairs[k].text) = y /\ \A j \in DOMAIN pairs[k].text : pairs[k].text[j] # "&"
          BY <1>10, <1>12, <4>1, <4>3 DEF RawPair, Text, Long
        <5>2. DOMAIN pairs[k].text = 1 .. y
          BY <5>1, LenProperties
        <5> QED BY <5>1, <5>2 DEF TextFree
      <4>13. PICK last \in BOOLEAN : last = (k = n)
        OBVIOUS
      <4>14. Followed(data, m, p + h + y, last)
        <5>1. CASE k = n
          <6>1. last = TRUE /\ m = p + h + y
            BY <1>13, <4>10, <4>13, <5>1
          <6> QED BY <6>1 DEF Followed
        <5>2. CASE k # n
          <6>1. k + 1 \in 1 .. n /\ k + 1 # 1 /\ (k + 1) - 1 = k
            BY <1>1, <4>1, <5>2
          <6>2. Gap(k + 1) = 1
            BY <6>1 DEF Gap
          <6>7. PICK i \in 1 .. n : i = k + 1
            BY <6>1
          <6>8. PICK b2, g2, h2, y2 \in Nat :
                  /\ z[i - 1] = b2 /\ Gap(i) = g2 /\ c[i] = h2 /\ x[i] = y2 /\ z[i] = b2 + g2 + h2 + 1 + y2 /\ z[i] <= m
                  /\ ArgumentAt(data, b2 + g2 + 1, pairs[i].key, h2, pairs[i].text, y2)
                  /\ i # 1 => data[b2 + 1] = "&"
            BY <1>15
          <6>3. z[k] = b2 /\ Gap(k + 1) = g2 /\ z[k + 1] = b2 + g2 + h2 + 1 + y2 /\ z[k + 1] <= m /\ data[b2 + 1] = "&"
            <7> HIDE DEF n
            <7> QED BY <6>1, <6>7, <6>8
          <6>4. b2 = p + h + y
            BY <4>10, <6>3
          <6>5. b2 + 1 <= m
            BY <6>2, <6>3
          <6>6. last = FALSE
            BY <4>13, <5>2
          <6> QED BY <6>3, <6>4, <6>5, <6>6 DEF Followed
        <5> QED BY <5>1, <5>2
      <4>15. NextArgument(data, s[k - 1])
               = [place |-> IF last THEN 1 ELSE p + h + y + 2, ends |-> last,
                  args |-> Append(SubSeq(r, 1, k - 1), [key |-> pairs[k].key, value |-> urlDecode(pairs[k].text)])]
        <5>1. Long(pairs[k].key, h) /\ Long(pairs[k].text, y) /\ pairs[k].key \in Text /\ pairs[k].text \in Text
          BY <1>10, <1>11, <1>12, <4>1, <4>3
        <5>2. ArgumentAt(data, p, pairs[k].key, h, pairs[k].text, y)
          BY <4>3, <4>7
        <5>5. NextArgument(data, [place |-> p, args |-> SubSeq(r, 1, k - 1), ends |-> FALSE])
               = [place |-> IF last THEN 1 ELSE p + h + y + 2, ends |-> last,
                  args |-> Append(SubSeq(r, 1, k - 1), [key |-> pairs[k].key, value |-> urlDecode(pairs[k].text)])]
          <6> HIDE DEF At, P, n
          <6>2. PICK place : place = IF last THEN 1 ELSE p + h + y + 2
            OBVIOUS
          <6>3. NextPlace(p + h + y, last, place)
            BY <6>2 DEF NextPlace
          <6>4. Flag(last)
            BY DEF Flag
          <6>1. TurnMakes(data, p, SubSeq(r, 1, k - 1), place, last,
                          Append(SubSeq(r, 1, k - 1), [key |-> pairs[k].key, value |-> urlDecode(pairs[k].text)]))
            BY <1>4, <1>14, <4>11, <4>12, <4>14, <5>1, <5>2, <6>3, <6>4, TurnIs
          <6> QED BY <6>1, <6>2 DEF TurnMakes
        <5> QED BY <4>8, <5>5
      <4>16. Append(SubSeq(r, 1, k - 1), [key |-> pairs[k].key, value |-> urlDecode(pairs[k].text)]) = SubSeq(r, 1, k)
        <5>1. k \in 1 .. Len(r) /\ r[k] = [key |-> pairs[k].key, value |-> urlDecode(pairs[k].text)]
          BY <1>7, <4>1
        <5>2. Append(SubSeq(r, 1, k - 1), r[k]) = SubSeq(r, 1, k)
          BY <1>7, <5>1, OneMore
        <5> QED BY <5>1, <5>2
      <4>17. (IF last THEN 1 ELSE p + h + y + 2) = (IF k = n THEN 1 ELSE z[k] + Gap(k + 1) + 1)
        <5>1. CASE k = n
          BY <4>13, <5>1
        <5>2. CASE k # n
          <6>1. Gap(k + 1) = 1 /\ z[k] = p + h + y
            BY <4>10, <4>1 DEF Gap
          <6>2. z[k] + Gap(k + 1) + 1 = p + h + y + 2
            BY <6>1
          <6>3. last = FALSE
            BY <4>13, <5>2
          <6> HIDE DEF n
          <6> QED BY <5>2, <6>2, <6>3
        <5> QED BY <5>1, <5>2
      <4>18. s[k] = At(k)
        <5> HIDE DEF n
        <5> QED BY <3>1, <4>13, <4>15, <4>16, <4>17
      <4> HIDE DEF At, n
      <4> QED BY <3>1, <3>2, <4>18
    <3>3. CASE ~(k <= n)
      <4>1. (IF k - 1 <= n THEN k - 1 ELSE n) = n
        BY <1>1, <3>3
      <4>2. s[k - 1] = At(n)
        BY <2>2, <4>1
      <4>3. s[k - 1].ends
        <5>1. At(n).ends
          OBVIOUS
        <5> HIDE DEF At
        <5> QED BY <4>2, <5>1
      <4>4. NextArgument(data, s[k - 1]) = s[k - 1]
        BY <4>3 DEF NextArgument
      <4> HIDE DEF At
      <4> QED BY <3>1, <3>3, <4>2, <4>4
    <3> QED BY <3>2, <3>3
  <2> HIDE DEF P
  <2>3. m \in P
    <3>1. 0 .. m \subseteq P
      BY <2>1, <2>2, EveryTurn
    <3> QED BY <3>1
  <2>4. s[m] = At(n)
    <3>1. (IF m <= n THEN m ELSE n) = n
      BY <1>1, <1>16
    <3> HIDE DEF At, n
    <3> QED BY <2>3, <3>1 DEF P
  <2>5. s[m].args = SubSeq(r, 1, n)
    BY <2>4
  <2>6. SubSeq(r, 1, n) = r
    BY <1>7, SubSeqFull
  <2> QED BY <1>4, <1>8, <2>5, <2>6 DEF data, r, e
<1> QED BY <1>17, <1>18

(* Two queries with "&" between them are the query of all arguments.        *)
LEMMA ListingStep ==
  ASSUME NEW pairs \in Seq(RawPair)
  PROVE  /\ Listing(pairs) \in [0 .. Len(pairs) -> Seq(Alphabet)] /\ Listing(pairs)[0] = <<>>
         /\ \A i \in 1 .. Len(pairs) : /\ Separator(i) \in Seq(Alphabet) /\ Written(pairs[i]) \in Seq(Alphabet)
                                       /\ Listing(pairs)[i] = Listing(pairs)[i - 1] \o (Separator(i) \o Written(pairs[i]))
<1> DEFINE t == [h \in 1 .. Len(pairs) |-> Part(pairs, h)]
<1>1. Grows(Listing(pairs), t, Len(pairs), Alphabet) /\ Len(pairs) \in Nat
  BY ListingIs, LenProperties
<1>2. \A i \in 1 .. Len(pairs) : t[i] = Separator(i) \o Written(pairs[i])
  BY DEF Part
<1>3. ASSUME NEW i \in 1 .. Len(pairs) PROVE Separator(i) \in Seq(Alphabet) /\ Written(pairs[i]) \in Seq(Alphabet)
  <2>1. pairs[i] \in RawPair /\ i \in Nat
    BY ElementOfSeq
  <2>2. pairs[i].key \in Seq(Alphabet) /\ pairs[i].text \in Seq(Alphabet)
    BY <2>1 DEF RawPair, Text
  <2>3. <<"=">> \in Seq(Alphabet)
    <3>1. "=" \in Alphabet
      BY ArgsAssumption
    <3> QED BY <3>1
  <2>4. pairs[i].key \o <<"=">> \in Seq(Alphabet)
    BY <2>2, <2>3, ConcatProperties
  <2>5. (pairs[i].key \o <<"=">>) \o pairs[i].text \in Seq(Alphabet)
    BY <2>2, <2>4, ConcatProperties
  <2> QED BY <2>1, <2>5, SeparatorIs DEF Written, Text
<1> HIDE DEF t
<1> QED BY <1>1, <1>2, <1>3 DEF Grows

LEMMA ListingJoins ==
  ASSUME NEW p \in Seq(RawPair), NEW q \in Seq(RawPair), p # <<>>, q # <<>>
  PROVE  Listing(p \o q)[Len(p \o q)] = Listing(p)[Len(p)] \o <<"&">> \o Listing(q)[Len(q)]
<1> DEFINE r == p \o q
           a == Listing(p)
           b == Listing(q)
           e == Listing(r)
<1>1. PICK n \in Nat \ {0} : n = Len(p)
  BY EmptySeq
<1>2. PICK k \in Nat \ {0} : k = Len(q)
  BY EmptySeq
<1>3. r \in Seq(RawPair) /\ Len(r) = n + k /\ \A i \in 1 .. n + k : r[i] = IF i <= n THEN p[i] ELSE q[i - n]
  BY <1>1, <1>2, ConcatProperties
<1>4. /\ a[0] = <<>> /\ a \in [0 .. n -> Seq(Alphabet)]
      /\ \A i \in 1 .. n : a[i] = a[i - 1] \o (Separator(i) \o Written(p[i]))
  BY <1>1, ListingStep
<1>5. /\ b[0] = <<>> /\ b \in [0 .. k -> Seq(Alphabet)]
      /\ \A i \in 1 .. k : /\ Separator(i) \in Seq(Alphabet) /\ Written(q[i]) \in Seq(Alphabet)
                           /\ b[i] = b[i - 1] \o (Separator(i) \o Written(q[i]))
  BY <1>2, ListingStep
<1>6. /\ e[0] = <<>> /\ e \in [0 .. n + k -> Seq(Alphabet)]
      /\ \A i \in 1 .. n + k : e[i] = e[i - 1] \o (Separator(i) \o Written(r[i]))
  <2> HIDE DEF r
  <2> QED BY <1>3, ListingStep
<1> HIDE DEF a, b, e, r
<1>7. e[n] = a[n]
  <2> DEFINE P == {i \in 0 .. n : e[i] = a[i]}
  <2>1. 0 \in P
    BY <1>4, <1>6
  <2>2. ASSUME NEW i \in 1 .. n, i - 1 \in P PROVE i \in P
    <3>1. i \in 1 .. n + k /\ i <= n /\ i \in 0 .. n
      OBVIOUS
    <3>2. r[i] = p[i]
      BY <1>3, <3>1
    <3>3. e[i] = e[i - 1] \o (Separator(i) \o Written(p[i]))
      BY <1>6, <3>1, <3>2
    <3>4. e[i - 1] = a[i - 1]
      BY <2>2
    <3> QED BY <1>4, <3>1, <3>3, <3>4
  <2> HIDE DEF P
  <2>3. 0 .. n \subseteq P
    BY <2>1, <2>2, EveryTurn
  <2>4. n \in P
    BY <2>3
  <2> QED BY <2>4 DEF P
<1>8. PICK c \in Seq(Alphabet) : c = a[n] \o <<"&">>
  <2>1. "&" \in Alphabet
    BY ArgsAssumption
  <2>2. <<"&">> \in Seq(Alphabet) /\ a[n] \in Seq(Alphabet)
    BY <1>4, <2>1
  <2> QED BY <2>2, ConcatProperties
<1>9. a[n] \in Seq(Alphabet) /\ <<"&">> \in Seq(Alphabet)
  <2>1. "&" \in Alphabet
    BY ArgsAssumption
  <2> QED BY <1>4, <2>1
<1> DEFINE P == {j \in 0 .. k : j # 0 => e[n + j] = c \o b[j]}
<1>10. 0 \in P
  OBVIOUS
<1>11. ASSUME NEW j \in 1 .. k, j - 1 \in P PROVE j \in P
  <2>1. n + j \in 1 .. n + k /\ ~(n + j <= n) /\ (n + j) - n = j /\ n + j # 1 /\ (n + j) - 1 = n + (j - 1)
        /\ j - 1 \in 0 .. k /\ j \in 0 .. k
    OBVIOUS
  <2>2. r[n + j] = q[j]
    BY <1>3, <2>1
  <2>3. PICK w \in Seq(Alphabet) : w = Written(q[j])
    BY <1>5
  <2>4. e[n + j] = e[n + (j - 1)] \o (<<"&">> \o w)
    <3>1. e[n + j] = e[(n + j) - 1] \o (Separator(n + j) \o Written(r[n + j]))
      BY <1>6, <2>1
    <3>2. Separator(n + j) = <<"&">>
      BY <2>1 DEF Separator
    <3> QED BY <2>1, <2>2, <2>3, <3>1, <3>2
  <2>5. CASE j = 1
    <3>1. e[n + (j - 1)] = a[n]
      BY <1>7, <2>5
    <3>2. a[n] \o (<<"&">> \o w) = c \o w
      <4>1. PICK x, y \in Seq(Alphabet) : x = a[n] /\ y = <<"&">>
        BY <1>9
      <4>2. (x \o y) \o w = x \o (y \o w)
        BY Associative
      <4> QED BY <1>8, <4>1, <4>2
    <3>3. b[1] = w
      <4>1. 1 \in 1 .. k /\ 1 - 1 = 0
        OBVIOUS
      <4>2. b[1] = b[1 - 1] \o (Separator(1) \o Written(q[1]))
        BY <1>5, <4>1
      <4>3. b[1] = <<>> \o (<<>> \o w)
        BY <1>5, <2>3, <2>5, <4>1, <4>2 DEF Separator
      <4>4. <<>> \o w = w
        BY ConcatEmptySeq
      <4> QED BY <4>3, <4>4
    <3> QED BY <2>1, <2>4, <2>5, <3>1, <3>2, <3>3
  <2>6. CASE j # 1
    <3>1. e[n + (j - 1)] = c \o b[j - 1]
      <4>1. j - 1 # 0
        BY <2>6
      <4> QED BY <1>11, <4>1
    <3>2. b[j] = b[j - 1] \o (<<"&">> \o w)
      BY <1>5, <2>3, <2>6 DEF Separator
    <3>3. b[j - 1] \in Seq(Alphabet) /\ <<"&">> \o w \in Seq(Alphabet)
      BY <1>5, <1>9, <2>1, ConcatProperties
    <3>4. (c \o b[j - 1]) \o (<<"&">> \o w) = c \o (b[j - 1] \o (<<"&">> \o w))
      BY <3>3, Associative
    <3> QED BY <2>1, <2>4, <3>1, <3>2, <3>4
  <2> QED BY <2>5, <2>6
<1> HIDE DEF P
<1>12. k \in P
  <2>1. 0 .. k \subseteq P
    BY <1>10, <1>11, EveryTurn
  <2> QED BY <2>1
<1>13. e[n + k] = c \o b[k]
  BY <1>12 DEF P
<1> QED BY <1>1, <1>2, <1>3, <1>8, <1>13 DEF a, b, e, r

LEMMA IndexFound ==
  ASSUME NEW data \in Text, NEW c, NEW j \in 1 .. Len(data), data[j] = c
  PROVE  indexOf(data, c, 1) # 0
<1> DEFINE found == {i \in 1 .. Len(data) : data[i] = c}
<1>1. found \subseteq Nat \ {0} /\ found # {}
  BY LenProperties DEF Text
<1> HIDE DEF found
<1>2. \E x \in found : \A y \in found : x <= y
  BY <1>1, LeastOne
<1>3. Min(found) \in found
  BY <1>2 DEF Min
<1>4. indexOf(data, c, 1) = Min(found)
  BY <1>1 DEF indexOf, found
<1> QED BY <1>1, <1>3, <1>4

(* How a query starts.                                                      *)
LEMMA ListingHead ==
  ASSUME NEW pairs \in Seq(RawPair), pairs # <<>>, NEW data, data = Listing(pairs)[Len(pairs)]
  PROVE  /\ data \in Text /\ data # <<>> /\ indexOf(data, "=", 1) # 0
         /\ data[1] = IF pairs[1].key = <<>> THEN "=" ELSE pairs[1].key[1]
<1>1. data \in Text
  BY ParsedIs
<1>2. PICK m \in Nat : Long(data, m)
  BY <1>1, LenProperties DEF Text, Long
<1>3. 1 \in 1 .. Len(pairs)
  BY EmptySeq
<1>4. pairs[1] \in RawPair
  BY <1>3, ElementOfSeq
<1>5. pairs[1].key \in Seq(Alphabet) /\ pairs[1].text \in Seq(Alphabet)
  BY <1>4 DEF RawPair, Text
<1>6. PICK k \in Nat : Long(pairs[1].key, k)
  BY <1>5, LenProperties DEF Long
<1>7. PICK x \in Nat : Long(pairs[1].text, x)
  BY <1>5, LenProperties DEF Long
<1>8. Long(Listing(pairs)[1 - 1], 0)
  <2>1. Listing(pairs)[0] = <<>>
    BY ListingStep
  <2>2. 1 - 1 = 0
    OBVIOUS
  <2>3. Long(<<>>, 0)
    BY DEF Long
  <2> QED BY <2>1, <2>2, <2>3
<1>9. PICK g \in Nat : /\ Gap(1) = g /\ 0 + g + k + 1 + x <= m
                       /\ ArgumentAt(data, 0 + g + 1, pairs[1].key, k, pairs[1].text, x)
  <2>1. Long(Listing(pairs)[Len(pairs)], m) /\ 0 \in Nat
    BY <1>2
  <2>2. PICK g \in Nat : PlacedAt(pairs, 1, 0, g, k, x, m)
    BY <1>3, <1>6, <1>7, <1>8, <2>1, ArgumentPlaced
  <2> QED BY <2>2 DEF PlacedAt
<1>10. g = 0
  BY <1>9 DEF Gap
<1>11. /\ \A j \in 1 .. k : data[((0 + g + 1) - 1) + j] = pairs[1].key[j]
       /\ data[(0 + g + 1) + k] = "="
  BY <1>9 DEF ArgumentAt
<1>12. data[k + 1] = "=" /\ k + 1 <= m /\ k + 1 >= 1
  <2>1. (0 + g + 1) + k = k + 1
    BY <1>10
  <2> QED BY <1>9, <1>10, <1>11, <2>1
<1>13. Len(data) = m
  BY <1>2 DEF Long
<1>14. indexOf(data, "=", 1) # 0
  <2>1. PICK j \in Nat : j = k + 1
    OBVIOUS
  <2>2. j \in 1 .. Len(data) /\ data[j] = "="
    BY <1>12, <1>13, <2>1
  <2> QED BY <1>1, <2>2, IndexFound
<1>15. data # <<>>
  <2>1. Len(data) # 0
    BY <1>12, <1>13
  <2> QED BY <2>1
<1>16. Len(pairs[1].key) = k
  BY <1>6 DEF Long
<1>17. CASE k = 0
  <2>1. pairs[1].key = <<>>
    BY <1>5, <1>16, <1>17, EmptySeq
  <2>2. data[1] = "="
    BY <1>12, <1>17
  <2> QED BY <1>1, <1>14, <1>15, <2>1, <2>2
<1>18. CASE k # 0
  <2>1. pairs[1].key # <<>>
    BY <1>16, <1>18, EmptySeq
  <2>2. 1 \in 1 .. k /\ ((0 + g + 1) - 1) + 1 = 1
    BY <1>10, <1>18
  <2>3. data[((0 + g + 1) - 1) + 1] = pairs[1].key[1]
    BY <1>11, <2>2
  <2>4. data[1] = pairs[1].key[1]
    BY <2>2, <2>3
  <2> QED BY <1>1, <1>14, <1>15, <2>1, <2>4
<1> QED BY <1>17, <1>18

(* A form comes as it was filled in.                                        *)
LEMMA PairsAre ==
  ASSUME NEW form \in Form
  PROVE  /\ Pairs(form) \in Seq(RawPair) /\ Len(Pairs(form)) = Len(form)
         /\ \A i \in 1 .. Len(form) : Pairs(form)[i] = [key |-> form[i].key, text |-> Encode(form[i].value)]
         /\ Decoded(Pairs(form)) = form
<1> DEFINE F == [key : {key \in Text : Named(key)}, value : Text]
           p == Pairs(form)
<1>1. form \in Seq(F) /\ Len(form) \in Nat /\ DOMAIN form = 1 .. Len(form)
  BY LenProperties DEF Form
<1>2. p = [i \in 1 .. Len(form) |-> [key |-> form[i].key, text |-> Encode(form[i].value)]]
  BY <1>1 DEF Pairs
<1>3. ASSUME NEW i \in 1 .. Len(form) PROVE form[i] \in F /\ [key |-> form[i].key, text |-> Encode(form[i].value)] \in RawPair
  <2>1. form[i] \in F
    BY <1>1, ElementOfSeq
  <2>2. form[i].key \in {key \in Text : Named(key)} /\ form[i].value \in Text
    BY <2>1
  <2>3. Encode(form[i].value) \in Text /\ \A j \in DOMAIN Encode(form[i].value) : Encode(form[i].value)[j] # "&"
    BY <2>2, EncodeIs
  <2> QED BY <2>1, <2>2, <2>3 DEF RawPair
<1>4. p \in Seq(RawPair) /\ Len(p) = Len(form)
      /\ \A i \in 1 .. Len(form) : p[i] = [key |-> form[i].key, text |-> Encode(form[i].value)]
  BY <1>1, <1>2, <1>3
<1> HIDE DEF p
<1>5. Decoded(p) = form
  <2>1. Decoded(p) \in Seq(Argument) /\ Len(Decoded(p)) = Len(form)
        /\ \A i \in 1 .. Len(form) : Decoded(p)[i] = [key |-> p[i].key, value |-> urlDecode(p[i].text)]
    BY <1>4, DecodedIs
  <2>2. form \in Seq(Argument)
    <3>1. F \subseteq Argument
      BY DEF Argument
    <3> HIDE DEF F
    <3> QED BY <1>1, <3>1, SeqMonotonic
  <2>3. ASSUME NEW i \in 1 .. Len(form) PROVE Decoded(p)[i] = form[i]
    <3>1. form[i] \in F
      BY <1>3
    <3>2. form[i] = [key |-> form[i].key, value |-> form[i].value] /\ form[i].value \in Text
      BY <3>1
    <3>3. p[i].key = form[i].key /\ p[i].text = Encode(form[i].value)
      <4>1. p[i] = [key |-> form[i].key, text |-> Encode(form[i].value)]
        BY <1>4
      <4> QED BY <4>1
    <3>4. urlDecode(p[i].text) = form[i].value
      BY <3>2, <3>3, EncodeDecoded
    <3> QED BY <2>1, <3>2, <3>3, <3>4
  <2> QED BY <2>1, <2>2, <2>3, SeqEqual
<1> QED BY <1>4, <1>5 DEF p

LEMMA QueryIs ==
  ASSUME NEW form \in Form
  PROVE  /\ Query(form) \in Text /\ parseArguments(Query(form)) = form
         /\ Query(form) = Listing(Pairs(form))[Len(Pairs(form))]
         /\ Query(form) = <<>> <=> form = <<>>
<1>1. Pairs(form) \in Seq(RawPair) /\ Len(Pairs(form)) = Len(form) /\ Decoded(Pairs(form)) = form
  BY PairsAre
<1>2. Query(form) = Listing(Pairs(form))[Len(Pairs(form))]
  BY <1>1 DEF Query
<1>3. Query(form) \in Text /\ parseArguments(Query(form)) = form
  BY <1>1, <1>2, ParsedIs
<1>4. CASE form = <<>>
  <2>1. Len(Pairs(form)) = 0
    BY <1>1, <1>4
  <2>2. Listing(Pairs(form))[0] = <<>>
    BY <1>1, ListingStep
  <2> QED BY <1>2, <1>3, <1>4, <2>1, <2>2
<1>5. CASE form # <<>>
  <2>1. Pairs(form) # <<>>
    BY <1>1, <1>5, EmptySeq DEF Form
  <2>2. Query(form) # <<>>
    BY <1>1, <1>2, <2>1, ListingHead
  <2> QED BY <1>2, <1>3, <1>5, <2>2
<1> QED BY <1>4, <1>5

(* _parseArguments makes of a form's query the fields of the form, in their *)
(* order, each with the value that was typed.                               *)
THEOREM FormArrives == \A form \in Form : parseArguments(Query(form)) = form
BY QueryIs

(* The body of a form that is posted, and a body of other text, are put     *)
(* behind the query as more of the same.                                    *)
LEMMA DecodedJoins ==
  ASSUME NEW p \in Seq(RawPair), NEW q \in Seq(RawPair)
  PROVE  p \o q \in Seq(RawPair) /\ Decoded(p \o q) = Decoded(p) \o Decoded(q)
<1>1. PICK n \in Nat : n = Len(p)
  BY LenProperties
<1>2. PICK k \in Nat : k = Len(q)
  BY LenProperties
<1>3. p \o q \in Seq(RawPair) /\ Len(p \o q) = n + k /\ \A i \in 1 .. n + k : (p \o q)[i] = IF i <= n THEN p[i] ELSE q[i - n]
  BY <1>1, <1>2, ConcatProperties
<1>4. /\ Decoded(p) \in Seq(Argument) /\ Len(Decoded(p)) = n
      /\ \A i \in 1 .. n : Decoded(p)[i] = [key |-> p[i].key, value |-> urlDecode(p[i].text)]
  BY <1>1, DecodedIs
<1>5. /\ Decoded(q) \in Seq(Argument) /\ Len(Decoded(q)) = k
      /\ \A i \in 1 .. k : Decoded(q)[i] = [key |-> q[i].key, value |-> urlDecode(q[i].text)]
  BY <1>2, DecodedIs
<1> DEFINE r == p \o q
<1>6. /\ Decoded(r) \in Seq(Argument) /\ Len(Decoded(r)) = n + k
      /\ \A i \in 1 .. n + k : Decoded(r)[i] = [key |-> r[i].key, value |-> urlDecode(r[i].text)]
  <2>1. r \in Seq(RawPair) /\ Len(r) = n + k
    BY <1>3
  <2> HIDE DEF r
  <2> QED BY <2>1, DecodedIs
<1>7. /\ Decoded(p) \o Decoded(q) \in Seq(Argument) /\ Len(Decoded(p) \o Decoded(q)) = n + k
      /\ \A i \in 1 .. n + k : (Decoded(p) \o Decoded(q))[i] = IF i <= n THEN Decoded(p)[i] ELSE Decoded(q)[i - n]
  BY <1>4, <1>5, ConcatProperties
<1>8. ASSUME NEW i \in 1 .. n + k PROVE Decoded(r)[i] = (Decoded(p) \o Decoded(q))[i]
  <2>1. CASE i <= n
    <3>1. i \in 1 .. n /\ r[i] = p[i]
      BY <1>3, <2>1
    <3>2. (Decoded(p) \o Decoded(q))[i] = Decoded(p)[i]
      BY <1>7, <2>1
    <3>3. Decoded(r)[i] = [key |-> p[i].key, value |-> urlDecode(p[i].text)]
      <4> HIDE DEF r
      <4> QED BY <1>6, <3>1
    <3> HIDE DEF r
    <3> QED BY <1>4, <3>1, <3>2, <3>3
  <2>2. CASE ~(i <= n)
    <3>1. i - n \in 1 .. k /\ r[i] = q[i - n]
      BY <1>3, <2>2
    <3>2. (Decoded(p) \o Decoded(q))[i] = Decoded(q)[i - n]
      BY <1>7, <2>2
    <3>3. Decoded(r)[i] = [key |-> q[i - n].key, value |-> urlDecode(q[i - n].text)]
      <4> HIDE DEF r
      <4> QED BY <1>6, <3>1
    <3> HIDE DEF r
    <3> QED BY <1>5, <3>1, <3>2, <3>3
  <2> QED BY <2>1, <2>2
<1>9. Decoded(r) = Decoded(p) \o Decoded(q)
  <2> HIDE DEF r
  <2> QED BY <1>6, <1>7, <1>8, SeqEqual
<1> QED BY <1>3, <1>9

Start(search) == IF search = <<>> THEN <<>> ELSE search \o <<"&">>

LEMMA JoinParses ==
  ASSUME NEW form \in Form, NEW q \in Seq(RawPair), q # <<>>
  PROVE  /\ Start(Query(form)) \o Listing(q)[Len(q)] \in Text
         /\ parseArguments(Start(Query(form)) \o Listing(q)[Len(q)]) = form \o Decoded(q)
<1> DEFINE p == Pairs(form)
           tail == Listing(q)[Len(q)]
<1>1. tail \in Text /\ parseArguments(tail) = Decoded(q)
  BY ParsedIs
<1>2. Query(form) = Listing(p)[Len(p)] /\ (Query(form) = <<>> <=> form = <<>>)
  BY QueryIs
<1>3. p \in Seq(RawPair) /\ Len(p) = Len(form) /\ Decoded(p) = form
  BY PairsAre
<1>4. Decoded(q) \in Seq(Argument)
  BY DecodedIs
<1> HIDE DEF tail
<1>5. CASE form = <<>>
  <2>1. Start(Query(form)) = <<>>
    BY <1>2, <1>5 DEF Start
  <2>2. <<>> \o tail = tail
    BY <1>1, ConcatEmptySeq DEF Text
  <2>3. <<>> \o Decoded(q) = Decoded(q)
    BY <1>4, ConcatEmptySeq
  <2> QED BY <1>1, <1>5, <2>1, <2>2, <2>3 DEF tail
<1>6. CASE form # <<>>
  <2>1. Start(Query(form)) = Query(form) \o <<"&">>
    BY <1>2, <1>6 DEF Start
  <2>2. p # <<>>
    BY <1>3, <1>6, EmptySeq DEF Form
  <2> HIDE DEF p
  <2>3. Listing(p \o q)[Len(p \o q)] = Listing(p)[Len(p)] \o <<"&">> \o tail
    BY <1>3, <2>2, ListingJoins DEF tail
  <2>4. p \o q \in Seq(RawPair) /\ Decoded(p \o q) = form \o Decoded(q)
    BY <1>3, DecodedJoins
  <2> DEFINE r == p \o q
  <2>5. Listing(r)[Len(r)] \in Text /\ parseArguments(Listing(r)[Len(r)]) = Decoded(r)
    <3>1. r \in Seq(RawPair)
      BY <2>4
    <3> HIDE DEF r
    <3> QED BY <3>1, ParsedIs
  <2>6. Start(Query(form)) \o tail = Listing(r)[Len(r)]
    BY <1>2, <2>1, <2>3
  <2> HIDE DEF r
  <2>7. Decoded(r) = form \o Decoded(q)
    BY <2>4 DEF r
  <2> QED BY <2>5, <2>6, <2>7 DEF tail
<1> QED BY <1>5, <1>6

PlainPairs(word) == <<[key |-> <<"plain">>, text |-> word]>>

LEMMA PlainIs ==
  ASSUME NEW word \in Text, IsText(word)
  PROVE  /\ PlainPairs(word) \in Seq(RawPair) /\ PlainPairs(word) # <<>>
         /\ Listing(PlainPairs(word))[Len(PlainPairs(word))] = <<"plain", "=">> \o word
         /\ Decoded(PlainPairs(word)) = <<[key |-> <<"plain">>, value |-> word]>>
<1> DEFINE pair == [key |-> <<"plain">>, text |-> word]
           q == PlainPairs(word)
<1>1. pair \in RawPair
  <2>1. "plain" \in Alphabet
    BY ArgsAssumption
  <2>2. <<"plain">> \in Text /\ Named(<<"plain">>)
    BY <2>1 DEF Text, Named
  <2>3. \A i \in DOMAIN word : word[i] # "&"
    BY DEF IsText
  <2> QED BY <2>2, <2>3 DEF RawPair
<1>2. q \in Seq(RawPair) /\ q # <<>> /\ Len(q) = 1 /\ q[1] = pair
  BY <1>1 DEF PlainPairs
<1> HIDE DEF q
<1>3. Listing(q)[Len(q)] = <<"plain", "=">> \o word
  <2>0. 1 \in 1 .. Len(q)
    BY <1>2
  <2>1. Listing(q)[0] = <<>> /\ Listing(q)[1] = Listing(q)[1 - 1] \o (Separator(1) \o Written(q[1]))
    BY <1>2, <2>0, ListingStep
  <2>2. 1 - 1 = 0 /\ Separator(1) = <<>>
    BY DEF Separator
  <2>3. Written(q[1]) = <<"plain">> \o <<"=">> \o word
    BY <1>2 DEF Written
  <2>4. <<"plain">> \o <<"=">> = <<"plain", "=">>
    <3>1. "plain" \in Alphabet /\ "=" \in Alphabet
      BY ArgsAssumption
    <3>2. <<"plain">> \in Seq(Alphabet) /\ <<"=">> \in Seq(Alphabet) /\ <<"plain", "=">> \in Seq(Alphabet)
      BY <3>1
    <3>3. <<"plain">> \o <<"=">> \in Seq(Alphabet) /\ Len(<<"plain">> \o <<"=">>) = 2
          /\ (<<"plain">> \o <<"=">>)[1] = "plain" /\ (<<"plain">> \o <<"=">>)[2] = "="
      BY <3>2
    <3>4. Len(<<"plain", "=">>) = 2 /\ <<"plain", "=">>[1] = "plain" /\ <<"plain", "=">>[2] = "="
      OBVIOUS
    <3>5. \A i \in 1 .. 2 : (<<"plain">> \o <<"=">>)[i] = <<"plain", "=">>[i]
      BY <3>3, <3>4
    <3> QED BY <3>2, <3>3, <3>4, <3>5, SeqEqual
  <2>5. Written(q[1]) \in Seq(Alphabet)
    BY <1>2, <2>0, ListingStep
  <2>6. <<>> \o (<<>> \o Written(q[1])) = Written(q[1])
    BY <2>5, ConcatEmptySeq
  <2>7. Listing(q)[1] = Written(q[1])
    BY <2>1, <2>2, <2>6
  <2> QED BY <1>2, <2>3, <2>4, <2>7
<1>4. Decoded(q) = <<[key |-> <<"plain">>, value |-> word]>>
  <2>1. Decoded(q) \in Seq(Argument) /\ Len(Decoded(q)) = 1
        /\ Decoded(q)[1] = [key |-> q[1].key, value |-> urlDecode(q[1].text)]
    BY <1>2, DecodedIs
  <2>2. urlDecode(word) = word
    <3>1. \A i \in DOMAIN word : word[i] \notin {"%", "+"}
      BY DEF IsText
    <3> QED BY <3>1, PlainDecoded
  <2>3. Decoded(q)[1] = [key |-> <<"plain">>, value |-> word]
    BY <1>2, <2>1, <2>2
  <2> QED BY <2>1, <2>3
<1> QED BY <1>2, <1>3, <1>4 DEF q

(* Where the body needs a name to be an argument.                           *)
Name(plain) == IF plain[1] \in Brackets \/ indexOf(plain, "=", 1) = 0 THEN <<"plain", "=">> ELSE <<>>

LEMMA PostedIs ==
  ASSUME NEW b \in Bodies \cup {NoBody}
  PROVE  /\ b.form \in Form /\ b.text \in Text /\ (b.form = <<>> \/ b.text = <<>>) /\ IsText(b.text)
         /\ b.form # <<>> /\ b.form[1].key # <<>> => b.form[1].key[1] \notin Brackets
<1>1. CASE b \in Bodies
  BY <1>1, ArgsAssumption
<1>2. CASE b = NoBody
  <2>1. b.form = <<>> /\ b.text = <<>>
    BY <1>2 DEF NoBody
  <2>2. <<>> \in Form /\ <<>> \in Text /\ IsText(<<>>)
    BY DEF Form, Text, IsText
  <2> QED BY <2>1, <2>2
<1> QED BY <1>1, <1>2

LEMMA NameIs ==
  ASSUME NEW b \in Bodies \cup {NoBody}
  PROVE  /\ b.text # <<>> => Name(b.text) = <<"plain", "=">>
         /\ b.form # <<>> => Name(Query(b.form)) = <<>>
<1>1. /\ b.form \in Form /\ b.text \in Text /\ IsText(b.text)
      /\ b.form # <<>> /\ b.form[1].key # <<>> => b.form[1].key[1] \notin Brackets
  BY PostedIs
<1>2. ASSUME b.text # <<>> PROVE Name(b.text) = <<"plain", "=">>
  <2>1. CASE \E i \in DOMAIN b.text : b.text[i] = "="
    BY <1>1, <2>1 DEF Name, IsText
  <2>2. CASE ~ \E i \in DOMAIN b.text : b.text[i] = "="
    <3>1. \A j \in 1 .. Len(b.text) : b.text[j] # "="
      BY <1>1, <2>2, LenProperties DEF Text
    <3>2. indexOf(b.text, "=", 1) = 0
      BY <3>1, IndexNone
    <3> QED BY <3>2 DEF Name
  <2> QED BY <2>1, <2>2
<1>3. ASSUME b.form # <<>> PROVE Name(Query(b.form)) = <<>>
  <2> DEFINE p == Pairs(b.form)
             data == Query(b.form)
  <2>1. p \in Seq(RawPair) /\ Len(p) = Len(b.form)
        /\ \A i \in 1 .. Len(b.form) : p[i] = [key |-> b.form[i].key, text |-> Encode(b.form[i].value)]
    BY <1>1, PairsAre
  <2>2. Len(b.form) \in Nat \ {0}
    BY <1>1, <1>3, EmptySeq DEF Form
  <2>3. p[1] = [key |-> b.form[1].key, text |-> Encode(b.form[1].value)]
    BY <2>1, <2>2
  <2>4. p[1].key = b.form[1].key
    BY <2>3
  <2>5. p # <<>>
    BY <2>1, <2>2, EmptySeq
  <2>6. data = Listing(p)[Len(p)]
    BY <1>1, QueryIs
  <2> HIDE DEF p, data
  <2>7. /\ indexOf(data, "=", 1) # 0
        /\ data[1] = IF p[1].key = <<>> THEN "=" ELSE p[1].key[1]
    BY <2>1, <2>5, <2>6, ListingHead
  <2>8. data[1] \notin Brackets
    BY <1>1, <1>3, <2>4, <2>7 DEF Brackets
  <2> QED BY <2>7, <2>8 DEF Name, data
<1> QED BY <1>2, <1>3

Meant(form, b) ==
  form \o b.form \o (IF b.text = <<>> THEN <<>> ELSE <<[key |-> <<"plain">>, value |-> b.text]>>)

LEMMA SentIs ==
  ASSUME NEW b \in Bodies \cup {NoBody}
  PROVE  /\ Sent(b) \in Text
         /\ b.text = <<>> => Sent(b) = Query(b.form)
         /\ b.form = <<>> => Sent(b) = b.text
         /\ (Sent(b) = <<>>) <=> (b.form = <<>> /\ b.text = <<>>)
<1>1. b.form \in Form /\ b.text \in Text /\ (b.form = <<>> \/ b.text = <<>>)
  BY PostedIs
<1>2. Query(b.form) \in Text /\ (Query(b.form) = <<>> <=> b.form = <<>>)
  BY <1>1, QueryIs
<1>3. Query(b.form) \o <<>> = Query(b.form) /\ <<>> \o b.text = b.text
  BY <1>1, <1>2, ConcatEmptySeq DEF Text
<1>4. CASE b.form = <<>>
  BY <1>1, <1>2, <1>3, <1>4 DEF Sent
<1>5. CASE b.text = <<>>
  BY <1>1, <1>2, <1>3, <1>5 DEF Sent
<1> QED BY <1>1, <1>4, <1>5

LEMMA JoinedIs ==
  ASSUME NEW form \in Form, NEW b \in Bodies \cup {NoBody}
  PROVE  parseArguments(Joined(Query(form), Sent(b))) = Meant(form, b)
<1>1. b.form \in Form /\ b.text \in Text /\ (b.form = <<>> \/ b.text = <<>>) /\ IsText(b.text)
  BY PostedIs
<1>2. /\ Sent(b) \in Text
      /\ b.text = <<>> => Sent(b) = Query(b.form)
      /\ b.form = <<>> => Sent(b) = b.text
      /\ (Sent(b) = <<>>) <=> (b.form = <<>> /\ b.text = <<>>)
  BY SentIs
<1>3. form \in Seq(Argument) /\ b.form \in Seq(Argument)
  <2>1. form = Decoded(Pairs(form)) /\ b.form = Decoded(Pairs(b.form)) /\ Pairs(form) \in Seq(RawPair) /\ Pairs(b.form) \in Seq(RawPair)
    BY <1>1, PairsAre
  <2> QED BY <2>1, DecodedIs
<1>4. form \o <<>> = form /\ form \o b.form \in Seq(Argument) /\ form \o b.form \o <<>> = form \o b.form
  BY <1>3, ConcatEmptySeq, ConcatProperties
<1>5. ASSUME Sent(b) # <<>> PROVE Joined(Query(form), Sent(b)) = Start(Query(form)) \o Name(Sent(b)) \o Sent(b)
  BY <1>5 DEF Joined, Start, Name
<1>6. Start(Query(form)) \in Text
  <2>1. Query(form) \in Text
    BY QueryIs
  <2>2. <<"&">> \in Text
    <3>1. "&" \in Alphabet
      BY ArgsAssumption
    <3> QED BY <3>1 DEF Text
  <2>3. Query(form) \o <<"&">> \in Text
    BY <2>1, <2>2, ConcatProperties DEF Text
  <2>4. <<>> \in Text
    BY DEF Text
  <2> QED BY <2>3, <2>4 DEF Start
<1>7. CASE Sent(b) = <<>>
  <2>1. b.form = <<>> /\ b.text = <<>>
    BY <1>2, <1>7
  <2>2. Joined(Query(form), Sent(b)) = Query(form)
    BY <1>7 DEF Joined
  <2>3. parseArguments(Query(form)) = form
    BY QueryIs
  <2>4. Meant(form, b) = form
    BY <1>4, <2>1 DEF Meant
  <2> QED BY <2>2, <2>3, <2>4
<1>8. CASE b.form # <<>>
  <2>1. b.text = <<>> /\ Sent(b) = Query(b.form) /\ Sent(b) # <<>>
    BY <1>1, <1>2, <1>8
  <2> DEFINE q == Pairs(b.form)
  <2>2. q \in Seq(RawPair) /\ Len(q) = Len(b.form) /\ Decoded(q) = b.form
    BY <1>1, PairsAre
  <2>3. q # <<>>
    BY <1>1, <1>8, <2>2, EmptySeq DEF Form
  <2>4. Sent(b) = Listing(q)[Len(q)]
    BY <1>1, <2>1, QueryIs
  <2> HIDE DEF q
  <2>5. parseArguments(Start(Query(form)) \o Listing(q)[Len(q)]) = form \o Decoded(q)
    BY <2>2, <2>3, JoinParses
  <2>6. Name(Sent(b)) = <<>>
    BY <1>8, <2>1, NameIs
  <2>7. Start(Query(form)) \o <<>> = Start(Query(form))
    BY <1>6, ConcatEmptySeq DEF Text
  <2>8. Joined(Query(form), Sent(b)) = Start(Query(form)) \o Listing(q)[Len(q)]
    BY <1>5, <2>1, <2>4, <2>6, <2>7
  <2>9. Meant(form, b) = form \o b.form
    BY <1>4, <2>1 DEF Meant
  <2> QED BY <2>2, <2>5, <2>8, <2>9
<1>9. CASE b.text # <<>>
  <2>1. b.form = <<>> /\ Sent(b) = b.text /\ Sent(b) # <<>>
    BY <1>1, <1>2, <1>9
  <2> DEFINE q == PlainPairs(b.text)
  <2>2. /\ q \in Seq(RawPair) /\ q # <<>> /\ Listing(q)[Len(q)] = <<"plain", "=">> \o b.text
        /\ Decoded(q) = <<[key |-> <<"plain">>, value |-> b.text]>>
    BY <1>1, PlainIs
  <2> HIDE DEF q
  <2>3. parseArguments(Start(Query(form)) \o Listing(q)[Len(q)]) = form \o Decoded(q)
    BY <2>2, JoinParses
  <2>4. Name(Sent(b)) = <<"plain", "=">>
    BY <1>9, <2>1, NameIs
  <2>5. <<"plain", "=">> \in Text
    <3>1. "plain" \in Alphabet /\ "=" \in Alphabet
      BY ArgsAssumption
    <3> QED BY <3>1 DEF Text
  <2>6. Start(Query(form)) \o <<"plain", "=">> \o b.text = Start(Query(form)) \o (<<"plain", "=">> \o b.text)
    BY <1>1, <1>6, <2>5, Associative DEF Text
  <2>7. Joined(Query(form), Sent(b)) = Start(Query(form)) \o Listing(q)[Len(q)]
    BY <1>5, <2>1, <2>2, <2>4, <2>6
  <2>8. Meant(form, b) = form \o <<[key |-> <<"plain">>, value |-> b.text]>>
    BY <1>4, <1>9, <2>1 DEF Meant
  <2> QED BY <2>2, <2>3, <2>7, <2>8
<1> QED BY <1>2, <1>7, <1>8, <1>9

(***************************************************************************)
(* The steps.                                                               *)
(***************************************************************************)
LEMMA TextJoins ==
  ASSUME NEW s \in Text, NEW t \in Text
  PROVE  s \o t \in Text /\ s \o <<>> = s /\ <<>> \o s = s
BY ConcatProperties, ConcatEmptySeq DEF Text

LEMMA NothingIsNothing ==
  ASSUME NEW s \in Text, NEW t \in Text, s \o t = <<>>
  PROVE  s = <<>> /\ t = <<>>
<1>1. PICK n \in Nat : n = Len(s)
  BY LenProperties DEF Text
<1>2. PICK k \in Nat : k = Len(t)
  BY LenProperties DEF Text
<1>3. Len(s \o t) = n + k /\ Len(<<>>) = 0
  BY <1>1, <1>2, ConcatProperties DEF Text
<1>4. n = 0 /\ k = 0
  BY <1>3
<1> QED BY <1>1, <1>2, <1>4, EmptySeq DEF Text

LEMMA WholeIsAll ==
  ASSUME NEW s \in Text, NEW t \in Text, NEW u \in Text, s \o t = u, ~(Len(s) < Len(u))
  PROVE  s = u
<1>1. PICK n \in Nat : n = Len(s)
  BY LenProperties DEF Text
<1>2. PICK k \in Nat : k = Len(t)
  BY LenProperties DEF Text
<1>3. Len(u) = n + k
  <2>1. Len(s \o t) = n + k
    BY <1>1, <1>2, ConcatProperties DEF Text
  <2> QED BY <2>1
<1>4. k = 0
  BY <1>1, <1>3
<1>5. t = <<>>
  BY <1>2, <1>4, EmptySeq DEF Text
<1> QED BY <1>5, ConcatEmptySeq DEF Text

LEMMA PartsJoin ==
  ASSUME NEW s \in Text, NEW n \in 1 .. Len(s)
  PROVE  /\ SubSeq(s, 1, n) \in Text /\ SubSeq(s, n + 1, Len(s)) \in Text
         /\ SubSeq(s, 1, n) \o SubSeq(s, n + 1, Len(s)) = s
<1>1. PICK m \in Nat : m = Len(s)
  BY LenProperties DEF Text
<1>2. n \in 1 .. m
  BY <1>1
<1>3. s \in Seq(Alphabet) /\ \A i \in 1 .. m : s[i] \in Alphabet
  BY <1>1, ElementOfSeq DEF Text
<1> DEFINE a == SubSeq(s, 1, n)
           b == SubSeq(s, n + 1, m)
<1>4. a \in Seq(Alphabet) /\ Len(a) = n /\ \A i \in 1 .. n : a[i] = s[i]
  BY <1>1, <1>2, <1>3
<1>5. b \in Seq(Alphabet) /\ Len(b) = m - n /\ \A i \in 1 .. m - n : b[i] = s[n + i]
  BY <1>1, <1>2, <1>3
<1> HIDE DEF a, b
<1>6. m - n \in Nat /\ n \in Nat
  BY <1>2
<1>7. /\ a \o b \in Seq(Alphabet) /\ Len(a \o b) = m
      /\ \A i \in 1 .. m : (a \o b)[i] = IF i <= n THEN a[i] ELSE b[i - n]
  <2>1. Len(a \o b) = n + (m - n)
    BY <1>4, <1>5, ConcatProperties
  <2>2. n + (m - n) = m
    BY <1>6
  <2> QED BY <1>4, <1>5, <1>6, <2>1, <2>2, ConcatProperties
<1>8. ASSUME NEW i \in 1 .. m PROVE (a \o b)[i] = s[i]
  <2>1. CASE i <= n
    BY <1>4, <1>7, <2>1
  <2>2. CASE ~(i <= n)
    <3>1. i - n \in 1 .. m - n /\ n + (i - n) = i
      BY <1>2, <2>2
    <3> QED BY <1>5, <1>7, <2>2, <3>1
  <2> QED BY <2>1, <2>2
<1>9. a \o b = s
  BY <1>1, <1>3, <1>7, <1>8, SeqEqual
<1> QED BY <1>1, <1>4, <1>5, <1>9 DEF a, b, Text

(* The types as they are used below.                                        *)
ArgsTyped ==
  /\ fields \in Form /\ body \in Bodies \cup {NoBody}
  /\ behind \in Text /\ coming \in Text /\ arrived \in Text /\ plainBuf \in Text
  /\ Sent(body) \in Text /\ currentArgs \in Seq(Argument)

LEMMA ArgsAreTyped ==
  ASSUME ArgsIInv PROVE ArgsTyped
<1>1. fields \in Form
  <2>1. <<>> \in Form
    BY DEF Form
  <2> QED BY <2>1, ArgsAssumption DEF ArgsIInv, ArgsTypeOK
<1>2. body \in Bodies \cup {NoBody} /\ behind \in Text /\ coming \in Text /\ arrived \in Text /\ plainBuf \in Text
  BY DEF ArgsIInv, ArgsTypeOK
<1>3. Sent(body) \in Text
  BY <1>2, SentIs
<1>4. currentArgs \in Seq(Argument)
  BY DEF ArgsIInv, ArgsTypeOK, Argument
<1> QED BY <1>1, <1>2, <1>3, <1>4 DEF ArgsTyped

LEMMA SubmitKept ==
  ASSUME ArgsIInv, NEW form \in FieldSets, Submit(form)
  PROVE  ArgsIInv'
<1>1. ArgsTyped
  BY ArgsAreTyped
<1>2. /\ readingBody = "idle" /\ readingBody' = "done" /\ fields' = form
      /\ body' = body /\ behind' = behind /\ coming' = coming /\ arrived' = arrived /\ plainBuf' = plainBuf
      /\ currentArgs' = parseArguments(Query(form))
  BY DEF Submit
<1>3. form \in Form
  BY ArgsAssumption
<1>4. currentArgs' = form
  BY <1>2, <1>3, QueryIs
<1>5. body = NoBody
  BY <1>2 DEF ArgsIInv
<1>6. form \in Seq(Argument) /\ form \o <<>> = form /\ form \o <<>> \o <<>> = form
  <2>1. form = Decoded(Pairs(form)) /\ Pairs(form) \in Seq(RawPair)
    BY <1>3, PairsAre
  <2>2. form \in Seq(Argument)
    BY <2>1, DecodedIs
  <2> QED BY <2>2, ConcatEmptySeq
<1>7. ArgsTypeOK'
  BY <1>1, <1>2, <1>4, <1>6 DEF ArgsTyped, ArgsTypeOK, Argument
<1>8. Submitted' = form
  <2>1. body'.form = <<>> /\ body'.text = <<>>
    BY <1>2, <1>5 DEF NoBody
  <2> QED BY <1>2, <1>6, <2>1 DEF Submitted
<1>9. (plainBuf \o arrived \o coming = Sent(body) \o behind)'
  BY <1>2 DEF ArgsIInv, Sent
<1> QED BY <1>2, <1>4, <1>7, <1>8, <1>9 DEF ArgsIInv, RefusedIsLate

LEMMA PostBodyKept ==
  ASSUME ArgsIInv, NEW form \in FieldSets, NEW b \in Bodies, NEW after \in {<<>>, <<"r", "n">>}, PostBody(form, b, after)
  PROVE  ArgsIInv'
<1>1. ArgsTyped
  BY ArgsAreTyped
<1>2. /\ readingBody = "idle" /\ readingBody' = "body" /\ fields' = form
      /\ body' = b /\ behind' = after /\ coming' = Sent(b) \o after /\ arrived' = arrived /\ plainBuf' = plainBuf
      /\ currentArgs' = currentArgs
  BY DEF PostBody
<1>3. after \in Text
  <2>1. "r" \in Alphabet /\ "n" \in Alphabet
    BY ArgsAssumption
  <2>2. <<"r", "n">> \in Text /\ <<>> \in Text
    BY <2>1 DEF Text
  <2> QED BY <2>2
<1>4. Sent(b) \in Text /\ Sent(b) \o after \in Text
  BY <1>3, SentIs, TextJoins
<1>5. plainBuf = <<>> /\ arrived = <<>>
  <2>1. coming = <<>> /\ behind = <<>> /\ body = NoBody
    BY <1>2 DEF ArgsIInv
  <2>2. Sent(body) = <<>>
    <3>1. body.form = <<>> /\ body.text = <<>>
      BY <2>1 DEF NoBody
    <3> QED BY <1>1, <3>1, SentIs DEF ArgsTyped
  <2>3. plainBuf \o arrived \in Text
    BY <1>1, TextJoins DEF ArgsTyped
  <2>4. plainBuf \o arrived = <<>>
    <3>1. <<>> \in Text
      BY DEF Text
    <3>2. plainBuf \o arrived \o <<>> = <<>> \o <<>>
      BY <2>1, <2>2 DEF ArgsIInv
    <3> QED BY <2>3, <3>1, <3>2, TextJoins
  <2> QED BY <1>1, <2>4, NothingIsNothing DEF ArgsTyped
<1>6. ArgsTypeOK'
  BY <1>1, <1>2, <1>3, <1>4 DEF ArgsTyped, ArgsTypeOK, Argument
<1>7. (plainBuf \o arrived \o coming = Sent(body) \o behind)'
  <2>1. (Sent(body))' = Sent(b)
    BY <1>2 DEF Sent
  <2>2. <<>> \o <<>> \o (Sent(b) \o after) = Sent(b) \o after
    <3>1. <<>> \in Text
      BY DEF Text
    <3>2. <<>> \o <<>> = <<>>
      BY <3>1, TextJoins
    <3> QED BY <1>4, <3>2, TextJoins
  <2> QED BY <1>2, <1>5, <2>1, <2>2
<1> QED BY <1>2, <1>6, <1>7 DEF ArgsIInv, RefusedIsLate

LEMMA ArriveKept ==
  ASSUME ArgsIInv, NEW n \in DOMAIN coming, Arrive(n)
  PROVE  ArgsIInv'
<1>1. ArgsTyped
  BY ArgsAreTyped
<1> DEFINE head == SubSeq(coming, 1, n)
           tail == SubSeq(coming, n + 1, Len(coming))
<1>2. /\ readingBody = "body" /\ readingBody' = "body" /\ fields' = fields /\ n \in 1 .. Len(coming)
      /\ body' = body /\ behind' = behind /\ coming' = tail /\ arrived' = arrived \o head /\ plainBuf' = plainBuf
      /\ currentArgs' = currentArgs
  BY DEF Arrive
<1>3. head \in Text /\ tail \in Text /\ head \o tail = coming
  BY <1>1, <1>2, PartsJoin DEF ArgsTyped
<1> HIDE DEF head, tail
<1>4. ArgsTypeOK'
  <2>1. arrived \o head \in Text
    BY <1>1, <1>3, TextJoins DEF ArgsTyped
  <2> QED BY <1>1, <1>2, <1>3, <2>1 DEF ArgsTyped, ArgsTypeOK, Argument, ArgsIInv
<1>5. (plainBuf \o arrived \o coming = Sent(body) \o behind)'
  <2>1. plainBuf \in Seq(Alphabet) /\ arrived \in Seq(Alphabet) /\ head \in Seq(Alphabet) /\ tail \in Seq(Alphabet)
    BY <1>1, <1>3 DEF ArgsTyped, Text
  <2>2. plainBuf \o arrived \in Seq(Alphabet)
    BY <1>1, TextJoins DEF ArgsTyped, Text
  <2>3. plainBuf \o (arrived \o head) = (plainBuf \o arrived) \o head
    BY <2>1, Associative
  <2>4. ((plainBuf \o arrived) \o head) \o tail = (plainBuf \o arrived) \o (head \o tail)
    BY <2>1, <2>2, Associative
  <2>5. (Sent(body))' = Sent(body)
    BY <1>2 DEF Sent
  <2> QED BY <1>2, <1>3, <2>3, <2>4, <2>5 DEF ArgsIInv
<1> QED BY <1>2, <1>4, <1>5 DEF ArgsIInv, RefusedIsLate

LEMMA ReadPieceKept ==
  ASSUME ArgsIInv, ReadPiece
  PROVE  ArgsIInv'
<1>1. ArgsTyped
  BY ArgsAreTyped
<1>2. /\ readingBody = "body" /\ readingBody' = "body" /\ fields' = fields
      /\ body' = body /\ behind' = behind /\ coming' = coming /\ arrived' = <<>> /\ plainBuf' = plainBuf \o arrived
      /\ currentArgs' = currentArgs
  BY DEF ReadPiece, Piece
<1>3. plainBuf \o arrived \in Text /\ <<>> \in Text
  <2>1. <<>> \in Text
    BY DEF Text
  <2> QED BY <1>1, <2>1, TextJoins DEF ArgsTyped
<1>4. ArgsTypeOK'
  BY <1>1, <1>2, <1>3 DEF ArgsTyped, ArgsTypeOK, Argument, ArgsIInv
<1>5. (plainBuf \o arrived \o coming = Sent(body) \o behind)'
  <2>1. (plainBuf \o arrived) \o <<>> = plainBuf \o arrived
    BY <1>3, TextJoins
  <2>2. (Sent(body))' = Sent(body)
    BY <1>2 DEF Sent
  <2> QED BY <1>2, <2>1, <2>2 DEF ArgsIInv
<1> QED BY <1>2, <1>4, <1>5 DEF ArgsIInv, RefusedIsLate

LEMMA ReadTimeoutKept ==
  ASSUME ArgsIInv, ReadTimeout
  PROVE  ArgsIInv'
<1>1. ArgsTyped
  BY ArgsAreTyped
<1>2. /\ readingBody = "body" /\ readingBody' = "refused" /\ fields' = fields
      /\ body' = body /\ behind' = behind /\ coming' = coming /\ arrived' = arrived /\ plainBuf' = plainBuf
      /\ currentArgs' = currentArgs /\ arrived = <<>> /\ Len(plainBuf) < Len(Sent(body))
  BY DEF ReadTimeout, contentLength
<1>3. ArgsTypeOK'
  BY <1>1, <1>2 DEF ArgsTyped, ArgsTypeOK, Argument, ArgsIInv
<1>4. (plainBuf \o arrived \o coming = Sent(body) \o behind)'
  BY <1>2 DEF ArgsIInv, Sent
<1>5. coming # <<>>
  <2> SUFFICES ASSUME coming = <<>> PROVE FALSE
    OBVIOUS
  <2>1. plainBuf \o <<>> \o <<>> = Sent(body) \o behind
    BY <1>2 DEF ArgsIInv
  <2>2. plainBuf = Sent(body) \o behind
    BY <1>1, <2>1, TextJoins DEF ArgsTyped
  <2>3. PICK m \in Nat : m = Len(Sent(body))
    BY <1>1, LenProperties DEF ArgsTyped, Text
  <2>4. PICK k \in Nat : k = Len(behind)
    BY <1>1, LenProperties DEF ArgsTyped, Text
  <2>5. Len(Sent(body) \o behind) = m + k
    BY <1>1, <2>3, <2>4, ConcatProperties DEF ArgsTyped, Text
  <2>6. Len(plainBuf) = m + k /\ Len(plainBuf) < m
    BY <1>2, <2>2, <2>3, <2>5
  <2> QED BY <2>6
<1>6. RefusedIsLate'
  <2>1. contentLength' = Len(Sent(body))
    BY <1>2 DEF contentLength, Sent
  <2> QED BY <1>2, <1>5, <2>1 DEF RefusedIsLate
<1> QED BY <1>2, <1>3, <1>4, <1>6 DEF ArgsIInv

LEMMA ParseBodyKept ==
  ASSUME ArgsIInv, ParseBody
  PROVE  ArgsIInv'
<1>1. ArgsTyped
  BY ArgsAreTyped
<1>2. /\ readingBody = "body" /\ readingBody' = "done" /\ fields' = fields
      /\ body' = body /\ behind' = behind /\ coming' = coming /\ arrived' = arrived /\ plainBuf' = plainBuf
      /\ currentArgs' = parseArguments(Joined(Query(fields), plainBuf)) /\ Len(plainBuf) >= Len(Sent(body))
  BY DEF ParseBody, contentLength
<1>3. Query(fields) \in Text
  BY <1>1, QueryIs DEF ArgsTyped
<1>4. Joined(Query(fields), plainBuf) \in Text
  <2>1. "&" \in Alphabet /\ "plain" \in Alphabet /\ "=" \in Alphabet
    BY ArgsAssumption
  <2>2. <<"&">> \in Text /\ <<"plain", "=">> \in Text /\ <<>> \in Text
    BY <2>1 DEF Text
  <2>3. Start(Query(fields)) \in Text
    BY <1>3, <2>2, TextJoins DEF Start
  <2>4. Name(plainBuf) \in Text
    BY <2>2 DEF Name
  <2>5. Start(Query(fields)) \o Name(plainBuf) \o plainBuf \in Text
    BY <1>1, <2>3, <2>4, TextJoins DEF ArgsTyped
  <2>6. Joined(Query(fields), plainBuf) =
          IF plainBuf = <<>> THEN Query(fields) ELSE Start(Query(fields)) \o Name(plainBuf) \o plainBuf
    BY DEF Joined, Start, Name
  <2> QED BY <1>3, <2>5, <2>6
<1>5. parseArguments(Joined(Query(fields), plainBuf)) \in Seq(Argument)
  BY <1>4, parseArgumentsIs
<1>6. ArgsTypeOK'
  BY <1>1, <1>2, <1>5 DEF ArgsTyped, ArgsTypeOK, Argument, ArgsIInv
<1>7. (plainBuf \o arrived \o coming = Sent(body) \o behind)'
  BY <1>2 DEF ArgsIInv, Sent
<1>8. ASSUME behind = <<>> PROVE currentArgs' = Submitted'
  <2>1. arrived \o coming \in Text
    BY <1>1, TextJoins DEF ArgsTyped
  <2>2. plainBuf \o (arrived \o coming) = Sent(body)
    <3>1. plainBuf \o (arrived \o coming) = plainBuf \o arrived \o coming
      BY <1>1, Associative DEF ArgsTyped, Text
    <3>2. Sent(body) \o <<>> = Sent(body)
      BY <1>1, TextJoins DEF ArgsTyped
    <3> QED BY <1>8, <3>1, <3>2 DEF ArgsIInv
  <2>3. PICK n \in Nat : n = Len(plainBuf)
    BY <1>1, LenProperties DEF ArgsTyped, Text
  <2>4. PICK m \in Nat : m = Len(Sent(body))
    BY <1>1, LenProperties DEF ArgsTyped, Text
  <2>5. ~(Len(plainBuf) < Len(Sent(body)))
    <3>1. ~(n < m)
      BY <1>2, <2>3, <2>4
    <3> QED BY <2>3, <2>4, <3>1
  <2>6. plainBuf = Sent(body)
    BY <1>1, <2>1, <2>2, <2>5, WholeIsAll DEF ArgsTyped
  <2>7. parseArguments(Joined(Query(fields), Sent(body))) = Meant(fields, body)
    BY <1>1, JoinedIs DEF ArgsTyped
  <2>8. Submitted' = Meant(fields, body)
    BY <1>2 DEF Submitted, Meant
  <2> QED BY <1>2, <2>6, <2>7, <2>8
<1> QED BY <1>2, <1>6, <1>7, <1>8 DEF ArgsIInv, RefusedIsLate

LEMMA ArgsKept ==
  ASSUME ArgsIInv, [ArgsNext]_argVars
  PROVE  ArgsIInv'
<1>1. CASE UNCHANGED argVars
  BY <1>1 DEF argVars, postVars, ArgsIInv, ArgsTypeOK, RefusedIsLate, Submitted, contentLength, Sent
<1>2. CASE ArgsNext
  <2>1. ASSUME NEW form \in FieldSets, Submit(form) PROVE ArgsIInv'
    BY <2>1, SubmitKept
  <2>2. ASSUME NEW form \in FieldSets, NEW b \in Bodies, NEW after \in {<<>>, <<"r", "n">>}, PostBody(form, b, after)
        PROVE  ArgsIInv'
    BY <2>2, PostBodyKept
  <2>3. ASSUME NEW n \in DOMAIN coming, Arrive(n) PROVE ArgsIInv'
    BY <2>3, ArriveKept
  <2>4. ReadPiece => ArgsIInv'
    BY ReadPieceKept
  <2>5. ReadTimeout => ArgsIInv'
    BY ReadTimeoutKept
  <2>6. ParseBody => ArgsIInv'
    BY ParseBodyKept
  <2> QED BY <1>2, <2>1, <2>2, <2>3, <2>4, <2>5, <2>6, Zenon DEF ArgsNext
<1> QED BY <1>1, <1>2

LEMMA ArgsInitial ==
  ASSUME ArgsInit PROVE ArgsIInv
<1>1. <<>> \in Text /\ <<>> \in Seq([key : Text, value : Text])
  BY DEF Text
<1>2. /\ fields = <<>> /\ body = NoBody /\ behind = <<>> /\ coming = <<>> /\ arrived = <<>>
      /\ plainBuf = <<>> /\ readingBody = "idle" /\ currentArgs = <<>>
  BY DEF ArgsInit
<1>3. ArgsTypeOK
  BY <1>1, <1>2 DEF ArgsTypeOK
<1>4. plainBuf \o arrived \o coming = Sent(body) \o behind
  <2>1. body.form = <<>> /\ body.text = <<>> /\ body \in Bodies \cup {NoBody}
    BY <1>2 DEF NoBody
  <2>2. Sent(body) = <<>>
    BY <2>1, SentIs
  <2>3. <<>> \o <<>> = <<>>
    BY <1>1, TextJoins
  <2> QED BY <1>2, <2>2, <2>3
<1> QED BY <1>2, <1>3, <1>4 DEF ArgsIInv, RefusedIsLate

(* The first argument of a name.                                            *)
LEMMA FirstIs ==
  ASSUME NEW i \in DOMAIN currentArgs, NEW name, currentArgs \in Seq(Argument), currentArgs[i].key = name,
         \A j \in 1 .. i - 1 : currentArgs[j].key # name
  PROVE  arg(name) = currentArgs[i].value
<1> DEFINE named == {j \in DOMAIN currentArgs : currentArgs[j].key = name}
<1>1. DOMAIN currentArgs \subseteq Nat \ {0}
  <2>1. Len(currentArgs) \in Nat /\ DOMAIN currentArgs = 1 .. Len(currentArgs)
    BY LenProperties
  <2> QED BY <2>1
<1>2. i \in named /\ \A y \in named : i <= y
  BY <1>1
<1>3. named \subseteq Nat
  BY <1>1
<1>4. arg(name) = IF named = {} THEN <<>> ELSE currentArgs[Min(named)].value
  BY DEF arg
<1> HIDE DEF named
<1>5. Min(named) = i
  BY <1>2, <1>3 DEF Min
<1> QED BY <1>2, <1>4, <1>5

LEMMA ArgsImplied ==
  ASSUME ArgsIInv PROVE ArgsInv
<1>1. ArgsTyped
  BY ArgsAreTyped
<1> DEFINE typed == fields \o body.form
           rest == IF body.text = <<>> THEN <<>> ELSE <<[key |-> <<"plain">>, value |-> body.text]>>
<1>2. /\ body.form \in Form /\ body.text \in Text /\ (body.form = <<>> \/ body.text = <<>>)
  BY <1>1, PostedIs DEF ArgsTyped
<1>3. fields \in Seq(Argument) /\ body.form \in Seq(Argument)
  <2>1. fields = Decoded(Pairs(fields)) /\ body.form = Decoded(Pairs(body.form)) /\ Pairs(fields) \in Seq(RawPair) /\ Pairs(body.form) \in Seq(RawPair)
    BY <1>1, <1>2, PairsAre DEF ArgsTyped
  <2> QED BY <2>1, DecodedIs
<1>4. rest \in Seq(Argument) /\ Len(rest) = (IF body.text = <<>> THEN 0 ELSE 1)
  <2>1. <<"plain">> \in Text
    <3>1. "plain" \in Alphabet
      BY ArgsAssumption
    <3> QED BY <3>1 DEF Text
  <2>2. [key |-> <<"plain">>, value |-> body.text] \in Argument
    BY <1>2, <2>1 DEF Argument
  <2> QED BY <2>2
<1>5. typed \in Seq(Argument)
  BY <1>3, ConcatProperties
<1>6. PICK n \in Nat : n = Len(typed)
  BY <1>5, LenProperties
<1>7. ASSUME readingBody = "done", behind = <<>> PROVE currentArgs = typed \o rest
  BY <1>7 DEF ArgsIInv, Submitted
<1>8. DOMAIN typed = 1 .. n
  BY <1>5, <1>6
<1>9. PICK k \in Nat : k = Len(rest)
  BY <1>4
<1> HIDE DEF typed, rest
<1>10. /\ Len(typed \o rest) = n + k /\ DOMAIN (typed \o rest) = 1 .. n + k
       /\ \A i \in 1 .. n + k : (typed \o rest)[i] = IF i <= n THEN typed[i] ELSE rest[i - n]
  <2>1. rest \in Seq(Argument)
    BY <1>4
  <2>2. typed \o rest \in Seq(Argument) /\ Len(typed \o rest) = n + k
    BY <1>5, <1>6, <1>9, <2>1, ConcatProperties
  <2>3. DOMAIN (typed \o rest) = 1 .. n + k
    BY <2>2, LenProperties
  <2> QED BY <1>5, <1>6, <1>9, <2>1, <2>2, <2>3, ConcatProperties
<1>11. ASSUME readingBody = "done", behind = <<>>, NEW i \in DOMAIN typed, \A j \in 1 .. i - 1 : typed[j].key # typed[i].key
       PROVE  arg(typed[i].key) = typed[i].value
  <2>1. currentArgs = typed \o rest
    BY <1>7, <1>11
  <2>2. i \in 1 .. n
    BY <1>8
  <2>3. i \in DOMAIN currentArgs /\ currentArgs[i] = typed[i]
    BY <1>10, <2>1, <2>2
  <2>4. \A j \in 1 .. i - 1 : currentArgs[j] = typed[j]
    BY <1>10, <2>1, <2>2
  <2>5. \A j \in 1 .. i - 1 : currentArgs[j].key # typed[i].key
    BY <1>11, <2>4
  <2>6. currentArgs \in Seq(Argument)
    BY <1>1 DEF ArgsTyped
  <2> QED BY <2>3, <2>5, <2>6, FirstIs
<1>12. ArgumentsArrive
  <2>1. ASSUME readingBody = "done", behind = <<>>
        PROVE  Len(currentArgs) = Len(typed) + (IF body.text = <<>> THEN 0 ELSE 1)
    <3>1. Len(currentArgs) = n + k /\ k = (IF body.text = <<>> THEN 0 ELSE 1)
      BY <1>4, <1>7, <1>9, <1>10, <2>1
    <3> QED BY <1>6, <3>1
  <2> QED BY <1>11, <2>1 DEF ArgumentsArrive, typed
<1>13. PlainArrives
  <2> SUFFICES ASSUME readingBody = "done", behind = <<>>, body.text # <<>> PROVE arg(<<"plain">>) = body.text
    BY DEF PlainArrives
  <2>1. currentArgs = typed \o rest
    BY <1>7
  <2>2. body.form = <<>> /\ rest = <<[key |-> <<"plain">>, value |-> body.text]>>
    BY <1>2 DEF rest
  <2>3. typed = fields
    BY <1>3, <2>2, ConcatEmptySeq DEF typed
  <2>4. ASSUME NEW j \in 1 .. n PROVE typed[j].key # <<"plain">>
    <3>1. j \in DOMAIN fields
      BY <1>8, <2>3
    <3>2. fields # <<>>
      BY <3>1
    <3>3. fields \in FieldSets
      BY <3>2 DEF ArgsIInv, ArgsTypeOK
    <3> QED BY <2>3, <3>1, <3>3, ArgsAssumption
  <2>5. k = 1 /\ rest[1] = [key |-> <<"plain">>, value |-> body.text]
    BY <1>9, <2>2
  <2>6. n + 1 \in DOMAIN currentArgs /\ currentArgs[n + 1] = [key |-> <<"plain">>, value |-> body.text]
    <3>1. n + 1 \in 1 .. n + k /\ ~(n + 1 <= n) /\ (n + 1) - n = 1
      BY <2>5
    <3> QED BY <1>10, <2>1, <2>5, <3>1
  <2>7. \A j \in 1 .. (n + 1) - 1 : currentArgs[j].key # <<"plain">>
    <3>1. ASSUME NEW j \in 1 .. (n + 1) - 1 PROVE currentArgs[j].key # <<"plain">>
      <4>1. j \in 1 .. n /\ j \in 1 .. n + k /\ j <= n
        OBVIOUS
      <4>2. currentArgs[j] = typed[j]
        BY <1>10, <2>1, <4>1
      <4> QED BY <2>4, <4>1, <4>2
    <3> QED BY <3>1
  <2>8. currentArgs[n + 1].key = <<"plain">> /\ currentArgs[n + 1].value = body.text
    BY <2>6
  <2>9. currentArgs \in Seq(Argument)
    BY <1>1 DEF ArgsTyped
  <2>10. arg(<<"plain">>) = currentArgs[n + 1].value
    <3> DEFINE i == n + 1
    <3>1. i \in DOMAIN currentArgs /\ currentArgs[i].key = <<"plain">> /\ \A j \in 1 .. i - 1 : currentArgs[j].key # <<"plain">>
      BY <2>6, <2>7, <2>8
    <3> HIDE DEF i
    <3>2. arg(<<"plain">>) = currentArgs[i].value
      BY <2>9, <3>1, FirstIs
    <3> QED BY <3>2 DEF i
  <2> QED BY <2>8, <2>10
<1> QED BY <1>12, <1>13 DEF ArgsInv, ArgsIInv
=============================================================================
