---------------------------- MODULE WebResponse ----------------------------
(***************************************************************************)
(* Headers and bodies, ESP32WebServer.cpp: the headers of a request that    *)
(* are kept for its handler, and the response a handler puts together with  *)
(* sendHeader, setContentLength, send, send_P and sendContent.  All of it   *)
(* is kept in the server, which outlives the request.  A write to the       *)
(* client (WiFiClient, external here) may take less than it is given.       *)
(***************************************************************************)
EXTENDS Integers, Sequences, FiniteSetsExt

CONSTANTS
  UNIT,         (* HTTP_DOWNLOAD_UNIT_SIZE                                  *)
  HeaderKeys,   (* names of request headers a sketch may ask for            *)
  Lengths,      (* lengths of contents                                      *)
  RequestLines, (* the header lines of requests                             *)
  MaxAnswers, MaxHandlerCalls, MaxCuts (* bounds: requests, calls of one    *)
                (* handler, contents that are cut short                     *)

Authorization == "Authorization"
HeaderNames   == HeaderKeys \cup {Authorization}
NotSet        == -1             (* CONTENT_LENGTH_NOT_SET                   *)
LengthUnknown == -2             (* CONTENT_LENGTH_UNKNOWN                   *)
NoRequest     == <<>>
(* The lines of a request: headers with a value of 1 (for Authorization the *)
(* right one) or 2, or a line without a colon.                              *)
NoColon        == [name |-> "no colon", value |-> 0]
HeaderLines   == [name : HeaderNames \cup {"Host"}, value : {1, 2}] \cup {NoColon}

ASSUME ResponseAssumption ==
  /\ UNIT \in Nat \ {0} /\ Lengths \subseteq Nat
  /\ {MaxAnswers, MaxHandlerCalls, MaxCuts} \subseteq Nat
  /\ RequestLines \subseteq Seq(HeaderLines) \ {NoRequest}

(* The header lines of a response that the model tells apart, each with the *)
(* number of the request that has added it (history), and what a handler    *)
(* calls.                                                                   *)
ResponseHeads == [name : {"X", "Content-Type", "Content-Length", "Connection", "WWW-Authenticate"}, by : Nat]

HandlerCalls ==
  {"sendHeader", "setContentLength", "send", "send_P", "sendContent", "sendContent_P",
   "requestAuthentication"}

VARIABLES
  _currentHeaders, (* the names that are kept, and their values, 0: none    *)
  _responseHeaders, (* lines to go out                                      *)
  _contentLength,
  requestLines, (* the lines of the request that is served                  *)
  transmitted,  (* what its client has received: the header lines of every  *)
                (* response, the length it was told, the bytes after it     *)
  meant,        (* history: the length of what the handler has sent         *)
  calls,        (* history: what the handler has called                     *)
  short,        (* history: a write to this client was cut short            *)
  leftOver,     (* history: the handler before has left headers unsent      *)
  requestNumber, cuts

responseVars == <<_currentHeaders, _responseHeaders, _contentLength, requestLines, transmitted, meant, calls,
                  short, leftOver, requestNumber, cuts>>

NoAnswer == [heads |-> <<>>, length |-> NotSet, bytes |-> <<>>]

ResponseTypeOK ==
  /\ DOMAIN _currentHeaders \subseteq HeaderNames /\ Authorization \in DOMAIN _currentHeaders
  /\ _currentHeaders \in [DOMAIN _currentHeaders -> 0 .. 2]
  /\ _responseHeaders \in Seq(ResponseHeads)
  /\ transmitted \in [heads : Seq(ResponseHeads), length : Lengths \cup {0, NotSet, LengthUnknown}, bytes : Seq(Nat)]
  /\ requestLines \in RequestLines \cup {NoRequest} /\ meant \in Nat
  /\ _contentLength \in Lengths \cup {NotSet, LengthUnknown} /\ {short, leftOver} \subseteq BOOLEAN
  /\ requestNumber \in 0 .. MaxAnswers /\ calls \in Seq(HandlerCalls) /\ Len(calls) <= MaxHandlerCalls /\ cuts \in 0 .. MaxCuts

(* begin() collects no header but the one for the password; a sketch may    *)
(* have asked for more.                                                     *)
collectHeaders(names) == [name \in names \cup {Authorization} |-> 0]

ResponseInit ==
  /\ \E names \in SUBSET HeaderKeys : _currentHeaders = collectHeaders(names)
  /\ _responseHeaders = <<>> /\ _contentLength = NotSet
  /\ requestLines = NoRequest /\ transmitted = NoAnswer /\ meant = 0 /\ short = FALSE /\ leftOver = FALSE
  /\ requestNumber = 0 /\ calls = <<>> /\ cuts = 0

(***************************************************************************)
(* A request: the values of the one before are forgotten, then every line   *)
(* up to one without a colon is looked at.                                  *)
(***************************************************************************)
(* Mutant of Forgotten: they are kept.                                      *)
ForgottenNot == _currentHeaders

Forgotten == [name \in DOMAIN _currentHeaders |-> 0]

Lines(headerLines) ==
  LET ends == {i \in DOMAIN headerLines : headerLines[i] = NoColon}
  IN  IF ends = {} THEN headerLines ELSE SubSeq(headerLines, 1, Min(ends) - 1)

collectHeader(headers, headerLine) ==
  IF headerLine.name \in DOMAIN headers THEN [headers EXCEPT ![headerLine.name] = headerLine.value] ELSE headers

(* Collecting(lines)[i] is what is kept when i of the lines were looked at. *)
Collecting(lines) ==
  LET kept[i \in 0 .. Len(lines)] == IF i = 0 THEN Forgotten ELSE collectHeader(kept[i - 1], lines[i])
  IN  kept

Collected(lines) == Collecting(lines)[Len(lines)]

parseHeaders(headerLines) ==
  /\ requestLines = NoRequest /\ requestNumber < MaxAnswers /\ requestNumber' = requestNumber + 1
  /\ _currentHeaders' = Collected(Lines(headerLines))
  /\ _contentLength' = NotSet /\ requestLines' = headerLines
  /\ UNCHANGED <<_responseHeaders, transmitted, meant, calls, short, leftOver, cuts>>

(* A handler leaves header lines for the next one: it has sent nothing      *)
(* after it has added one, or nothing at all after one was left to it.      *)
Answering == {"send", "send_P", "requestAuthentication"}
UnsentSince(i) == \A j \in i + 1 .. Len(calls) : calls[j] \notin Answering

EndRequest ==
  /\ requestLines # NoRequest /\ requestLines' = NoRequest
  /\ leftOver' = (\/ leftOver /\ UnsentSince(0)
                 \/ \E i \in DOMAIN calls : calls[i] = "sendHeader" /\ UnsentSince(i))
  /\ transmitted' = NoAnswer /\ meant' = 0 /\ short' = FALSE /\ calls' = <<>>
  /\ UNCHANGED <<_currentHeaders, _responseHeaders, _contentLength, requestNumber, cuts>>

headerOf(name)    == IF name \in DOMAIN _currentHeaders THEN _currentHeaders[name] ELSE 0
hasHeader(name) == headerOf(name) # 0
authenticate    == hasHeader(Authorization) /\ headerOf(Authorization) = 1

(***************************************************************************)
(* A response.                                                              *)
(***************************************************************************)
WithHeader(lines, name, first) ==
  LET headerLine == [name |-> name, by |-> requestNumber]
  IN  IF first THEN <<headerLine>> \o lines ELSE Append(lines, headerLine)

sendHeader(name, first) ==
  /\ _responseHeaders' = WithHeader(_responseHeaders, name, first)
  /\ UNCHANGED <<_contentLength, transmitted, meant, short, cuts>>

setContentLength(n) ==
  /\ _contentLength' = n
  /\ UNCHANGED <<_responseHeaders, transmitted, meant, short, cuts>>

(* The lines of a response, and the length they tell of.  They are never    *)
(* cut short here.                                                          *)
PromisedLength(n) == IF _contentLength = NotSet THEN n ELSE _contentLength

prepareHeader(lines, n) ==
  LET typed  == WithHeader(lines, "Content-Type", TRUE)
      length == IF PromisedLength(n) = LengthUnknown THEN typed ELSE WithHeader(typed, "Content-Length", FALSE)
  IN  WithHeader(length, "Connection", FALSE)

(* What a client can get of n bytes.  sendContent goes on after a write     *)
(* that takes less from where that stopped, and gives up after one that     *)
(* takes nothing; sendContent_P goes on with the next unit.                 *)
Least(a, b) == IF a < b THEN a ELSE b

Numbered(n) == [k \in 1 .. n |-> meant + k]

(* Mutant of sendContent: a write that takes less is made again.            *)
sendContentAgain(n) == {SubSeq(Numbered(n), 1, k) \o Numbered(n) : k \in 0 .. n - 1} \cup {Numbered(n)}

sendContent(n) == {SubSeq(Numbered(n), 1, k) : k \in 0 .. n}

(* Sending(n, taken)[u] is what goes out of the first u units of n bytes    *)
(* when taken[u] bytes of each can be written.                              *)
Unit(n, u, k) == SubSeq(Numbered(n), (u - 1) * UNIT + 1, Least(n, (u - 1) * UNIT + k))

Sending(n, taken) ==
  LET sent[u \in {0} \cup DOMAIN taken] == IF u = 0 THEN <<>> ELSE sent[u - 1] \o Unit(n, u, taken[u])
  IN  sent

Units_P(n) == (n + UNIT - 1) \div UNIT

sendContent_P(n) == {Sending(n, taken)[Units_P(n)] : taken \in [1 .. Units_P(n) -> 0 .. UNIT]}

Transmit(n, possible, response) ==
  \E bytes \in possible :
    /\ bytes # Numbered(n) => cuts < MaxCuts
    /\ cuts' = cuts + (IF bytes = Numbered(n) THEN 0 ELSE 1)
    /\ short' = (short \/ bytes # Numbered(n))
    /\ transmitted' = [response EXCEPT !.bytes = @ \o bytes]
    /\ meant' = meant + n

(* Mutant of Answer: the header lines stay for the next response.           *)
AnswerKeeps(lines, n, possible) ==
  /\ Transmit(n, possible, [transmitted EXCEPT !.heads = @ \o prepareHeader(lines, n), !.length = PromisedLength(n)])
  /\ _responseHeaders' = lines /\ UNCHANGED _contentLength

Answer(lines, n, possible) ==
  /\ Transmit(n, possible, [transmitted EXCEPT !.heads = @ \o prepareHeader(lines, n), !.length = PromisedLength(n)])
  /\ _responseHeaders' = <<>> /\ UNCHANGED _contentLength

send(n) == Answer(_responseHeaders, n, sendContent(n))

send_P(n) == Answer(_responseHeaders, n, sendContent_P(n))

requestAuthentication ==
  Answer(WithHeader(_responseHeaders, "WWW-Authenticate", FALSE), 0, sendContent(0))

MoreContent(n, possible) == Transmit(n, possible, transmitted) /\ UNCHANGED <<_responseHeaders, _contentLength>>

(* One call of a handler.                                                   *)
Handle(call) ==
  /\ requestLines # NoRequest /\ Len(calls) < MaxHandlerCalls /\ calls' = Append(calls, call)
  /\ CASE call = "sendHeader"            -> \E first \in BOOLEAN : sendHeader("X", first)
       [] call = "setContentLength"      -> \E n \in Lengths \cup {LengthUnknown} : setContentLength(n)
       [] call = "send"                  -> \E n \in Lengths : send(n)
       [] call = "send_P"                -> \E n \in Lengths : send_P(n)
       [] call = "sendContent"           -> \E n \in Lengths : MoreContent(n, sendContent(n))
       [] call = "sendContent_P"         -> \E n \in Lengths : MoreContent(n, sendContent_P(n))
       [] call = "requestAuthentication" -> ~authenticate /\ requestAuthentication
  /\ UNCHANGED <<_currentHeaders, requestLines, leftOver, requestNumber>>

ResponseNext ==
  \/ \E headerLines \in RequestLines : parseHeaders(headerLines)
  \/ \E call \in HandlerCalls : Handle(call)
  \/ EndRequest

ResponseSpec == ResponseInit /\ [][ResponseNext]_responseVars

(***************************************************************************)
(* Properties.                                                              *)
(***************************************************************************)

(* A handler sees the headers of its own request: the last line of a name   *)
(* that is kept, none of those behind a line without a colon, and it lets   *)
(* nobody in on the password of an earlier request.                         *)
HeadersOwn ==
  requestLines # NoRequest =>
    \A name \in DOMAIN _currentHeaders :
      LET places == {i \in DOMAIN requestLines : requestLines[i].name = name /\ \A j \in 1 .. i : requestLines[j] # NoColon}
      IN  headerOf(name) = IF places = {} THEN 0 ELSE requestLines[Max(places)].value

(* The lines of a response were added for it, unless the handler before has *)
(* left some of its own.                                                    *)
LinesOwn == ~leftOver => \A i \in DOMAIN transmitted.heads : transmitted.heads[i].by = requestNumber

(* The bytes of the body arrive in order and none twice, whatever is cut    *)
(* short; when nothing is, all of them do, and as many as the header of a   *)
(* response made by one call says.                                          *)
BodyInOrder ==
  /\ \A i \in DOMAIN transmitted.bytes : i > 1 => transmitted.bytes[i - 1] < transmitted.bytes[i]
  /\ ~short => transmitted.bytes = [k \in 1 .. meant |-> k]
  /\ calls \in {<<"send">>, <<"send_P">>, <<"sendHeader", "send">>} => transmitted.length = meant

(* The inductive invariant behind them: between two requests nothing is     *)
(* left but the header lines a handler has not sent; and the length is not  *)
(* set before a handler does.                                               *)
UnsentKnown ==
  /\ _responseHeaders # <<>> =>
       (leftOver /\ UnsentSince(0)) \/ \E i \in DOMAIN calls : calls[i] = "sendHeader" /\ UnsentSince(i)
  /\ ~leftOver => \A i \in DOMAIN _responseHeaders : _responseHeaders[i].by = requestNumber

BetweenRequests ==
  /\ requestLines = NoRequest => calls = <<>> /\ transmitted = NoAnswer /\ ~short
  /\ calls = <<>> \/ calls = <<"sendHeader">> =>
       meant = 0 /\ (requestLines # NoRequest => _contentLength = NotSet)

BytesMeant == \A i \in DOMAIN transmitted.bytes : transmitted.bytes[i] \in 1 .. meant

ResponseIInv ==
  ResponseTypeOK /\ HeadersOwn /\ LinesOwn /\ BodyInOrder /\ UnsentKnown /\ BetweenRequests /\ BytesMeant

(* What holds of requests and responses at every step.                      *)
ResponseInv == ResponseTypeOK /\ HeadersOwn /\ LinesOwn /\ BodyInOrder
=============================================================================
