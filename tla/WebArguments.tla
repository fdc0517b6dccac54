---------------------------- MODULE WebArguments ----------------------------
(***************************************************************************)
(* The arguments of a request: readBytesWithTimeout, what _parseRequest     *)
(* makes of a body, _parseArguments, urlDecode (Parsing.cpp) and arg        *)
(* (ESP32WebServer.cpp), for what a browser makes of the fields of a form   *)
(* and for bodies of other text, which arrive in pieces or not at all.      *)
(***************************************************************************)
EXTENDS Integers, Sequences, FiniteSetsExt

CONSTANTS
  Alphabet,     (* the characters                                           *)
  FieldSets,    (* what a user may fill in: forms, see below                *)
  Bodies        (* bodies of a POST: [form, text], one of them empty        *)

Text == Seq(Alphabet)

(* A form is a sequence of fields. Their names are sent as they are.        *)
Named(key) == \A i \in DOMAIN key : key[i] \notin {"&", "="}
Form == Seq([key : {key \in Text : Named(key)}, value : Text])

(* Other text, which the server decodes as well.                            *)
Brackets == {"{", "["}
IsText(text) ==
  /\ \A i \in DOMAIN text : text[i] \notin {"&", "%", "+"}
  /\ (\E i \in DOMAIN text : text[i] = "=") => text[1] \in Brackets

ASSUME ArgsAssumption ==
  /\ {"&", "=", "%", "+", " ", "2", "3", "5", "6", "B", "D", "?", "plain", "r", "n"} \subseteq Alphabet
  /\ \A form \in FieldSets : form \in Form /\ \A i \in DOMAIN form : form[i].key # <<"plain">>
  /\ \A b \in Bodies :
       /\ b \in [form : Form, text : Text] /\ (b.form = <<>> \/ b.text = <<>>) /\ IsText(b.text)
       /\ b.form # <<>> /\ b.form[1].key # <<>> => b.form[1].key[1] \notin Brackets

VARIABLES
  fields,       (* what the user has filled in                              *)
  body,         (* the body of the request                                  *)
  behind,       (* what the browser sends after it                          *)
  coming, arrived, (* what has not, and what has reached the socket         *)
  plainBuf,
  readingBody,  (* the state of _parseRequest                               *)
  currentArgs   (* _currentArgs up to _currentArgCount                      *)

postVars == <<body, behind, coming, arrived, plainBuf, readingBody>>
argVars  == <<fields, postVars, currentArgs>>

NoBody == [form |-> <<>>, text |-> <<>>]

ArgsTypeOK ==
  /\ fields = <<>> \/ fields \in FieldSets
  /\ body \in Bodies \cup {NoBody}
  /\ readingBody \in {"idle", "body", "done", "refused"}
  /\ {behind, coming, arrived, plainBuf} \subseteq Text
  /\ currentArgs \in Seq([key : Text, value : Text])

ArgsInit ==
  /\ fields = <<>> /\ body = NoBody /\ behind = <<>> /\ coming = <<>> /\ arrived = <<>>
  /\ plainBuf = <<>> /\ readingBody = "idle" /\ currentArgs = <<>>

(***************************************************************************)
(* The browser: a blank is sent as +, and what has a meaning in hexadecimal.*)
(***************************************************************************)
Hex == [c \in {"&", "=", "%", "+"} |->
          CASE c = "&" -> <<"2", "6">> [] c = "=" -> <<"3", "D">>
            [] c = "%" -> <<"2", "5">> [] OTHER -> <<"2", "B">>]

Sign(c) ==
  IF c = " " THEN <<"+">> ELSE IF c \in DOMAIN Hex THEN <<"%">> \o Hex[c] ELSE <<c>>

(* Encoding(value)[i] stands for the first i characters.                    *)
Encoding(value) ==
  LET signs[i \in 0 .. Len(value)] == IF i = 0 THEN <<>> ELSE signs[i - 1] \o Sign(value[i])
  IN  signs

Encode(value) == Encoding(value)[Len(value)]

Pairs(form) == [i \in DOMAIN form |-> [key |-> form[i].key, text |-> Encode(form[i].value)]]

Separator(i) == IF i = 1 THEN <<>> ELSE <<"&">>

Written(pair) == pair.key \o <<"=">> \o pair.text

(* Listing(pairs)[i] is the query of the first i of them.                   *)
Listing(pairs) ==
  LET list[i \in 0 .. Len(pairs)] ==
        IF i = 0 THEN <<>>
        ELSE list[i - 1] \o (Separator(i) \o Written(pairs[i]))
  IN  list

Query(form) == Listing(Pairs(form))[Len(form)]

(***************************************************************************)
(* The server.                                                              *)
(***************************************************************************)
Character(hi, lo) ==
  IF \E c \in DOMAIN Hex : Hex[c] = <<hi, lo>>
  THEN CHOOSE c \in DOMAIN Hex : Hex[c] = <<hi, lo>> ELSE "?"

(* Mutants of Enough: a code at the very end is left as it is.              *)
EnoughToSpare(i, len) == i + 2 < len

(* i counts from 0 and is past the "%" already.                             *)
Enough(i, len) == i + 1 < len

(* A turn of the loop: t.i characters are read.                             *)
NextCharacter(encoded, t) ==
  LET i == t.i + 1
      coded == encoded[i] = "%" /\ Enough(i, Len(encoded))
  IN  IF t.i >= Len(encoded) THEN t
      ELSE [i       |-> IF coded THEN i + 2 ELSE i,
            decoded |-> Append(t.decoded, IF coded THEN Character(encoded[i + 1], encoded[i + 2])
                                          ELSE IF encoded[i] = "+" THEN " " ELSE encoded[i])]

Decoding(encoded) ==
  LET turn[n \in 0 .. Len(encoded)] ==
        IF n = 0 THEN [i |-> 0, decoded |-> <<>>] ELSE NextCharacter(encoded, turn[n - 1])
  IN  turn

urlDecode(encoded) == Decoding(encoded)[Len(encoded)].decoded

(* String::indexOf, and 0 where it is -1.                                   *)
indexOf(data, c, place) ==
  LET found == {i \in place .. Len(data) : data[i] = c}
  IN  IF found = {} THEN 0 ELSE Min(found)

(* A turn of the loop: what is before t.place is read.                      *)
NextArgument(data, t) ==
  LET equal == indexOf(data, "=", t.place)
      amp   == indexOf(data, "&", t.place)
      end   == IF amp = 0 THEN Len(data) ELSE amp - 1
      argument == [key   |-> SubSeq(data, t.place, equal - 1),
                   value |-> urlDecode(SubSeq(data, equal + 1, end))]
  IN  IF t.ends THEN t
      ELSE [place |-> amp + 1, ends |-> amp = 0,
            args  |-> IF equal = 0 \/ (amp # 0 /\ equal > amp) THEN t.args ELSE Append(t.args, argument)]

(* There is an "=" in each turn that finds an argument.                     *)
Parsing(data) ==
  LET turn[n \in 0 .. Len(data)] ==
        IF n = 0 THEN [place |-> 1, args |-> <<>>, ends |-> FALSE] ELSE NextArgument(data, turn[n - 1])
  IN  turn

parseArguments(data) == Parsing(data)[Len(data)].args

Submit(form) ==
  /\ readingBody = "idle" /\ readingBody' = "done" /\ fields' = form
  /\ \E query \in {Query(form)} : currentArgs' = parseArguments(query)
  /\ UNCHANGED <<body, behind, coming, arrived, plainBuf>>

(***************************************************************************)
(* A body that is not an upload (Parsing.cpp:171-194).                      *)
(***************************************************************************)
Sent(b) == Query(b.form) \o b.text

contentLength == Len(Sent(body))

PostBody(form, b, after) ==
  /\ readingBody = "idle" /\ readingBody' = "body"
  /\ fields' = form /\ body' = b /\ behind' = after /\ coming' = Sent(b) \o after
  /\ UNCHANGED <<arrived, plainBuf, currentArgs>>

Arrive(n) ==
  /\ readingBody = "body" /\ n \in 1 .. Len(coming)
  /\ arrived' = arrived \o SubSeq(coming, 1, n) /\ coming' = SubSeq(coming, n + 1, Len(coming))
  /\ UNCHANGED <<fields, body, behind, plainBuf, readingBody, currentArgs>>

(* Mutant of Piece: the next piece is put where the first one was.          *)
PieceOver(piece) == piece \o SubSeq(plainBuf, Len(piece) + 1, Len(plainBuf))

Piece(piece) == plainBuf \o piece

(* One turn of readBytesWithTimeout, for all there is at that moment, be it *)
(* more than the body.                                                      *)
ReadPiece ==
  /\ readingBody = "body" /\ Len(plainBuf) < contentLength /\ arrived # <<>>
  /\ plainBuf' = Piece(arrived) /\ arrived' = <<>>
  /\ UNCHANGED <<fields, body, behind, coming, readingBody, currentArgs>>

ReadTimeout ==
  /\ readingBody = "body" /\ Len(plainBuf) < contentLength /\ arrived = <<>>
  /\ readingBody' = "refused"
  /\ UNCHANGED <<fields, body, behind, coming, arrived, plainBuf, currentArgs>>

(* Mutant of Joined: nothing is put between the query and the body.         *)
JoinedDirectly(search, plain) ==
  IF plain = <<>> THEN search
  ELSE search \o (IF plain[1] \in Brackets \/ indexOf(plain, "=", 1) = 0 THEN <<"plain", "=">> ELSE <<>>)
         \o plain

Joined(search, plain) ==
  IF plain = <<>> THEN search
  ELSE (IF search = <<>> THEN <<>> ELSE search \o <<"&">>)
         \o (IF plain[1] \in Brackets \/ indexOf(plain, "=", 1) = 0 THEN <<"plain", "=">> ELSE <<>>)
         \o plain

ParseBody ==
  /\ readingBody = "body" /\ Len(plainBuf) >= contentLength /\ readingBody' = "done"
  /\ \E query \in {Joined(Query(fields), plainBuf)} : currentArgs' = parseArguments(query)
  /\ UNCHANGED <<fields, body, behind, coming, arrived, plainBuf>>

(* arg(name), the first one of the name, "" if there is none.               *)
arg(name) ==
  LET named == {i \in DOMAIN currentArgs : currentArgs[i].key = name}
  IN  IF named = {} THEN <<>> ELSE currentArgs[Min(named)].value

ArgsNext ==
  \/ /\ readingBody = "idle"
     /\ \E form \in FieldSets :
          \/ Submit(form)
          \/ Len(form) = 1 /\ Len(form[1].value) = 1 /\ \E b \in Bodies, after \in {<<>>, <<"r", "n">>} : PostBody(form, b, after)
  \/ \E n \in DOMAIN coming : Arrive(n)
  \/ ReadPiece \/ ReadTimeout \/ ParseBody

ArgsSpec == ArgsInit /\ [][ArgsNext]_argVars

(***************************************************************************)
(* Properties.                                                              *)
(***************************************************************************)

(* What the user has typed is what the handlers of the pages get, whatever  *)
(* characters are in it - an SSID or a password of "&", "%" and "+" above   *)
(* all - and in however many pieces it comes.                               *)
ArgumentsArrive ==
  LET typed == fields \o body.form
  IN  readingBody = "done" /\ behind = <<>> =>
        /\ Len(currentArgs) = Len(typed) + (IF body.text = <<>> THEN 0 ELSE 1)
        /\ \A i \in DOMAIN typed :
             (\A j \in 1 .. i - 1 : typed[j].key # typed[i].key) => arg(typed[i].key) = typed[i].value

(* A body of other text is the argument "plain".                            *)
PlainArrives ==
  readingBody = "done" /\ behind = <<>> /\ body.text # <<>> => arg(<<"plain">>) = body.text

(* A request is refused only when its body has not come in full.            *)
RefusedIsLate == readingBody = "refused" => Len(plainBuf) < contentLength /\ coming # <<>>

(* What the server makes of a request whose body ends where it should.      *)
Submitted ==
  fields \o body.form \o (IF body.text = <<>> THEN <<>> ELSE <<[key |-> <<"plain">>, value |-> body.text]>>)

(* What makes these inductive: nothing of the body is lost on its way.      *)
ArgsIInv ==
  /\ ArgsTypeOK
  /\ readingBody = "idle" => fields = <<>> /\ body = NoBody /\ coming = <<>> /\ behind = <<>>
  /\ plainBuf \o arrived \o coming = Sent(body) \o behind
  /\ readingBody = "done" /\ behind = <<>> => currentArgs = Submitted
  /\ RefusedIsLate

(* What holds of the arguments of each request.                             *)
ArgsInv == ArgsTypeOK /\ ArgumentsArrive /\ PlainArrives /\ RefusedIsLate
=============================================================================
