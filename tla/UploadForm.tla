------------------------------ MODULE UploadForm ------------------------------
(***************************************************************************)
(* The files of a form, ESP32WebServer::_parseForm (Parsing.cpp:434-549):   *)
(* the bytes of the connection are looked through for the boundary and      *)
(* given to the upload function of the page in blocks.  The header before a *)
(* file is read whole or not as one; the fields of a form that are no files *)
(* are left out.                                                            *)
(***************************************************************************)
EXTENDS Integers, Sequences, SequencesExt

CONSTANTS
  Forms,           (* the forms sent: sequences of files, sequences of bytes  *)
  Boundary,        (* the boundary the browser has chosen                     *)
  BUFLEN           (* HTTP_UPLOAD_BUFLEN, 2048                                *)

CR == "r"
LF == "n"
Marker == <<CR, LF, "-", "-">>
More   == ","      (* what follows a boundary before the next file            *)
Over   == "."      (* ... and after the last one                              *)
Junk   == "?"      (* a byte of no file: of a header, of a buffer not written *)

IsAt(part, whole, i) ==
  i + Len(part) - 1 <= Len(whole) /\ SubSeq(whole, i, i + Len(part) - 1) = part

(* A browser chooses a boundary that is not in its files.                   *)
ASSUME FormAssumption ==
  /\ BUFLEN \in Nat \ {0}
  /\ \A form \in Forms : \A k \in DOMAIN form : \A i \in DOMAIN form[k] :
       ~IsAt(Marker \o Boundary, form[k], i)

VARIABLES
  files,        (* the form                                                   *)
  part,         (* the number of the file that is read                        *)
  from,         (* where its bytes begin                                      *)
  stream,       (* the bytes the connection carries                           *)
  next,         (* the next byte of the connection                            *)
  looking,      (* what is read next: "form" nothing yet, "header", "body",   *)
                (* the byte after CR ("cr"), LF ("lf") or "-" ("dash"), the   *)
                (* boundary ("match"), what follows it ("after"); "done",     *)
                (* "aborted"; "endless": lines, until one is a header         *)
  buf,          (* _currentUpload.buf up to currentSize                       *)
  totalSize,    (* _currentUpload.totalSize                                   *)
  given,        (* the bytes the upload function has got of the file          *)
  connected,
  late          (* history: a boundary, the header of a file or the end of    *)
                (* the form came in pieces more than a second apart           *)

place    == <<files, part, from, stream>>
upload   == <<buf, totalSize, given>>
formVars == <<place, next, looking, upload, connected, late>>

(* The connection's bytes: every file, the marker, the boundary, an end.    *)
Stream(form) ==
  FoldLeft(LAMBDA bytes, k : bytes \o form[k] \o Marker \o Boundary
                               \o <<IF k < Len(form) THEN More ELSE Over>>,
           <<>>, [k \in DOMAIN form |-> k])

FormTypeOK ==
  /\ part \in 0 .. Len(files) /\ from \in 1 .. Len(stream) + 1
  /\ next \in 1 .. Len(stream) + 1
  /\ looking \in {"form", "header", "body", "cr", "lf", "dash", "match", "after", "done", "aborted",
                 "endless"}
  /\ Len(buf) <= BUFLEN /\ totalSize \in Nat
  /\ connected \in BOOLEAN /\ late \in BOOLEAN

FormInit ==
  /\ files = <<>> /\ part = 0 /\ from = 1 /\ stream = <<>> /\ next = 1 /\ looking = "form"
  /\ buf = <<>> /\ totalSize = 0 /\ given = <<>> /\ connected = TRUE /\ late = FALSE

(***************************************************************************)
(* _uploadWriteByte: a full buffer goes to the upload function first.       *)
(***************************************************************************)
(* Mutant of uploadWriteByte: the buffer is found full one byte late.       *)
WriteByteLate(u, byte) ==
  IF Len(u.buf) > BUFLEN
  THEN [buf |-> <<byte>>, totalSize |-> u.totalSize + Len(u.buf), given |-> u.given \o u.buf]
  ELSE [u EXCEPT !.buf = Append(u.buf, byte)]

uploadWriteByte(u, byte) ==
  IF Len(u.buf) = BUFLEN
  THEN [buf |-> <<byte>>, totalSize |-> u.totalSize + Len(u.buf), given |-> u.given \o u.buf]
  ELSE [u EXCEPT !.buf = Append(u.buf, byte)]

uploadWrite(bytes) ==
  LET u == FoldLeft(uploadWriteByte, [buf |-> buf, totalSize |-> totalSize, given |-> given], bytes)
  IN  buf' = u.buf /\ totalSize' = u.totalSize /\ given' = u.given

Post(form) ==
  /\ looking = "form" /\ looking' = "header"
  /\ files' = form /\ stream' = Stream(form)
  /\ UNCHANGED <<part, from, next, upload, connected, late>>

(***************************************************************************)
(* Lines are read, each for a second at most, until one is the header of a  *)
(* file; nothing else ends that, not even that the browser is gone.         *)
(***************************************************************************)
(* A header is what comes behind a boundary that is not the last - and      *)
(* behind the rest of its line, if that was read before it came.            *)
HeaderAt    == IF part = 0 \/ stream[next - 1] = More THEN next ELSE next + 1
HeaderComes == HeaderAt - 1 \in {0} \cup {j \in DOMAIN stream : stream[j] = More}
FileAt(i)   == 1 + Cardinality({j \in 1 .. i - 1 : stream[j] = More})

StartFile(before) ==
  /\ looking = "header" /\ HeaderComes /\ looking' = "body"
  /\ part' = FileAt(HeaderAt) /\ from' = HeaderAt /\ next' = HeaderAt
  /\ buf' = before /\ totalSize' = 0 /\ given' = <<>>
  /\ UNCHANGED <<files, stream, connected>>

ReadHeader == StartFile(<<>>) /\ UNCHANGED late

(* A header that comes in pieces: its end is taken for bytes of the file;   *)
(* or it is no header or that of a field, and the lines of the file are     *)
(* read away, up to its boundary or beyond that for ever.                   *)
CutsHeader == connected /\ StartFile(<<Junk>>) /\ late' = TRUE

LosesHeader ==
  /\ looking = "header" /\ connected /\ HeaderComes /\ late' = TRUE
  /\ part' = FileAt(HeaderAt) /\ from' = HeaderAt
  /\ next' = HeaderAt + Len(files[part'] \o Marker \o Boundary) + 1
  /\ looking' \in {"endless", IF part' < Len(files) THEN "header" ELSE "done"}
  /\ UNCHANGED <<files, stream, upload, connected>>

(* The first line in pieces, or never: the form is refused.                 *)
RefusesForm ==
  /\ looking = "header" /\ part = 0 /\ looking' = "aborted" /\ late' = (late \/ connected)
  /\ UNCHANGED <<place, next, upload, connected>>

(* No header comes any more.                                                *)
FindsNoHeader ==
  /\ looking = "header" /\ (~HeaderComes \/ ~connected) /\ looking' = "endless"
  /\ UNCHANGED <<place, next, upload, connected, late>>

(***************************************************************************)
(* One byte, after the CR, LF and "-" that are already read (held).  A byte *)
(* that does not go on like the marker lets go of them, and is looked at    *)
(* anew: it may be the CR of the next marker.                               *)
(***************************************************************************)
Held == CASE looking = "cr" -> <<CR>> [] looking = "lf" -> <<CR, LF>> [] looking = "dash" -> <<CR, LF, "-">>
          [] looking = "match" -> Marker [] OTHER -> <<>>

Awaits    == [body |-> CR,   cr |-> LF,   lf |-> "-",    dash |-> "-"]
Continues == [body |-> "cr", cr |-> "lf", lf |-> "dash", dash |-> "match"]

(* Mutants of Anew: the byte after a broken marker is data, whatever it is; *)
(* the CR of the broken marker is forgotten.                                *)
AnewAsData(byte) ==
  IF byte = CR /\ looking = "body" THEN looking' = "cr" /\ UNCHANGED upload
                                ELSE looking' = "body" /\ uploadWrite(Append(Held, byte))
AnewWithoutCR(byte) ==
  LET kept == IF Held = <<>> THEN <<>> ELSE Tail(Held)
  IN  IF byte = CR THEN looking' = "cr" /\ uploadWrite(kept)
                   ELSE looking' = "body" /\ uploadWrite(Append(kept, byte))

Anew(byte) ==
  IF byte = CR THEN looking' = "cr" /\ uploadWrite(Held)
               ELSE looking' = "body" /\ uploadWrite(Append(Held, byte))

ReadByte ==
  /\ looking \in {"body", "cr", "lf", "dash"} /\ connected /\ next <= Len(stream) /\ next' = next + 1
  /\ IF stream[next] = Awaits[looking] THEN looking' = Continues[looking] /\ UNCHANGED upload
                                    ELSE Anew(stream[next])
  /\ UNCHANGED <<place, connected, late>>

(***************************************************************************)
(* The boundary: a block of its length, compared as a whole.                *)
(***************************************************************************)

(* Mutant of IsBoundary: the block only begins like the boundary.           *)
IsBoundaryStart(endBuf) == Head(endBuf) = Head(Boundary)

IsBoundary(endBuf) == endBuf = Boundary

EndFile ==
  /\ looking' = "after"
  /\ given' = given \o buf /\ totalSize' = totalSize + Len(buf) /\ UNCHANGED buf

Compare(endBuf) ==
  IF IsBoundary(endBuf) THEN EndFile ELSE looking' = "body" /\ uploadWrite(Marker \o endBuf)

ReadBoundary ==
  /\ looking = "match" /\ next + Len(Boundary) - 1 <= Len(stream) /\ next' = next + Len(Boundary)
  /\ Compare(SubSeq(stream, next, next + Len(Boundary) - 1))
  /\ UNCHANGED <<place, connected, late>>

(* readBytes returns after a second with what has come until then.          *)
ReadTooLittle(n) ==
  /\ looking = "match" /\ n < Len(Boundary) /\ next + n - 1 <= Len(stream) /\ next' = next + n
  /\ late' = TRUE
  /\ Compare(SubSeq(stream, next, next + n - 1) \o [i \in 1 .. Len(Boundary) - n |-> Junk])
  /\ UNCHANGED <<place, connected>>

(* The line behind the boundary: "--" after the last file.  Read as empty   *)
(* or in part it is not; what comes late then is read as lines before a     *)
(* header, and costs nothing if there is one.                               *)
(* Mutant of EndsForm: the last line is looked for where its file begins.   *)
EndsFormBehind == from <= Len(stream) /\ stream[from] = Over

EndsForm == next <= Len(stream) /\ stream[next] = Over

ReadLastLine ==
  /\ looking = "after" /\ next <= Len(stream) /\ next' = next + 1
  /\ looking' = IF EndsForm THEN "done" ELSE "header"
  /\ UNCHANGED <<place, upload, connected, late>>

MissesLastLine ==
  /\ looking = "after" /\ looking' = "header"
  /\ late' = (late \/ (connected /\ EndsForm))
  /\ UNCHANGED <<place, next, upload, connected>>

(***************************************************************************)
(* _parseFormUploadAborted, at the next look at the connection.  Only the   *)
(* browser ends a connection: _uploadReadByte waits for a byte as long as   *)
(* it is there.                                                             *)
(***************************************************************************)
UploadAborted ==
  /\ looking \in {"body", "cr", "lf", "dash"} /\ ~connected
  /\ looking' = "aborted"
  /\ UNCHANGED <<place, next, upload, connected, late>>

Disconnect ==
  /\ connected /\ connected' = FALSE /\ looking \notin {"form", "done", "aborted", "endless"}
  /\ UNCHANGED <<place, next, looking, upload, late>>

ParseForm ==
  \/ ReadHeader \/ CutsHeader \/ LosesHeader \/ RefusesForm \/ FindsNoHeader
  \/ ReadByte \/ ReadBoundary \/ ReadLastLine \/ MissesLastLine \/ UploadAborted
  \/ \E n \in 0 .. Len(Boundary) - 1 : ReadTooLittle(n)

FormNext     == ParseForm \/ Disconnect \/ \E form \in Forms : Post(form)
FormFairness == WF_formVars(ParseForm)
FormSpec     == FormInit /\ [][FormNext]_formVars /\ FormFairness

(***************************************************************************)
(* Properties.                                                             *)
(***************************************************************************)

(* A file that ends in a marker and less than a boundary's length takes the *)
(* server past its end: the block it compares reaches into the true marker  *)
(* (Parsing.cpp:480, 507-516).                                              *)
Overlaps(file) ==
  \E i \in DOMAIN file : IsAt(Marker, file, i) /\ i + Len(Marker) + Len(Boundary) - 1 > Len(file)

(* Every byte that has been read is with the upload function, in the buffer *)
(* or held back as the beginning of a marker, in the order it came - for    *)
(* every file, whatever it looks like, at every step.                       *)
NothingLost ==
  looking \in {"body", "cr", "lf", "dash", "match"} /\ ~late =>
    /\ given \o buf \o Held = SubSeq(stream, from, next - 1)
    /\ totalSize = Len(given)

(* The parser keeps the promise made to the upload function (its own files  *)
(* whole and in order, or broken off), for files that do not overlap the    *)
(* marker; a connection so slow that the boundary is missed counts as       *)
(* broken off.                                                              *)
Fit    == \A k \in DOMAIN files : ~Overlaps(files[k])
Broken == late \/ looking = "aborted"

promised == INSTANCE UploadPromise WITH
  form     <- files,
  number   <- IF Fit /\ ~Broken THEN part ELSE 0,
  received <- IF Fit /\ ~Broken THEN given ELSE <<>>,
  phase    <- IF looking = "form" THEN "none" ELSE IF Fit /\ Broken THEN "aborted"
              ELSE IF ~Fit \/ looking \in {"header", "after", "done", "endless"} THEN "between" ELSE "file"

PromiseKept == promised!PromiseSpec

(* A form of fit files comes to its end, and the server does not wait for a *)
(* byte while the browser waits for the answer - unless a boundary, header  *)
(* or the last line came in pieces more than a second apart, or the browser *)
(* left when no file was being read.  Nothing else, whatever the files look *)
(* like, lets the server read lines for ever (Parsing.cpp:372-375, 497-505, *)
(* a loop without a look at the connection).                                *)
LeftBetween == looking = "endless" /\ ~connected

UploadEnds ==
  /\ [](looking = "endless" => late \/ ~connected)
  /\ (Fit /\ looking = "header") ~> (looking \in {"done", "aborted"} \/ late \/ LeftBetween)

(* The promise is kept and its end is reached.                              *)
UploadCorrect == PromiseKept /\ UploadEnds
=============================================================================
