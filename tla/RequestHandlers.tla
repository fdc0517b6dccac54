-------------------------- MODULE RequestHandlers --------------------------
(***************************************************************************)
(* Which page answers a request: the list of handlers of the web server     *)
(* (ESP32WebServer.cpp), linked by each handler's next (RequestHandler.h).  *)
(* A sketch adds handlers while the web task walks the list, reads the      *)
(* files of a form and answers; a handler has a function, perhaps one for   *)
(* uploads, a URI and a method (RequestHandlersImpl.h).                     *)
(***************************************************************************)
EXTENDS Integers, Sequences

CONSTANTS
  Uris,
  Methods,        (* of handlers: "HTTP_ANY" or one of a request             *)
  HandlerKinds,   (* the handlers a sketch may add: their URI and method     *)
  Asks,           (* what may be asked: method, URI, and if there is a form  *)
  MaxHandlers,    (* bound: handlers added                                   *)
  MaxAsked        (* bound: requests                                         *)

ASSUME HandlersAssumption ==
  /\ {MaxHandlers, MaxAsked} \subseteq Nat
  /\ HandlerKinds \subseteq [uri : Uris, method : Methods]
  /\ Asks \subseteq [method : Methods \ {"HTTP_ANY"}, uri : Uris, form : BOOLEAN] /\ Asks # {}

Handler == [uri : Uris, method : Methods, ufn : BOOLEAN]

VARIABLES
  handlerList,              (* the handlers that were made, in their order   *)
  _firstHandler, _lastHandler, nextHandler,
  _fileUploadHandler,
  adding,                   (* the sketch in _addRequestHandler              *)
  routing,                  (* where the request is                          *)
  request,                  (* its method and URI                            *)
  cursor, _currentHandler,
  formRead,                 (* its form was given to an upload function      *)
  addedBefore,              (* history: the handlers added when it began     *)
  requestsAsked

listVars     == <<handlerList, _firstHandler, _lastHandler, nextHandler, adding>>
askedVars    == <<routing, request, cursor, _currentHandler, formRead, addedBefore, requestsAsked>>
handlerVars  == <<listVars, _fileUploadHandler, askedVars>>

Pointers == 0 .. MaxHandlers

HandlersTypeOK ==
  /\ handlerList \in Seq(Handler) /\ Len(handlerList) <= MaxHandlers
  /\ {_firstHandler, _lastHandler, cursor, _currentHandler, addedBefore} \subseteq Pointers
  /\ nextHandler \in [1 .. MaxHandlers -> Pointers]
  /\ {_fileUploadHandler, formRead} \subseteq BOOLEAN
  /\ adding \in {"idle", "link", "last"} /\ routing \in {"idle", "search", "form", "answer"}
  /\ request \in Asks
  /\ requestsAsked \in 0 .. MaxAsked

HandlersInit ==
  /\ handlerList = <<>> /\ _firstHandler = 0 /\ _lastHandler = 0
  /\ nextHandler = [n \in 1 .. MaxHandlers |-> 0] /\ adding = "idle"
  /\ _fileUploadHandler = FALSE
  /\ routing = "idle"
  /\ request = CHOOSE ask \in Asks : TRUE
  /\ cursor = 0 /\ _currentHandler = 0 /\ formRead = FALSE
  /\ addedBefore = 0 /\ requestsAsked = 0

(***************************************************************************)
(* The sketch: on(), with and without an upload function of its own, and    *)
(* onFileUpload().                                                          *)
(***************************************************************************)
Make(handler) ==
  /\ adding = "idle" /\ Len(handlerList) < MaxHandlers
  /\ handlerList' = Append(handlerList, handler) /\ adding' = "link"
  /\ UNCHANGED <<_firstHandler, _lastHandler, nextHandler, _fileUploadHandler, askedVars>>

WithUpload(handler, ufn) ==
  [uri |-> handler.uri, method |-> handler.method, ufn |-> ufn]

on(handler)           == Make(WithUpload(handler, _fileUploadHandler))
onWithUpload(handler) == Make(WithUpload(handler, TRUE))

onFileUpload ==
  /\ adding = "idle" /\ _fileUploadHandler' = TRUE
  /\ UNCHANGED <<listVars, askedVars>>

(* Mutant of LinkTo: a new handler follows the first one.                   *)
LinkToFirst(handler) == [nextHandler EXCEPT ![_firstHandler] = handler]

LinkTo(handler) == [nextHandler EXCEPT ![_lastHandler] = handler]

addRequestHandler ==
  /\ adding = "link" /\ adding' = "last"
  /\ IF _lastHandler = 0 THEN _firstHandler' = Len(handlerList) /\ UNCHANGED nextHandler
     ELSE nextHandler' = LinkTo(Len(handlerList)) /\ UNCHANGED _firstHandler
  /\ UNCHANGED <<handlerList, _lastHandler, _fileUploadHandler, askedVars>>

MoveLast ==
  /\ adding = "last" /\ adding' = "idle" /\ _lastHandler' = Len(handlerList)
  /\ UNCHANGED <<handlerList, _firstHandler, nextHandler, _fileUploadHandler, askedVars>>

(***************************************************************************)
(* The web task.                                                            *)
(***************************************************************************)
canHandle(n, method, uri) ==
  /\ handlerList[n].method \in {"HTTP_ANY", method}
  /\ handlerList[n].uri = uri

(* Mutant of canUpload: the handler is not asked for the method POST.       *)
canUploadAny(n, uri) ==
  n # 0 /\ handlerList[n].ufn /\ handlerList[n].uri = uri

canUpload(n, uri) ==
  n # 0 /\ handlerList[n].ufn /\ canHandle(n, "HTTP_POST", uri)

(* The methods whose requests are read beyond their headers.                *)
WithBody == {"HTTP_POST", "HTTP_PUT", "HTTP_PATCH", "HTTP_DELETE"}

NewRequest(ask) ==
  /\ routing = "idle" /\ requestsAsked < MaxAsked /\ requestsAsked' = requestsAsked + 1
  /\ routing' = "search" /\ request' = ask
  /\ cursor' = _firstHandler /\ formRead' = FALSE /\ addedBefore' = _lastHandler
  /\ UNCHANGED <<listVars, _fileUploadHandler, _currentHandler>>

(* Mutant of WalkEnds: the walk ends at the last handler without asking it. *)
WalkEndsEarly == cursor = 0 \/ nextHandler[cursor] = 0 \/ canHandle(cursor, request.method, request.uri)

WalkEnds == cursor = 0 \/ canHandle(cursor, request.method, request.uri)

SearchHandler ==
  /\ routing = "search"
  /\ IF ~WalkEnds THEN cursor' = nextHandler[cursor] /\ UNCHANGED <<_currentHandler, routing>>
     ELSE /\ _currentHandler' = cursor
          /\ routing' = IF request.form /\ request.method \in WithBody THEN "form" ELSE "answer"
          /\ UNCHANGED cursor
  /\ UNCHANGED <<listVars, _fileUploadHandler, request, formRead, addedBefore, requestsAsked>>

(* A form with files: all of it is read, for an upload function or not.     *)
ReadForm ==
  /\ routing = "form" /\ routing' = "answer"
  /\ formRead' = canUpload(_currentHandler, request.uri)
  /\ UNCHANGED <<listVars, _fileUploadHandler, request, cursor, _currentHandler, addedBefore, requestsAsked>>

(* The chosen handler answers, or onNotFound() or the server itself.        *)
AnswerRequest ==
  /\ routing = "answer" /\ routing' = "idle"
  /\ UNCHANGED <<listVars, _fileUploadHandler, request, cursor, _currentHandler, formRead, addedBefore, requestsAsked>>

HandlersNext ==
  \/ \E handler \in HandlerKinds : on(handler) \/ onWithUpload(handler)
  \/ onFileUpload \/ addRequestHandler \/ MoveLast
  \/ \E ask \in Asks : NewRequest(ask)
  \/ SearchHandler \/ ReadForm \/ AnswerRequest

HandlersSpec == HandlersInit /\ [][HandlersNext]_handlerVars

(***************************************************************************)
(* Properties.                                                              *)
(***************************************************************************)
Matches == {n \in 1 .. Len(handlerList) : canHandle(n, request.method, request.uri)}

(* Of the handlers that were there when a request began, the first that     *)
(* fits it is chosen, whatever is added while the list is walked; and no    *)
(* later one takes its place (Parsing.cpp:120-126).                         *)
FirstChosen ==
  routing \in {"form", "answer"} =>
    IF _currentHandler = 0 THEN \A n \in Matches : n > addedBefore
    ELSE _currentHandler \in Matches /\ \A n \in Matches : n >= _currentHandler

(* The files of a form go to the upload function of the handler that then   *)
(* answers, and to no other; a handler of PUT alone never gets them, though *)
(* it was given one and its request has a form (RequestHandlersImpl.h:29).  *)
UploadOfAnswer ==
  routing = "answer" =>
    formRead = (/\ request.form /\ request.method \in WithBody
                /\ _currentHandler # 0 /\ handlerList[_currentHandler].ufn
                /\ handlerList[_currentHandler].method \in {"HTTP_ANY", "HTTP_POST"})

(* The inductive invariant behind them: the list links each handler to the  *)
(* next, but for the one the sketch is adding; and the walk has passed none *)
(* that fits.                                                               *)
Linked == Len(handlerList) - (IF adding = "link" THEN 1 ELSE 0)

Chained ==
  /\ adding # "idle" => handlerList # <<>>
  /\ _firstHandler = IF Linked = 0 THEN 0 ELSE 1
  /\ \A n \in 1 .. MaxHandlers : nextHandler[n] = IF n < Linked THEN n + 1 ELSE 0
  /\ _lastHandler = Len(handlerList) - (IF adding = "idle" THEN 0 ELSE 1)

Walked ==
  /\ addedBefore <= _lastHandler /\ cursor <= Linked
  /\ routing = "search" =>
       IF cursor = 0 THEN \A n \in Matches : n > addedBefore ELSE \A n \in Matches : n >= cursor
  /\ routing \in {"search", "form"} => ~formRead
  /\ routing = "form" => request.form /\ request.method \in WithBody

HandlersIInv == HandlersTypeOK /\ Chained /\ Walked /\ FirstChosen /\ UploadOfAnswer

(* What holds of the handlers at every step.                                *)
HandlersInv == HandlersTypeOK /\ FirstChosen /\ UploadOfAnswer
=============================================================================
