------------------------------ MODULE WebServer ------------------------------
(***************************************************************************)
(* The web server of the module: Nefry_webserver::run and resetTimer        *)
(* (NefryWebServer.cpp), ESP32WebServer::handleClient, _parseRequest and    *)
(* _handleRequest.  One task serves one connection after the other; but the *)
(* handler of an uploaded sketch serves others from within, before it       *)
(* restarts the module (NefryUpdate.cpp:116-122).                           *)
(***************************************************************************)
EXTENDS Integers, Sequences, SequencesExt

CONSTANTS
  MaxClients,   (* bound: connections                                        *)
  Backlog,      (* connections the socket keeps, _max_clients                *)
  Nested,       (* runs within the upload handler, 10                        *)
  Delay         (* runs until a restart, 100 per second                      *)

ASSUME WebAssumption == {MaxClients, Backlog, Nested, Delay} \subseteq Nat \ {0}

Clients  == 1 .. MaxClients
NoClient == 0

(* "page": a page; "unknown": no handler, the portal's answer; "restart":   *)
(* /Reset and the pages that save; "sketch", "broken": an upload that is    *)
(* good or not; "bad": no request, or none in time.  Two uploads keep the   *)
(* reader of the form (UploadForm): one whose browser stops in the middle   *)
(* of a file and stays ("stalled"), one whose next header or last line does *)
(* not come whole ("cut").                                                  *)
Requests == {"page", "unknown", "restart", "sketch", "broken", "bad", "stalled", "cut"}

VARIABLES
  request,         (* the requests of the connections made so far            *)
  backlog,         (* connections that wait                                  *)
  gone,            (* connections the browser has closed                     *)
  answers,         (* answers[c]: the handlers whose answer c has got        *)
  currentClient,   (* _currentClient                                         *)
  currentHandler,  (* _currentHandler and _currentUri: what was asked for    *)
  serving,         (* the next step of handleClient and run                  *)
  uploads,         (* the upload handlers that serve others: [client, left]  *)
  resetFlg, countdown,
  restarted        (* Nefry.reset() was called                               *)

clients == <<request, backlog, gone, answers>>
current == <<currentClient, currentHandler>>
timer   == <<resetFlg, countdown>>
webVars == <<clients, current, serving, uploads, timer, restarted>>

WebTypeOK ==
  /\ request \in Seq(Requests) /\ Len(request) <= MaxClients
  /\ backlog \in Seq(DOMAIN request) /\ Len(backlog) <= Backlog /\ gone \subseteq DOMAIN request
  /\ DOMAIN answers = Clients /\ \A c \in Clients : answers[c] \in Seq(Requests)
  /\ currentClient \in DOMAIN request \cup {NoClient} /\ currentHandler \in Requests
  /\ serving \in {"accept", "parse", "handle", "end", "tick"}
  /\ uploads \in Seq([client : Clients, left : 1 .. Nested])
  /\ resetFlg \in BOOLEAN /\ countdown \in 0 .. Delay /\ restarted \in BOOLEAN

WebInit ==
  /\ request = <<>> /\ backlog = <<>> /\ gone = {} /\ answers = [c \in Clients |-> <<>>]
  /\ currentClient = NoClient /\ currentHandler = "bad" /\ serving = "accept" /\ uploads = <<>>
  /\ resetFlg = FALSE /\ countdown = 0 /\ restarted = FALSE

(***************************************************************************)
(* Browsers.                                                               *)
(***************************************************************************)
Browse(asked) ==
  /\ ~restarted /\ Len(request) < MaxClients /\ Len(backlog) < Backlog
  /\ request' = Append(request, asked) /\ backlog' = Append(backlog, Len(request) + 1)
  /\ UNCHANGED <<gone, answers, current, serving, uploads, timer, restarted>>

Leave(c) ==
  /\ ~restarted /\ c \in DOMAIN request \ gone /\ answers[c] = <<>> /\ gone' = gone \cup {c}
  /\ UNCHANGED <<request, backlog, answers, current, serving, uploads, timer, restarted>>

(***************************************************************************)
(* handleClient.                                                            *)
(***************************************************************************)
Accept ==
  /\ ~restarted /\ serving = "accept"
  /\ IF backlog = <<>>
     THEN serving' = "tick" /\ UNCHANGED <<currentClient, backlog>>
     ELSE /\ backlog' = Tail(backlog)
          /\ IF Head(backlog) \in gone
             THEN currentClient' = NoClient /\ serving' = "tick"
             ELSE currentClient' = Head(backlog) /\ serving' = "parse"
  /\ UNCHANGED <<request, gone, answers, currentHandler, uploads, timer, restarted>>

(* Mutant of AfterBad: the connection is read again for a request.          *)
ReadAgain == "parse"

AfterBad == "end"

(* Mutant of HandlerOf: the handler stays when none is found.               *)
HandlerFound(c) == IF request[c] = "unknown" THEN currentHandler ELSE request[c]

HandlerOf(c) == request[c]

(* _parseForm waits for the bytes of a file as long as the browser is there *)
(* (Parsing.cpp:336-341), and for the header of a file for ever.            *)
TaskHeld == serving = "parse" /\ request[currentClient] \in {"stalled", "cut"}

Returns(c) == request[c] # "cut" /\ (request[c] = "stalled" => c \in gone)

(* The handler is looked for before the form is read.                       *)
parseRequest ==
  /\ ~restarted /\ serving = "parse" /\ Returns(currentClient)
  /\ currentHandler' = IF request[currentClient] = "bad" THEN currentHandler ELSE HandlerOf(currentClient)
  /\ serving' = IF request[currentClient] \in {"bad", "stalled"} THEN AfterBad ELSE "handle"
  /\ UNCHANGED <<clients, currentClient, uploads, timer, restarted>>

(* send() writes to _currentClient, whoever that is.                        *)
SendTo(c, answer) ==
  /\ answers' = IF c = NoClient \/ c \in gone THEN answers
                ELSE [answers EXCEPT ![c] = Append(@, answer)]
  /\ UNCHANGED <<request, backlog, gone>>

(* Mutant of resetTimer: it only sets the time.                             *)
resetTimeOnly == countdown' = Delay /\ UNCHANGED resetFlg

resetTimer == resetFlg' = TRUE /\ countdown' = Delay

handleRequest ==
  /\ ~restarted /\ serving = "handle"
  /\ SendTo(currentClient, currentHandler)
  /\ IF currentHandler = "restart" THEN resetTimer ELSE UNCHANGED timer
  /\ IF currentHandler = "sketch"
     THEN /\ uploads' = Append(uploads, [client |-> currentClient, left |-> Nested])
          /\ serving' = "accept"
     ELSE serving' = "end" /\ UNCHANGED uploads
  /\ UNCHANGED <<current, restarted>>

EndClient ==
  /\ ~restarted /\ serving = "end" /\ serving' = "tick" /\ currentClient' = NoClient
  /\ UNCHANGED <<clients, currentHandler, uploads, timer, restarted>>

(***************************************************************************)
(* The rest of run(), and the loop of the upload handler around it.         *)
(***************************************************************************)
Reset == restarted' = TRUE /\ UNCHANGED <<uploads, serving>>

LoopOn ==
  IF uploads = <<>> THEN serving' = "accept" /\ UNCHANGED <<uploads, restarted>>
  ELSE IF Last(uploads).left = 1 THEN Reset
  ELSE /\ uploads' = [uploads EXCEPT ![Len(uploads)].left = @ - 1]
       /\ serving' = "accept" /\ UNCHANGED restarted

Tick ==
  /\ ~restarted /\ serving = "tick"
  /\ countdown' = IF resetFlg THEN countdown - 1 ELSE countdown
  /\ IF resetFlg /\ countdown' <= 0 THEN Reset ELSE LoopOn
  /\ UNCHANGED <<clients, current, resetFlg>>

WebTask == Accept \/ parseRequest \/ handleRequest \/ EndClient \/ Tick

WebNext == WebTask \/ (\E asked \in Requests : Browse(asked)) \/ \E c \in Clients : Leave(c)

WebFairness == WF_webVars(WebTask)
WebSpec     == WebInit /\ [][WebNext]_webVars /\ WebFairness

(***************************************************************************)
(* Properties.                                                             *)
(***************************************************************************)

(* Whoever is answered is answered once, by the handler of what it asked    *)
(* for, although the requests served within the upload handler replace the  *)
(* client, the handler and the arguments of the server (NefryUpdate.cpp:118,*)
(* ESP32WebServer.cpp:162-181) - and the one who sent the sketch has its    *)
(* answer before the module restarts.                                       *)
AnswersFit ==
  /\ \A c \in Clients : answers[c] = <<>> \/ answers[c] = <<request[c]>>
  /\ restarted => \A k \in DOMAIN uploads :
       answers[uploads[k].client] # <<>> \/ uploads[k].client \in gone

(* Whoever asks and stays is answered, unless the module restarts first or  *)
(* an upload keeps the task for ever: again and again nobody waits any more *)
(* who has sent a whole request.                                            *)
Unanswered == {c \in DOMAIN request \ gone : answers[c] = <<>>}
Complete(c)   == request[c] \notin {"bad", "stalled", "cut"}

EverybodyAnswered == <>[]TaskHeld \/ []<>(restarted \/ \A c \in Unanswered : ~Complete(c))

(* A page that promises a restart brings it about, whatever else is asked   *)
(* for meanwhile and however often it is asked for again - unless an upload *)
(* keeps the task for ever: the time until the restart is counted by the    *)
(* same task (NefryWebServer.cpp:26).  An upload that ends, if only because *)
(* its browser leaves, puts it off and no more.                             *)
RestartComes == <>[]TaskHeld \/ ((\E c \in Clients : answers[c] = <<"restart">>) ~> restarted)

(* Everybody gets the answer meant for them, and gets it in the end.        *)
WebCorrect == [](WebTypeOK /\ AnswersFit) /\ EverybodyAnswered /\ RestartComes
=============================================================================
