----------------------------- MODULE WiFiServer -----------------------------
(***************************************************************************)
(* The listening socket, WiFiServer.cpp: begin, available, hasClient and    *)
(* end.  hasClient() accepts a connection and keeps it for available().     *)
(* The sockets are external: each call of them may fail.  Connections and   *)
(* listening sockets are numbered as they are made.                         *)
(***************************************************************************)
EXTENDS Integers, Sequences, SequencesExt

CONSTANTS
  MaxClientsWaiting, (* _max_clients                                        *)
  MaxConnections, MaxListens, MaxServerFaults (* bounds: connections,       *)
                        (* calls of begin(), calls of sockets that fail     *)

ASSUME ServerAssumption == {MaxClientsWaiting, MaxConnections, MaxListens, MaxServerFaults} \subseteq Nat

NoSocket == 0

VARIABLES
  _listening, _noDelay,
  listener,     (* sockfd, the number of a listening socket                 *)
  _accepted_sockfd, (* the number of a connection                           *)
  waiting,      (* connections the socket has not accepted yet              *)
  reset,        (* connections that were reset with their listener          *)
  openListeners, openClients, (* sockets that are open                      *)
  handedOut,    (* the connections available() has returned, with           *)
                        (* the delay they were given                        *)
  dropped,      (* history: open sockets that a failure, or end()           *)
                        (* before available(), has left without an owner    *)
  connections, listens, serverFaults

serverVars == <<_listening, _noDelay, listener, _accepted_sockfd, waiting, reset, openListeners,
                openClients, handedOut, dropped, connections, listens, serverFaults>>

ServerTypeOK ==
  /\ {_listening, _noDelay} \subseteq BOOLEAN
  /\ listener \in {NoSocket} \cup (1 .. listens) /\ openListeners \subseteq 1 .. listens
  /\ _accepted_sockfd \in {NoSocket} \cup (1 .. connections) /\ openClients \subseteq 1 .. connections
  /\ \A i \in DOMAIN waiting : waiting[i] \in 1 .. connections
  /\ \A i \in DOMAIN handedOut : handedOut[i].client \in 1 .. connections
  /\ connections \in 0 .. MaxConnections /\ listens \in 0 .. MaxListens
  /\ serverFaults \in 0 .. MaxServerFaults

ServerInit ==
  /\ _listening = FALSE /\ _noDelay = FALSE /\ listener = NoSocket /\ _accepted_sockfd = NoSocket
  /\ waiting = <<>> /\ reset = {} /\ openListeners = {} /\ openClients = {} /\ handedOut = <<>>
  /\ dropped = [listeners |-> {}, clients |-> {}]
  /\ connections = 0 /\ listens = 0 /\ serverFaults = 0

Tally(failed) ==
  /\ failed => serverFaults < MaxServerFaults
  /\ serverFaults' = serverFaults + (IF failed THEN 1 ELSE 0)

ClientConnects ==
  /\ _listening /\ connections < MaxConnections /\ Len(waiting) < MaxClientsWaiting
  /\ connections' = connections + 1 /\ waiting' = Append(waiting, connections + 1)
  /\ UNCHANGED <<_listening, _noDelay, listener, _accepted_sockfd, reset, openListeners, openClients,
                 handedOut, dropped, listens, serverFaults>>

(* bind() or listen() fails: sockfd is set, and set again by the next call. *)
beginServer(failed) ==
  /\ ~_listening /\ listens < MaxListens /\ listens' = listens + 1
  /\ Tally(failed)
  /\ listener' = listens + 1 /\ openListeners' = openListeners \cup {listens + 1}
  /\ _listening' = ~failed
  /\ _noDelay' = (failed /\ _noDelay)
  /\ _accepted_sockfd' = IF failed THEN _accepted_sockfd ELSE NoSocket
  /\ dropped' = [dropped EXCEPT !.listeners = @ \cup (IF failed THEN {listens + 1} ELSE {})]
  /\ UNCHANGED <<waiting, reset, openClients, handedOut, connections>>

setNoDelay(nodelay) ==
  /\ _noDelay # nodelay /\ _noDelay' = nodelay
  /\ UNCHANGED <<_listening, listener, _accepted_sockfd, waiting, reset, openListeners, openClients,
                 handedOut, dropped, connections, listens, serverFaults>>

(* accept: the first connection that waits, if there is one.                *)
Taken == IF waiting = <<>> THEN NoSocket ELSE Head(waiting)
Left  == IF waiting = <<>> THEN <<>> ELSE Tail(waiting)

(* Mutant of NextClient: hasClient's connection is asked for again.         *)
NextOfSocket == Taken

NextClient == IF _accepted_sockfd # NoSocket THEN _accepted_sockfd ELSE Taken

(* available(): a connection whose options cannot be set is not returned.   *)
available(failed) ==
  /\ _listening
  /\ failed => NextClient # NoSocket
  /\ Tally(failed)
  /\ _accepted_sockfd' = NoSocket
  /\ waiting' = IF _accepted_sockfd # NoSocket THEN waiting ELSE Left
  /\ openClients' = IF NextClient = NoSocket THEN openClients ELSE openClients \cup {NextClient}
  /\ handedOut' = IF NextClient = NoSocket \/ failed THEN handedOut
                  ELSE Append(handedOut, [client |-> NextClient, noDelay |-> _noDelay])
  /\ dropped' = [dropped EXCEPT !.clients = @ \cup (IF failed THEN {NextClient} ELSE {})]
  /\ UNCHANGED <<_listening, _noDelay, listener, reset, openListeners, connections, listens>>

(* Mutant of hasClient: it does not look whether it has one already.        *)
hasClientAgain ==
  /\ _listening /\ Taken # NoSocket
  /\ _accepted_sockfd' = Taken /\ waiting' = Left /\ openClients' = openClients \cup {Taken}
  /\ UNCHANGED <<_listening, _noDelay, listener, reset, openListeners, handedOut, dropped, connections,
                 listens, serverFaults>>

hasClient ==
  /\ _listening /\ _accepted_sockfd = NoSocket /\ Taken # NoSocket
  /\ _accepted_sockfd' = Taken /\ waiting' = Left /\ openClients' = openClients \cup {Taken}
  /\ UNCHANGED <<_listening, _noDelay, listener, reset, openListeners, handedOut, dropped, connections,
                 listens, serverFaults>>

(* end() closes the listening socket, and with it what waits there; what    *)
(* hasClient() has accepted stays where it is until begin() forgets it.     *)
endServer ==
  /\ listener # NoSocket /\ _listening' = FALSE /\ listener' = NoSocket
  /\ openListeners' = openListeners \ {listener}
  /\ reset' = reset \cup ToSet(waiting) /\ waiting' = <<>>
  /\ dropped' = [dropped EXCEPT !.clients =
                   @ \cup (IF _accepted_sockfd = NoSocket THEN {} ELSE {_accepted_sockfd})]
  /\ UNCHANGED <<_noDelay, _accepted_sockfd, openClients, handedOut, connections, listens, serverFaults>>

ServerNext ==
  \/ ClientConnects \/ hasClient \/ endServer
  \/ \E b \in BOOLEAN : beginServer(b) \/ setNoDelay(b) \/ available(b)

ServerSpec == ServerInit /\ [][ServerNext]_serverVars

(***************************************************************************)
(* Properties.                                                              *)
(***************************************************************************)
Returned == {handedOut[i].client : i \in DOMAIN handedOut}

(* Connections are handed out in the order they came in, none twice.        *)
HandedOutInOrder ==
  \A i, j \in DOMAIN handedOut : i < j => handedOut[i].client < handedOut[j].client

(* Every connection waits, is held for available(), was handed out, was     *)
(* reset with its listener or lost to a failure - none gets lost on the way.*)
NobodyForgotten ==
  /\ \A c \in 1 .. connections :
       c \in ToSet(waiting) \cup {_accepted_sockfd} \cup Returned \cup reset \cup dropped.clients
  /\ _listening => _accepted_sockfd \notin Returned \cup dropped.clients

(* A server that listens has a socket of its own that is open, and no other *)
(* one is but those a begin() that failed has left.                         *)
OneListener ==
  /\ _listening => listener \in openListeners
  /\ openListeners \ dropped.listeners \subseteq {listener}

(* Why: the connections that wait came in one after the other, behind those *)
(* that were handed out or lost; the one hasClient() holds is in between.   *)
InTurn ==
  /\ \A i, j \in DOMAIN waiting : i < j => waiting[i] < waiting[j]
  /\ \A c \in Returned \cup dropped.clients : \A i \in DOMAIN waiting : c < waiting[i]
  /\ _listening /\ _accepted_sockfd # NoSocket =>
       /\ \A c \in Returned \cup dropped.clients : c < _accepted_sockfd
       /\ \A i \in DOMAIN waiting : _accepted_sockfd < waiting[i]

ServerKnown ==
  /\ waiting \in Seq(Nat) /\ handedOut \in Seq([client : Nat, noDelay : BOOLEAN])
  /\ dropped \in [listeners : SUBSET Nat, clients : SUBSET (1 .. connections)]
  /\ InTurn
  /\ ~_listening => /\ openListeners \subseteq dropped.listeners
                    /\ _accepted_sockfd \in dropped.clients \cup {NoSocket}

ServerIInv == ServerTypeOK /\ HandedOutInOrder /\ NobodyForgotten /\ OneListener /\ ServerKnown

ServerInv == ServerTypeOK /\ HandedOutInOrder /\ NobodyForgotten /\ OneListener
=============================================================================
