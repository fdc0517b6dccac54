------------------------------ MODULE WiFiClient ------------------------------
(***************************************************************************)
(* TCP connections, WiFiClient.cpp and WiFiServer::available: objects that  *)
(* are copied share the handle of one socket, which the last of them        *)
(* closes; each has a flag of its own.  write() sends in as many pieces as  *)
(* the socket takes.  The sockets (lwip) are external.                      *)
(***************************************************************************)
EXTENDS Integers, Sequences, FiniteSets

CONSTANTS
  Objects,      (* the WiFiClient objects                                   *)
  MaxSockets,   (* bound: sockets made                                      *)
  MaxRetry,     (* WIFI_CLIENT_MAX_WRITE_RETRY, 10 in the code              *)
  WriteSizes,   (* sizes of the buffers that are written                    *)
  MaxWrites     (* bound: calls of write                                    *)

ASSUME ClientAssumption ==
  /\ MaxSockets \in Nat /\ MaxRetry \in Nat \ {0} /\ WriteSizes \subseteq Nat \ {0}
  /\ MaxWrites \in Nat

Sockets == 1 .. MaxSockets
Null    == 0
ClientIdle    == [object |-> Null, size |-> 0, retry |-> 0]

VARIABLES
  clientSocketHandle, (* the socket of the handle of each object, or Null   *)
  _connected,
  openSockets,
  socketsMade,
  brokenSockets, (* external: the connection is lost                        *)
  sending,      (* the call of write: [object, size, retry]                 *)
  totalBytesSent,
  accepted,     (* history: the bytes the socket took, by their place       *)
                      (* in the buffer                                      *)
  returned,     (* history: what the last write returned, -1 before         *)
  cause,        (* history: why it ended                                    *)
  writeCount

handles    == <<clientSocketHandle, _connected, openSockets, socketsMade>>
writeVars  == <<sending, totalBytesSent, accepted, returned, cause, writeCount>>
clientVars == <<handles, brokenSockets, writeVars>>

ClientTypeOK ==
  /\ clientSocketHandle \in [Objects -> Sockets \cup {Null}] /\ _connected \in [Objects -> BOOLEAN]
  /\ openSockets \subseteq 1 .. socketsMade /\ socketsMade \in 0 .. MaxSockets
  /\ brokenSockets \subseteq Sockets
  /\ sending = ClientIdle \/ sending \in [object : Objects, size : WriteSizes, retry : 0 .. MaxRetry]
  /\ totalBytesSent \in Nat /\ accepted \in Seq(Nat) /\ returned \in Nat \cup {-1}
  /\ cause \in {"none", "done", "tries", "select", "error"} /\ writeCount \in 0 .. MaxWrites

ClientInit ==
  /\ clientSocketHandle = [o \in Objects |-> Null] /\ _connected = [o \in Objects |-> FALSE]
  /\ openSockets = {} /\ socketsMade = 0 /\ brokenSockets = {}
  /\ sending = ClientIdle /\ totalBytesSent = 0 /\ accepted = <<>> /\ returned = -1 /\ cause = "none"
  /\ writeCount = 0

(***************************************************************************)
(* Handles: a socket is closed when the last object lets go of it.          *)
(***************************************************************************)
(* Mutant of Closed: an object closes the socket it lets go of.             *)
ClosedAtOnce(o) == {clientSocketHandle[o]}

Closed(o) == {clientSocketHandle[o]} \ {clientSocketHandle[p] : p \in Objects \ {o}}

Hold(o, socket, isConnected) ==
  /\ clientSocketHandle' = [clientSocketHandle EXCEPT ![o] = socket]
  /\ _connected' = [_connected EXCEPT ![o] = isConnected]

stopClient(o) ==
  /\ Hold(o, Null, FALSE) /\ openSockets' = openSockets \ Closed(o)
  /\ UNCHANGED socketsMade

Resting == sending = ClientIdle

Stop(o) == Resting /\ stopClient(o) /\ UNCHANGED <<brokenSockets, writeVars>>

(* connect() of a sketch, or a connection the server has accepted.  One     *)
(* that fails closes its socket and leaves the object as it was.            *)
connect(o) ==
  /\ Resting /\ socketsMade < MaxSockets /\ socketsMade' = socketsMade + 1
  /\ \/ Hold(o, socketsMade', TRUE) /\ openSockets' = (openSockets \ Closed(o)) \cup {socketsMade'}
     \/ UNCHANGED <<clientSocketHandle, _connected, openSockets>>
  /\ UNCHANGED <<brokenSockets, writeVars>>

(* operator=: stop() first, even when an object is assigned to itself.      *)
assign(o, other) ==
  /\ Resting /\ openSockets' = openSockets \ Closed(o)
  /\ IF o = other THEN Hold(o, Null, FALSE)
                  ELSE Hold(o, clientSocketHandle[other], _connected[other])
  /\ UNCHANGED <<socketsMade, brokenSockets, writeVars>>

(* connected() asks for no bytes and looks at errno, which may be what an   *)
(* earlier call left: it can take a living connection for a lost one and    *)
(* the other way round.  The handle stays.                                  *)
lookConnected(o) ==
  /\ Resting /\ _connected[o]
  /\ _connected' = [_connected EXCEPT ![o] = FALSE]
  /\ UNCHANGED <<clientSocketHandle, openSockets, socketsMade, brokenSockets, writeVars>>

(* available(), read(), peek() and flush() stop the object when the socket  *)
(* fails.                                                                   *)
receive(o) ==
  /\ Resting /\ _connected[o] /\ clientSocketHandle[o] \in brokenSockets /\ stopClient(o)
  /\ UNCHANGED <<brokenSockets, writeVars>>

ConnectionBreaks(socket) ==
  /\ socket \in openSockets \ brokenSockets /\ brokenSockets' = brokenSockets \cup {socket}
  /\ UNCHANGED <<handles, writeVars>>

(***************************************************************************)
(* write().                                                                 *)
(***************************************************************************)
StartWrite(o, size) ==
  /\ Resting /\ _connected[o] /\ writeCount < MaxWrites /\ writeCount' = writeCount + 1
  /\ sending' = [object |-> o, size |-> size, retry |-> MaxRetry]
  /\ totalBytesSent' = 0 /\ accepted' = <<>> /\ cause' = "none"
  /\ UNCHANGED <<handles, brokenSockets, returned>>

Finish(count, why) == sending' = ClientIdle /\ returned' = count /\ cause' = why

(* The loop goes on while there are tries left.                             *)
Again(count) ==
  IF sending.retry > 1
  THEN sending' = [sending EXCEPT !.retry = @ - 1] /\ UNCHANGED <<returned, cause>>
  ELSE Finish(count, "tries")

(* select() fails: 0, whatever has been sent.                               *)
SelectFails ==
  /\ ~Resting /\ Finish(0, "select")
  /\ UNCHANGED <<handles, brokenSockets, totalBytesSent, accepted, writeCount>>

(* The socket is not ready within a second, or takes nothing (EAGAIN).      *)
NotReady ==
  /\ ~Resting /\ Again(totalBytesSent)
  /\ UNCHANGED <<handles, brokenSockets, totalBytesSent, accepted, writeCount>>

(* Mutant of Unsent: every piece begins with the buffer.                    *)
UnsentFromStart(k) == k

Unsent(k) == totalBytesSent + k

SendPiece(n) ==
  /\ ~Resting /\ n \in 1 .. sending.size - totalBytesSent
  /\ accepted' = accepted \o [k \in 1 .. n |-> Unsent(k)]
  /\ totalBytesSent' = totalBytesSent + n
  /\ IF totalBytesSent' >= sending.size THEN Finish(totalBytesSent', "done")
                                        ELSE Again(totalBytesSent')
  /\ UNCHANGED <<handles, brokenSockets, writeCount>>

SendFails ==
  /\ ~Resting /\ clientSocketHandle[sending.object] \in brokenSockets
  /\ stopClient(sending.object) /\ Finish(totalBytesSent, "error")
  /\ UNCHANGED <<brokenSockets, totalBytesSent, accepted, writeCount>>

ClientNext ==
  \/ \E o \in Objects :
       \/ connect(o) \/ Stop(o) \/ lookConnected(o) \/ receive(o)
       \/ \E other \in Objects : assign(o, other)
       \/ \E size \in WriteSizes : StartWrite(o, size)
  \/ \E socket \in Sockets : ConnectionBreaks(socket)
  \/ SelectFails \/ NotReady \/ SendFails
  \/ \E size \in WriteSizes : \E n \in 1 .. size : SendPiece(n)

ClientSpec == ClientInit /\ [][ClientNext]_clientVars

(***************************************************************************)
(* Properties.                                                              *)
(***************************************************************************)

(* However objects are copied, assigned, connected anew and stopped, the    *)
(* open sockets are those of their handles, no more (a socket nobody can    *)
(* close) and no less (an object that uses a socket closed by another one), *)
(* and an object that says it is connected has one.                         *)
SocketsHeld ==
  /\ openSockets = {clientSocketHandle[o] : o \in Objects} \ {Null}
  /\ \A o \in Objects : _connected[o] => clientSocketHandle[o] # Null

(* What the socket has taken of a write is the beginning of the buffer,     *)
(* each byte once, in however many pieces and with however many tries in    *)
(* between; write returns how much it was, but for a failing select().  It  *)
(* can be less than the buffer with a connection that lives: pieces count   *)
(* as tries, too (WiFiClient.cpp:203).                                      *)
WriteIsPrefix ==
  /\ accepted = [k \in 1 .. totalBytesSent |-> k]
  /\ Resting /\ cause \in {"done", "tries", "error"} => returned = Len(accepted)

(* What holds of the sockets and of a write at every step.                  *)
ClientInv == ClientTypeOK /\ SocketsHeld /\ WriteIsPrefix
=============================================================================
