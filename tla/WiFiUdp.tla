------------------------------ MODULE WiFiUdp ------------------------------
(***************************************************************************)
(* A WiFiUDP object, WiFiUdp.cpp: one socket, a buffer in which a packet is *)
(* put together and one for a datagram that was received, and one peer,     *)
(* which both a packet that is begun and a datagram that is received        *)
(* replace.  The sockets (lwIP) and the network are external.               *)
(***************************************************************************)
EXTENDS Integers, Sequences, SequencesExt

CONSTANTS
  BUFSIZE,      (* the size of both buffers: 1460 in the code               *)
  Peers,        (* addresses                                                *)
  Group,        (* a multicast address                                      *)
  None,         (* no address, no buffer                                    *)
  DatagramSizes,(* sizes of the datagrams that arrive                       *)
  MaxOpens, MaxPackets, MaxBytesOut, MaxReceived, MaxSendFaults (* bounds   *)

ASSUME UdpAssumption ==
  /\ BUFSIZE \in Nat \ {0} /\ Group \notin Peers /\ DatagramSizes \subseteq Nat
  /\ {MaxOpens, MaxPackets, MaxBytesOut, MaxReceived, MaxSendFaults} \subseteq Nat

NoPacket == [to |-> None, written |-> 0, sent |-> <<>>, lost |-> FALSE, ended |-> FALSE, stray |-> FALSE]

VARIABLES
  udp_server,   (* the socket, a number, or -1                              *)
  server_port,  (* has one been set                                         *)
  multicast_ip, remote, (* addresses or None                                *)
  tx_buffer,    (* None, or the bytes up to tx_buffer_len                   *)
  udp_rx_buffer, (* None, or the bytes not read yet                         *)
  sockets,      (* open in the system: records [id, joined]                 *)
  udpInbox,     (* datagrams in the socket: [from, size]                    *)
  packet,       (* history of the packet begun last: the number of bytes    *)
                (* written, the datagrams [to, data] they went in, whether  *)
                (* one was lost, whether one was received meanwhile         *)
  udpDatagram,  (* history of the datagram received last: [size, read]      *)
  opens, packets, readBytes, udpFaults (* bounded                           *)

peer    == <<remote, server_port, multicast_ip>>
udpSocket  == <<udp_server, sockets>>
udpHistory == <<packet, udpDatagram>>
counts  == <<opens, packets, readBytes, udpFaults>>
udpVars == <<udpSocket, peer, tx_buffer, udp_rx_buffer, udpInbox, udpHistory, counts>>

UdpTypeOK ==
  /\ udp_server \in {-1} \cup (1 .. MaxOpens + MaxPackets) /\ server_port \in BOOLEAN
  /\ multicast_ip \in {None, Group} /\ remote \in Peers \cup {None, Group}
  /\ tx_buffer # None => Len(tx_buffer) <= BUFSIZE
  /\ udp_rx_buffer # None => Len(udp_rx_buffer) <= BUFSIZE
  /\ packet.written \in 0 .. MaxBytesOut /\ udpDatagram.read \in 0 .. udpDatagram.size

UdpInit ==
  /\ udp_server = -1 /\ server_port = FALSE /\ multicast_ip = None /\ remote = None
  /\ tx_buffer = None /\ udp_rx_buffer = None /\ sockets = {} /\ udpInbox = <<>>
  /\ packet = NoPacket /\ udpDatagram = [size |-> 0, read |-> 0]
  /\ opens = 0 /\ packets = 0 /\ readBytes = 0 /\ udpFaults = 0

UdpFault(fails) == (fails => udpFaults < MaxSendFaults) /\ udpFaults' = udpFaults + (IF fails THEN 1 ELSE 0)

NewSocket == opens + packets + 1

(***************************************************************************)
(* stop, and begin and beginMulticast, which call it first, and again when  *)
(* a step after the socket fails.                                           *)
(***************************************************************************)
(* Mutant of UdpClosed: the socket is forgotten, not closed.                *)
UdpClosedNot == sockets

UdpClosed == {s \in sockets : s.id # udp_server}

stopUdp ==
  /\ udp_server # -1 \/ tx_buffer # None
  /\ udp_server' = -1 /\ sockets' = UdpClosed
  /\ multicast_ip' = IF udp_server = -1 THEN multicast_ip ELSE None
  /\ tx_buffer' = None /\ udp_rx_buffer' = None /\ udpInbox' = <<>> /\ packet' = NoPacket
  /\ UNCHANGED <<remote, server_port, udpDatagram, counts>>

beginUdp(group, fault) ==
  /\ opens < MaxOpens /\ opens' = opens + 1 /\ UdpFault(fault # "none")
  /\ server_port' = TRUE /\ udp_rx_buffer' = None /\ udpInbox' = <<>> /\ packet' = NoPacket
  /\ tx_buffer' = IF fault = "option" THEN None ELSE <<>>
  /\ IF fault = "none"
     THEN /\ udp_server' = NewSocket
          /\ sockets' = UdpClosed \cup {[id |-> NewSocket, joined |-> group]}
          /\ multicast_ip' = group
     ELSE /\ udp_server' = -1 /\ sockets' = UdpClosed
          /\ multicast_ip' = IF udp_server = -1 THEN multicast_ip ELSE None
  /\ UNCHANGED <<remote, udpDatagram, packets, readBytes>>

(***************************************************************************)
(* Sending: a packet is begun, written byte by byte (its bytes are numbered)*)
(* and ended.                                                               *)
(***************************************************************************)
beginPacket(to, fails) ==
  /\ packets < MaxPackets /\ packets' = packets + 1 /\ UdpFault(fails)
  /\ remote' = to /\ tx_buffer' = <<>>
  /\ fails => udp_server = -1
  /\ IF udp_server # -1 \/ fails THEN UNCHANGED udpSocket
     ELSE udp_server' = NewSocket /\ sockets' = sockets \cup {[id |-> NewSocket, joined |-> None]}
  /\ packet' = IF fails THEN NoPacket ELSE [NoPacket EXCEPT !.to = to]
  /\ UNCHANGED <<server_port, multicast_ip, udp_rx_buffer, udpInbox, udpDatagram, opens, readBytes>>

beginMulticastPacket(fails) == server_port /\ multicast_ip # None /\ beginPacket(multicast_ip, fails)

Begun == packet.to # None /\ ~packet.ended

(* What is in the buffer goes to the peer of the moment, as one datagram.   *)
PacketSent(fails) ==
  [packet EXCEPT !.sent = IF fails THEN @ ELSE Append(@, [to |-> remote, data |-> tx_buffer]),
                 !.lost = @ \/ fails]

(* A full buffer is sent before the byte is stored; whether that succeeds   *)
(* is not looked at.                                                        *)
(* Mutant of Buffered: the buffer is not emptied.                           *)
BufferedFull(byte) == Append(IF Len(tx_buffer) = BUFSIZE THEN Tail(tx_buffer) ELSE tx_buffer, byte)

Buffered(byte) == Append(IF Len(tx_buffer) = BUFSIZE THEN <<>> ELSE tx_buffer, byte)

writeUdp(fails) ==
  /\ Begun /\ packet.written < MaxBytesOut
  /\ LET full == Len(tx_buffer) = BUFSIZE IN
     /\ fails => full
     /\ packet' = [(IF full THEN PacketSent(fails) ELSE packet) EXCEPT !.written = @ + 1]
  /\ tx_buffer' = Buffered(packet.written + 1)
  /\ UdpFault(fails)
  /\ UNCHANGED <<udpSocket, peer, udp_rx_buffer, udpInbox, udpDatagram, opens, packets, readBytes>>

endPacket(fails) ==
  /\ Begun /\ packet' = [PacketSent(fails) EXCEPT !.ended = TRUE]
  /\ UdpFault(fails)
  /\ UNCHANGED <<udpSocket, peer, tx_buffer, udp_rx_buffer, udpInbox, udpDatagram, opens, packets, readBytes>>

(***************************************************************************)
(* Receiving.  A datagram that is read to its end gives the buffer back, as *)
(* does flush; no other is received before.                                 *)
(***************************************************************************)
DatagramArrives ==
  /\ udp_server # -1 /\ readBytes < MaxReceived /\ readBytes' = readBytes + 1
  /\ \E origin \in Peers, size \in DatagramSizes : udpInbox' = Append(udpInbox, [from |-> origin, size |-> size])
  /\ UNCHANGED <<udpSocket, peer, tx_buffer, udp_rx_buffer, udpHistory, opens, packets, udpFaults>>

FewerOf(a, b) == IF a < b THEN a ELSE b

(* The peer is the sender from now on, also for a packet that is begun.     *)
parsePacket ==
  /\ udp_rx_buffer = None /\ udpInbox # <<>> /\ udpInbox' = Tail(udpInbox)
  /\ remote' = Head(udpInbox).from
  /\ LET len == FewerOf(Head(udpInbox).size, BUFSIZE) IN
     /\ udp_rx_buffer' = [k \in 1 .. len |-> k]
     /\ udpDatagram' = [size |-> len, read |-> 0]
  /\ packet' = [packet EXCEPT !.stray = @ \/ Begun]
  /\ UNCHANGED <<udpSocket, server_port, multicast_ip, tx_buffer, counts>>

readUdp(len) ==
  /\ udp_rx_buffer # None
  /\ LET out == FewerOf(len, Len(udp_rx_buffer)) IN
     /\ udp_rx_buffer' = IF out = Len(udp_rx_buffer) THEN None ELSE SubSeq(udp_rx_buffer, out + 1, Len(udp_rx_buffer))
     /\ udpDatagram' = [udpDatagram EXCEPT !.read = @ + out]
  /\ UNCHANGED <<udpSocket, peer, tx_buffer, udpInbox, packet, counts>>

flushUdp ==
  /\ udp_rx_buffer # None /\ udp_rx_buffer' = None
  /\ UNCHANGED <<udpSocket, peer, tx_buffer, udpInbox, udpHistory, counts>>

UdpNext ==
  \/ stopUdp
  \/ \E group \in {None, Group}, fault \in {"none", "socket", "option"} : beginUdp(group, fault)
  \/ \E fails \in BOOLEAN :
       \/ \E to \in Peers : beginPacket(to, fails)
       \/ beginMulticastPacket(fails)
       \/ writeUdp(fails)
       \/ endPacket(fails)
  \/ DatagramArrives
  \/ parsePacket
  \/ \E len \in 1 .. 2 : readUdp(len)
  \/ flushUdp

UdpSpec == UdpInit /\ [][UdpNext]_udpVars

(***************************************************************************)
(* Properties.                                                              *)
(***************************************************************************)

(* The object's socket is the only one it leaves open, and is a member of   *)
(* the group it says, whatever fails and however often it is begun anew.    *)
SocketHeld ==
  sockets = IF udp_server = -1 THEN {} ELSE {[id |-> udp_server, joined |-> multicast_ip]}

(* The bytes of a datagram, or of the buffer, are those behind the first.   *)
Behind(first, data) == \A k \in DOMAIN data : data[k] = first + k

(* The bytes written go out each once and in order, in full datagrams and   *)
(* one for the rest, which waits in the buffer until the packet is ended -  *)
(* unless one could not be sent; and they go to the peer the packet was     *)
(* begun for, unless a datagram was received meanwhile.                     *)
PacketWhole ==
  packet.to # None =>
    LET full == IF packet.ended THEN Len(packet.sent) - 1 ELSE Len(packet.sent)
        rest == IF packet.ended THEN packet.sent[full + 1].data ELSE tx_buffer
    IN  /\ ~packet.lost =>
             /\ \A i \in 1 .. full : /\ Len(packet.sent[i].data) = BUFSIZE
                                     /\ Behind((i - 1) * BUFSIZE, packet.sent[i].data)
             /\ Behind(full * BUFSIZE, rest) /\ packet.written = full * BUFSIZE + Len(rest)
        /\ ~packet.stray => \A i \in DOMAIN packet.sent : packet.sent[i].to = packet.to

(* What is read is the datagram received last, from where reading stopped:  *)
(* the next one does not get into it.                                       *)
DatagramInOrder ==
  udp_rx_buffer # None =>
    udp_rx_buffer = [k \in 1 .. udpDatagram.size - udpDatagram.read |-> udpDatagram.read + k]

(* Why: a packet that is begun has its buffer and is on its way to the peer *)
(* it was begun for; without a socket there is no group; and a packet that  *)
(* was ended and lost nothing went out in at least one datagram.            *)
UdpKnown ==
  /\ opens \in 0 .. MaxOpens /\ packets \in 0 .. MaxPackets
  /\ udp_server = -1 => multicast_ip = None
  /\ udpInbox \in Seq([from : Peers, size : DatagramSizes])
  /\ udpDatagram \in [size : Nat, read : Nat] /\ (udp_rx_buffer # None => udp_rx_buffer \in Seq(Nat))
  /\ packet.sent \in Seq([to : Peers \cup {None, Group}, data : Seq(Nat)])
  /\ packet \in [to : Peers \cup {None, Group}, written : Nat, sent : {packet.sent},
                 lost : BOOLEAN, ended : BOOLEAN, stray : BOOLEAN]
  /\ Begun => /\ tx_buffer \in Seq(Nat) /\ Len(tx_buffer) <= BUFSIZE
              /\ packet.stray \/ remote = packet.to
  /\ packet.ended /\ ~packet.lost => packet.sent # <<>>

UdpIInv == UdpTypeOK /\ SocketHeld /\ PacketWhole /\ DatagramInOrder /\ UdpKnown

(* What holds of the object at every step.                                  *)
UdpInv == UdpTypeOK /\ SocketHeld /\ PacketWhole /\ DatagramInOrder
=============================================================================
