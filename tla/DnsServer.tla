------------------------------ MODULE DnsServer ------------------------------
(***************************************************************************)
(* The name server of the captive portal, DNSServer.cpp, and the part of    *)
(* WiFiUdp.cpp it stands on.  Every name is answered with the address of    *)
(* the module (NefryWeb.cpp:116).  Datagrams shorter than a header are      *)
(* outside the model, but for empty ones.                                   *)
(***************************************************************************)
EXTENDS Integers, Sequences

CONSTANTS
  Hosts,       (* senders of datagrams                                       *)
  MaxInbox,    (* bound: datagrams the socket keeps, more are lost           *)
  MaxSent      (* bound: datagrams sent                                      *)

ASSUME DnsAssumption == MaxInbox \in Nat \ {0} /\ MaxSent \in Nat

(* What the server looks at: QR, OPCode, and whether there is one question  *)
(* and no record.  The empty datagram has none of it.                       *)
Headers == [qr : {"query", "response"}, standard : BOOLEAN, one : BOOLEAN]
NoData  == [qr |-> "none", standard |-> FALSE, one |-> FALSE]

VARIABLES
  inbox,        (* the datagrams in the socket: [from, id, header]           *)
  rx_buffer,    (* the datagram WiFiUDP holds, a sequence of none or one     *)
  dnsHeader,    (* _dnsHeader                                                *)
  dnsQuestion,  (* _dnsQuestion: the id of the datagram it was taken from    *)
  replies,      (* the datagrams sent back: [to, id, question, answer]       *)
  sent,         (* history: every datagram sent, by its id                   *)
  lost          (* history: the ids the socket had no room for               *)

dnsVars == <<inbox, rx_buffer, dnsHeader, dnsQuestion, replies, sent, lost>>

Datagrams == [from : Hosts, id : 1 .. MaxSent, header : Headers \cup {NoData}]

DnsTypeOK ==
  /\ inbox \in Seq(Datagrams) /\ Len(inbox) <= MaxInbox
  /\ rx_buffer \in Seq(Datagrams) /\ Len(rx_buffer) <= 1
  /\ dnsHeader \in Headers \cup {NoData} /\ dnsQuestion \in 0 .. MaxSent
  /\ replies \subseteq [to : Hosts, id : 1 .. MaxSent, question : 0 .. MaxSent,
                        answer : {"address", "header"}]
  /\ sent \in Seq(Datagrams) /\ lost \subseteq 1 .. MaxSent

DnsInit ==
  /\ inbox = <<>> /\ rx_buffer = <<>> /\ dnsHeader = NoData /\ dnsQuestion = 0
  /\ replies = {} /\ sent = <<>> /\ lost = {}

Send(host, header) ==
  /\ Len(sent) < MaxSent
  /\ LET datagram == [from |-> host, id |-> Len(sent) + 1, header |-> header] IN
       /\ sent' = Append(sent, datagram)
       /\ IF Len(inbox) < MaxInbox
          THEN inbox' = Append(inbox, datagram) /\ UNCHANGED lost
          ELSE lost' = lost \cup {datagram.id} /\ UNCHANGED inbox
  /\ UNCHANGED <<rx_buffer, dnsHeader, dnsQuestion, replies>>

(***************************************************************************)
(* WiFiUDP: parsePacket receives nothing while a datagram is held.  read    *)
(* gives the held one up when nothing of it is left, but it is not called   *)
(* for a datagram of length 0.                                              *)
(***************************************************************************)

Receives == inbox # <<>> /\ rx_buffer = <<>>

Length(datagram) == IF datagram.header = NoData THEN 0 ELSE 1

(***************************************************************************)
(* processNextRequest.                                                      *)
(***************************************************************************)
(* Mutant of AnswersName: any standard query is answered.                   *)
AnswersMany(header) == header.qr = "query" /\ header.standard

AnswersName(header) == header.qr = "query" /\ header.standard /\ header.one

(* Mutant of Refuses: only standard queries are refused.                    *)
RefusesStandard(header) == header.qr = "query" /\ header.standard

(* replyWithCustomCode sets the code in _dnsHeader and sends _buffer: the    *)
(* header of the query goes back as it came.                                *)
Refuses(header) == header.qr = "query"

Reply(datagram, question) ==
  IF AnswersName(datagram.header)
  THEN {[to |-> datagram.from, id |-> datagram.id, question |-> question, answer |-> "address"]}
  ELSE IF Refuses(datagram.header)
  THEN {[to |-> datagram.from, id |-> datagram.id, question |-> 0, answer |-> "header"]}
  ELSE {}

(* A datagram nobody reads: it is empty, or there was no memory for a copy  *)
(* of it.                                                                   *)
Hold(datagram) == rx_buffer' = <<datagram>> /\ UNCHANGED <<dnsHeader, dnsQuestion, replies>>

Answer(datagram) ==
  LET question == IF datagram.header.one THEN datagram.id ELSE dnsQuestion IN
    /\ Length(datagram) # 0
    /\ rx_buffer' = <<>>
    /\ dnsHeader' = datagram.header
    /\ dnsQuestion' = question
    /\ replies' = replies \cup Reply(datagram, question)

processNextRequest ==
  /\ Receives
  /\ inbox' = Tail(inbox)
  /\ Hold(Head(inbox)) \/ Answer(Head(inbox))
  /\ UNCHANGED <<sent, lost>>

DnsNext ==
  \/ processNextRequest
  \/ \E host \in Hosts, header \in Headers \cup {NoData} : Send(host, header)

DnsFairness == WF_dnsVars(processNextRequest)
DnsSpec     == DnsInit /\ [][DnsNext]_dnsVars /\ DnsFairness

(***************************************************************************)
(* Properties.                                                             *)
(***************************************************************************)

(* One datagram that is not read keeps the server from ever receiving again *)
(* (WiFiUdp.cpp:206, 224: rx_buffer stays set, nobody reads or flushes it): *)
(* an empty one, or one no memory was left for (DNSServer.cpp:63-65).       *)
Deaf == rx_buffer # <<>>

(* Every query the socket had room for is answered, by the loop of the web  *)
(* task - unless one before it was not read: again and again no query is    *)
(* left without a reply.                                                    *)
QueriesAnswered ==
  []<>(Deaf \/ \A id \in DOMAIN sent \ lost :
         sent[id].header.qr = "query" => \E reply \in replies : reply.id = id)

(* The address is given for the question of the same datagram, to its       *)
(* sender: _dnsQuestion and the remote address are members that outlive a   *)
(* request, and a datagram of several questions leaves the former alone     *)
(* (DNSServer.cpp:71, 157-169).                                             *)
AnswerFitsQuestion ==
  \A reply \in replies :
    /\ reply.to = sent[reply.id].from
    /\ reply.answer = "address" => reply.question = reply.id

(* The server answers what it is asked, and answers it in the end.          *)
DnsCorrect == [](DnsTypeOK /\ AnswerFitsQuestion) /\ QueriesAnswered
=============================================================================
