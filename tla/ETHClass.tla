------------------------------ MODULE ETHClass ------------------------------
(***************************************************************************)
(* The Ethernet interface, ETH.cpp: begin() starts the driver of one of two *)
(* chips, config() gives it an address or leaves that to DHCP.  The driver  *)
(* and the TCP/IP adapter are external: any call of them may fail.          *)
(***************************************************************************)
EXTENDS Integers, Sequences

CONSTANTS
  Pins,         (* wirings: what begin is told of pins, 0: no power pin     *)
  EthAddresses, (* addresses, 0: none, and what a DHCP server gives         *)
  Leased,
  MaxEthCalls, MaxEthFaults (* bounds                                       *)

ASSUME EthAssumption ==
  /\ 0 \in EthAddresses /\ Leased \in EthAddresses \ {0} /\ Pins \subseteq Nat
  /\ MaxEthCalls \in Nat /\ MaxEthFaults \in Nat

Chips      == {"LAN8720", "TLK110"}
NoWiring   == [pins |-> 0, chip |-> "none"]
NotKnown   == -1

VARIABLES
  initialized, started, staticIP,
  pins,         (* _eth_phy_*_pin                                           *)
  driverWiring, (* of the driver: [pins, chip], the pins its callbacks use  *)
  powered,      (* the driver calls the power function of this file         *)
  ethIp, ethDhcp, (* the adapter: address, and whether the DHCP client runs *)
  ethDns,       (* the two name servers                                     *)
  enabled,      (* the driver runs                                          *)
  agreed,       (* history: [wiring, ip, dns] of the calls that succeeded   *)
  ethCalls, ethFaults

ethVars == <<initialized, started, staticIP, pins, driverWiring, powered, ethIp, ethDhcp, ethDns, enabled,
             agreed, ethCalls, ethFaults>>

EthTypeOK ==
  /\ {initialized, started, staticIP, ethDhcp, enabled, powered} \subseteq BOOLEAN
  /\ ethIp \in EthAddresses /\ ethDns \in [{1, 2} -> EthAddresses]
  /\ ethCalls \in 0 .. MaxEthCalls /\ ethFaults \in 0 .. MaxEthFaults

EthInit ==
  /\ initialized = FALSE /\ started = FALSE /\ staticIP = FALSE /\ pins = 0
  /\ driverWiring = NoWiring /\ powered = FALSE
  /\ ethIp = 0 /\ ethDhcp = TRUE /\ ethDns = [n \in {1, 2} |-> 0] /\ enabled = FALSE
  /\ agreed = [wiring |-> NoWiring, ip |-> 0, dns |-> ethDns] /\ ethCalls = 0 /\ ethFaults = 0

CallEth(fault) ==
  /\ ethCalls < MaxEthCalls /\ ethCalls' = ethCalls + 1
  /\ fault # "none" => ethFaults < MaxEthFaults
  /\ ethFaults' = ethFaults + (IF fault = "none" THEN 0 ELSE 1)

(***************************************************************************)
(* begin(): once it has set the driver up, it only turns it on again.       *)
(***************************************************************************)
(* Mutant of PinsOf: the pins of every call are taken.                      *)
PinsOfCall(requested) == requested

PinsOf(requested) == IF initialized THEN pins ELSE requested

beginEth(requested, chip, fault) ==
  /\ fault \in {"none", "init", "enable"} /\ (fault = "init" => ~initialized /\ chip \in Chips)
  /\ (chip \notin Chips /\ ~initialized => fault = "none")
  /\ CallEth(fault)
  /\ pins' = PinsOf(requested)
  /\ LET setUp == initialized \/ (chip \in Chips /\ fault # "init")
     IN  /\ initialized' = setUp
         /\ driverWiring' = IF setUp /\ ~initialized THEN [pins |-> requested, chip |-> chip] ELSE driverWiring
         /\ powered' = IF setUp /\ ~initialized THEN requested # 0 ELSE powered
         /\ started' = (started \/ (setUp /\ fault = "none"))
         /\ enabled' = (enabled \/ (setUp /\ fault = "none"))
         /\ agreed' = IF setUp /\ ~initialized THEN [agreed EXCEPT !.wiring = [pins |-> requested, chip |-> chip]]
                      ELSE agreed
  /\ UNCHANGED <<staticIP, ethIp, ethDhcp, ethDns>>

(***************************************************************************)
(* config(): the client is stopped, the address set, and the client started *)
(* again for no address.                                                    *)
(***************************************************************************)
(* Mutant of StaticAfter: a failure to start the client ends it as well.    *)
StaticAfterAny(ip, fault) == IF fault \in {"stop", "set"} THEN staticIP ELSE ip # 0 /\ staticIP

StaticAfter(ip, fault) == IF fault # "none" THEN staticIP ELSE ip # 0

(* Mutant of DhcpAfter: the client is started for every address.            *)
DhcpAfterAll(ip, fault) ==
  CASE fault = "stop" -> ethDhcp [] fault \in {"set", "start"} -> FALSE [] OTHER -> TRUE

DhcpAfter(ip, fault) ==
  CASE fault = "stop" -> ethDhcp [] fault \in {"set", "start"} -> FALSE [] OTHER -> ip = 0

DnsAfter(dns) == [n \in {1, 2} |-> IF dns[n] # 0 THEN dns[n] ELSE ethDns[n]]

configEth(ip, dns, fault) ==
  /\ fault \in {"none", "stop", "set", "start"} /\ (fault = "start" => ip = 0)
  /\ CallEth(fault)
  /\ staticIP' = StaticAfter(ip, fault)
  /\ ethDhcp' = DhcpAfter(ip, fault)
  /\ ethIp' = IF fault \in {"stop", "set"} THEN ethIp ELSE ip
  /\ ethDns' = IF fault = "none" THEN DnsAfter(dns) ELSE ethDns
  /\ agreed' = [agreed EXCEPT !.ip = IF fault = "none" THEN ip ELSE NotKnown,
                              !.dns = IF fault = "none" THEN DnsAfter(dns) ELSE @]
  /\ UNCHANGED <<initialized, started, pins, driverWiring, powered, enabled>>

(* The network: the DHCP server answers, or the link is lost.               *)
Lease ==
  /\ enabled /\ ethDhcp /\ ethIp' \in {0, Leased} \ {ethIp}
  /\ UNCHANGED <<initialized, started, staticIP, pins, driverWiring, powered, ethDhcp, ethDns, enabled,
                 agreed, ethCalls, ethFaults>>

EthNext ==
  \/ \E requested \in Pins, chip \in Chips \cup {"other"}, fault \in {"none", "init", "enable"} :
       beginEth(requested, chip, fault)
  \/ \E ip \in EthAddresses, dns \in [{1, 2} -> EthAddresses], fault \in {"none", "stop", "set", "start"} :
       configEth(ip, dns, fault)
  \/ Lease

EthSpec == EthInit /\ [][EthNext]_ethVars

(***************************************************************************)
(* Properties.                                                              *)
(***************************************************************************)

(* The pins that the driver's callbacks use are those it was set up with:   *)
(* neither a second begin() nor one that was refused moves them.            *)
WiringKept == initialized => driverWiring = agreed.wiring /\ pins = driverWiring.pins

(* An address that config() has accepted stays, whatever the DHCP server    *)
(* says; without one the client runs; the flag tells which of the two holds.*)
EthAddressKept ==
  agreed.ip # NotKnown =>
    /\ (agreed.ip # 0) = staticIP /\ ethDhcp = (agreed.ip = 0)
    /\ agreed.ip # 0 => ethIp = agreed.ip

(* started is not lost, and a driver that runs was set up.                  *)
StartedRuns == started => initialized /\ enabled

EthInv == EthTypeOK /\ WiringKept /\ EthAddressKept /\ StartedRuns
=============================================================================
