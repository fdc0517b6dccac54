---------------------------- MODULE NefryConnect ----------------------------
(***************************************************************************)
(* The connection to a Wi-Fi network: Nefry_WiFi::begin and run             *)
(* (NefryWiFi.cpp), WiFiMulti::run and APlistAdd (WiFiMulti.cpp), and the   *)
(* status WiFiSTA keeps, which the task of the network events writes        *)
(* (WiFiGeneric.cpp).  Three tasks meet: the main task looks for a network  *)
(* every ten seconds, the event task stores what the radio says, and the    *)
(* web task sets the count of attempts back.                                *)
(***************************************************************************)
EXTENDS Integers, Sequences

CONSTANTS
  SavedLists,   (* what may be saved: sequences of [ssid, pass]; pass "right",*)
                (* "wrong" or "none"                                         *)
  Airs,         (* what a scan may find: sequences of [ssid, rssi, open]     *)
  GoodAir,      (* the one it finds when nothing is in the way               *)
  Limits,       (* the arguments of setWifiTimeout: -1 never, 0 for ever     *)
  MaxFaults,    (* bound: bad scans, failed joins, lost links, timeouts      *)
  MaxEvents     (* bound: events in the queue                                *)

(* begin() adds the first and the last network of the list itself.          *)
Names     == {"d", "NefryWiFi"} \cup UNION {{saved[i].ssid : i \in DOMAIN saved} : saved \in SavedLists}
SavedNets == [ssid : Names, pass : {"right", "wrong", "none"}]
AirNets   == [ssid : STRING, rssi : -128 .. 127, open : BOOLEAN]

ASSUME ConnectAssumption ==
  /\ SavedLists \subseteq Seq(SavedNets) /\ Airs \subseteq Seq(AirNets) /\ GoodAir \in Airs
  /\ Limits \subseteq -1 .. 3 /\ MaxFaults \in Nat /\ MaxEvents \in Nat

Weakest  == -1000                     (* INT_MIN: below every signal         *)
MaxCount == 4       (* the count saturates above every limit it is held      *)
                    (* against                                               *)
NoNet    == [ssid |-> "", pass |-> "none"]

VARIABLES
  limit, tries,             (* _WifiTimeOutCountMax, _WifiTimeOutCount        *)
  booting,                  (* begin() has not returned                       *)
  APlist,
  wifiStatus,               (* WiFiSTAClass::_status                          *)
  station,                  (* the radio: "down", "joining", "associated", "up" *)
  config,                   (* the network it is set to                       *)
  events,                   (* the queue of the network events                *)
  step,                     (* the next step of the main task                 *)
  verdict,                  (* status, the local variable of WiFiMulti::run   *)
  loaded,                   (* the count the main task has read to add one    *)
  faults,
  failures,   (* history: attempts that failed since a success or a clear     *)
  lostClear,  (* history: a clear fell between the reading and writing of ++  *)
  expired     (* history: the last event was AUTH_EXPIRE, the status is old   *)

task        == <<step, verdict, loaded>>
link        == <<wifiStatus, station, config, events>>
settings    == <<booting, limit, APlist>>
past        == <<failures, lostClear, expired>>
connectVars == <<settings, tries, link, task, faults, past>>

Statuses == {"NO_SHIELD", "IDLE", "NO_SSID", "CONNECTED", "CONNECT_FAILED", "CONNECTION_LOST",
             "DISCONNECTED"}
Reasons  == {"NO_AP_FOUND", "AUTH_FAIL", "BEACON_TIMEOUT", "AUTH_EXPIRE", "ASSOC_LEAVE"}
Events   == Reasons \cup {"START", "STA_CONNECTED", "GOT_IP"}

ConnectTypeOK ==
  /\ booting \in BOOLEAN /\ limit \in Limits \cup {0, 3} /\ tries \in 0 .. MaxCount
  /\ wifiStatus \in Statuses /\ verdict \in Statuses
  /\ station \in {"down", "joining", "associated", "up"}
  /\ config \in {NoNet} \cup UNION {{APlist[i] : i \in DOMAIN APlist}}
  /\ events \in Seq(Events)
  /\ step \in {"off", "idle", "scan", "wait", "judge", "store"} /\ loaded \in 0 .. MaxCount
  /\ faults \in 0 .. MaxFaults /\ failures \in 0 .. MaxCount
  /\ lostClear \in BOOLEAN /\ expired \in BOOLEAN

ConnectInit ==
  /\ booting = TRUE /\ limit = 0 /\ tries = 0 /\ APlist = <<>>
  /\ wifiStatus = "NO_SHIELD" /\ station = "down" /\ config = NoNet /\ events = <<"START">>
  /\ step = "off" /\ verdict = "NO_SHIELD" /\ loaded = 0 /\ faults = 0
  /\ failures = 0 /\ lostClear = FALSE /\ expired = FALSE

OneMore(n) == IF n < MaxCount THEN n + 1 ELSE n
Fault      == faults < MaxFaults /\ faults' = faults + 1

(***************************************************************************)
(* WiFiMulti::APlistAdd.  A pointer that stays unset when the pass phrase   *)
(* is empty (WiFiMulti.cpp:196, 217) holds anything: no phrase or a wrong   *)
(* one.                                                                     *)
(***************************************************************************)
Stored(entry, garbage) ==
  IF entry.pass = "none" /\ garbage THEN [entry EXCEPT !.pass = "wrong"] ELSE entry

APlistAdd(saved, garbage) ==
  <<[ssid |-> "d", pass |-> "wrong"]>> \o [i \in DOMAIN saved |-> Stored(saved[i], garbage)]
    \o <<[ssid |-> "NefryWiFi", pass |-> "right"]>>

(***************************************************************************)
(* Nefry_WiFi::begin: no limit for the first run(), which follows at once.  *)
(***************************************************************************)
beginWiFi(saved, garbage) ==
  /\ step = "off" /\ step' = "scan" /\ limit' = 0
  /\ APlist' = APlistAdd(saved, garbage)
  /\ UNCHANGED <<booting, tries, link, verdict, loaded, faults, past>>

(* The first run() has returned to begin(), which sets the limit of three   *)
(* attempts then.                                                           *)
BeginEnds == IF booting THEN booting' = FALSE /\ limit' = 3 ELSE UNCHANGED <<booting, limit>>

Cleared == tries' = 0 /\ failures' = 0

setWifiTimeout(n) ==
  /\ step = "idle" /\ limit' = n /\ n # limit
  /\ UNCHANGED <<booting, APlist, tries, link, task, faults, past>>

(* /wifiCount, in the web task.                                             *)
setWifiTimeoutClear ==
  /\ ~booting /\ failures > 0 /\ Cleared
  /\ lostClear' = (lostClear \/ step = "store")
  /\ UNCHANGED <<settings, link, task, faults, expired>>

(***************************************************************************)
(* Nefry_WiFi::run and WiFiMulti::run.                                      *)
(***************************************************************************)

MayTry == limit # -1 /\ (limit = 0 \/ limit > tries)

(* nefry_loop calls it every ten seconds: a station still on its way then,  *)
(* and an event still waiting, count as faults.                             *)
run ==
  /\ step = "idle" /\ MayTry
  /\ IF events = <<>> /\ station \in {"down", "up"} THEN UNCHANGED faults ELSE Fault
  /\ verdict' = wifiStatus
  /\ step' = IF wifiStatus = "CONNECTED" THEN "judge" ELSE "scan"
  /\ UNCHANGED <<settings, tries, link, loaded, past>>

(* WiFiSTAClass::disconnect empties the configuration.  A station that was  *)
(* on its way or connected reports that it has left.                        *)
disconnect ==
  /\ config' = NoNet /\ station' = "down"
  /\ events' = IF station = "down" THEN events ELSE Append(events, "ASSOC_LEAVE")
  /\ UNCHANGED wifiStatus

(* esp_wifi_connect.  A station that is connected may keep its link.        *)
Connect(net) ==
  /\ config' = net
  /\ \/ station' = "joining"
        /\ events' = IF station \in {"associated", "up"} THEN Append(events, "ASSOC_LEAVE")
                                                         ELSE events
     \/ station \in {"associated", "up"} /\ UNCHANGED <<station, events>>

(***************************************************************************)
(* The choice of a network: the strongest one whose first entry in APlist   *)
(* has a pass phrase or needs none.                                         *)
(***************************************************************************)
Entry(ssid) == LET known == {i \in DOMAIN APlist : APlist[i].ssid = ssid}
               IN  IF known = {} THEN NoNet
                   ELSE APlist[CHOOSE i \in known : \A j \in known : i <= j]

Usable(net) == Entry(net.ssid) # NoNet /\ (net.open \/ Entry(net.ssid).pass # "none")

(* Mutant of Better: the strongest signal so far is not kept.               *)
BetterThanNothing(best, net) == net.rssi > Weakest

Better(best, net) == net.rssi > best.db

Nothing == [net |-> NoNet, db |-> Weakest]

(* Seeking(scan)[i] is the best network when i of them have been looked at. *)
Weighed(best, net) ==
  IF Better(best, net) /\ Usable(net) THEN [net |-> Entry(net.ssid), db |-> net.rssi] ELSE best

Seeking(scan) ==
  LET best[i \in 0 .. Len(scan)] == IF i = 0 THEN Nothing ELSE Weighed(best[i - 1], scan[i])
  IN  best

Best(scan) == Seeking(scan)[Len(scan)]

Judge(s) == step' = "judge" /\ verdict' = s

(* The task of the web pages scans: run() takes that for a missing network. *)
ScanRunning ==
  /\ step = "scan" /\ Fault /\ Judge("NO_SSID")
  /\ UNCHANGED <<settings, tries, link, loaded, past>>

ScanFailed ==
  /\ step = "scan" /\ Fault /\ Judge(verdict)
  /\ disconnect
  /\ UNCHANGED <<settings, tries, loaded, past>>

(* What ends the waiting.                                                   *)
Verdicts == {"CONNECTED", "NO_SSID", "CONNECT_FAILED"}

(* WiFi.begin(), and the status is read before the radio can have answered. *)
ScanFound(scan) ==
  /\ step = "scan"
  /\ IF scan = GoodAir THEN UNCHANGED faults ELSE Fault
  /\ LET best == Best(scan) IN
       IF best.net = NoNet
       THEN Judge(verdict) /\ UNCHANGED link
       ELSE /\ Connect(best.net) /\ UNCHANGED wifiStatus
            /\ IF wifiStatus \in Verdicts THEN Judge(wifiStatus)
               ELSE step' = "wait" /\ UNCHANGED verdict
  /\ UNCHANGED <<settings, tries, loaded, past>>

PollStatus ==
  /\ step = "wait" /\ wifiStatus \in Verdicts /\ Judge(wifiStatus)
  /\ UNCHANGED <<settings, tries, link, loaded, faults, past>>

(* Ten seconds are over.  That is a fault while the radio is still at it.   *)
Timeout ==
  /\ step = "wait" /\ Judge(wifiStatus)
  /\ IF station = "down" THEN UNCHANGED faults ELSE Fault
  /\ UNCHANGED <<settings, tries, link, loaded, past>>

(***************************************************************************)
(* The rest of run(): _WifiTimeOutCount++ is a reading and a writing.       *)
(***************************************************************************)
LoadCount ==
  /\ step = "judge" /\ step' = "store" /\ loaded' = tries
  /\ failures' = IF verdict = "CONNECTED" THEN failures ELSE OneMore(failures)
  /\ UNCHANGED <<settings, tries, link, verdict, faults, lostClear, expired>>

(* Mutant of CountAfter: the count survives a success.                      *)
CountOn == OneMore(loaded)

CountAfter == IF verdict = "CONNECTED" THEN 0 ELSE OneMore(loaded)

JudgeStatus ==
  /\ step = "store" /\ step' = "idle" /\ BeginEnds
  /\ IF booting THEN Cleared /\ lostClear' = FALSE
     ELSE /\ tries' = CountAfter
          /\ failures' = IF verdict = "CONNECTED" THEN 0 ELSE failures
          /\ lostClear' = (lostClear /\ verdict # "CONNECTED")
  /\ IF verdict = "NO_SSID" THEN disconnect ELSE UNCHANGED link
  /\ loaded' = 0
  /\ UNCHANGED <<APlist, verdict, faults, expired>>

(***************************************************************************)
(* The radio.                                                              *)
(***************************************************************************)
Raise(event, new) ==
  /\ Len(events) < MaxEvents /\ events' = Append(events, event) /\ station' = new
  /\ UNCHANGED <<settings, tries, wifiStatus, config, task, past>>

Joinable(net) == net # NoNet /\ net.pass # "wrong"
Welcome       == Joinable(config)

Associate == station = "joining" /\ Welcome /\ Raise("STA_CONNECTED", "associated")
             /\ UNCHANGED faults
GetIp     == station = "associated" /\ Raise("GOT_IP", "up") /\ UNCHANGED faults
Refused   == station = "joining" /\ ~Welcome /\ UNCHANGED faults
             /\ Raise(IF config = NoNet THEN "NO_AP_FOUND" ELSE "AUTH_FAIL", "down")
Drop(why) == station # "down" /\ (why = "NO_AP_FOUND" => station = "joining") /\ Fault
             /\ Raise(why, "down")

(***************************************************************************)
(* WiFiGenericClass::_eventCallback, in the task of the network events.     *)
(***************************************************************************)

(* Mutant of StatusOf: the reasons it does not name leave the status alone. *)
StatusOfNamed(event) ==
  CASE event = "NO_AP_FOUND"    -> "NO_SSID"
    [] event = "AUTH_FAIL"      -> "CONNECT_FAILED"
    [] event = "BEACON_TIMEOUT" -> "CONNECTION_LOST"
    [] event = "STA_CONNECTED"  -> "IDLE"
    [] event = "GOT_IP"         -> "CONNECTED"
    [] OTHER                    -> wifiStatus

StatusOf(event) ==
  CASE event = "NO_AP_FOUND"    -> "NO_SSID"
    [] event = "AUTH_FAIL"      -> "CONNECT_FAILED"
    [] event = "BEACON_TIMEOUT" -> "CONNECTION_LOST"
    [] event = "STA_CONNECTED"  -> "IDLE"
    [] event = "GOT_IP"         -> "CONNECTED"
    [] event = "AUTH_EXPIRE"    -> wifiStatus
    [] OTHER                    -> "DISCONNECTED"

(* After AUTH_EXPIRE the station joins again, to what is configured.        *)
Rejoin == IF station = "down" THEN station' = "joining" ELSE UNCHANGED station

eventCallback ==
  /\ events # <<>> /\ events' = Tail(events)
  /\ wifiStatus' = StatusOf(Head(events))
  /\ expired' = (Head(events) = "AUTH_EXPIRE")
  /\ IF Head(events) = "AUTH_EXPIRE" THEN Rejoin ELSE UNCHANGED station
  /\ UNCHANGED <<settings, tries, config, task, faults, failures, lostClear>>

MainTask ==
  \/ run \/ ScanRunning \/ ScanFailed \/ (\E scan \in Airs : ScanFound(scan))
  \/ PollStatus \/ Timeout \/ LoadCount \/ JudgeStatus
  \/ \E saved \in SavedLists, garbage \in BOOLEAN : beginWiFi(saved, garbage)
Radio == Associate \/ GetIp \/ Refused \/ \E why \in Reasons : Drop(why)

ConnectNext ==
  MainTask \/ Radio \/ eventCallback \/ setWifiTimeoutClear \/ \E n \in Limits : setWifiTimeout(n)

ConnectFairness == WF_connectVars(MainTask) /\ WF_connectVars(Radio) /\ WF_connectVars(eventCallback)
ConnectSpec     == ConnectInit /\ [][ConnectNext]_connectVars /\ ConnectFairness

(***************************************************************************)
(* Properties.                                                             *)
(***************************************************************************)

(* run() stops looking for a network after as many failures as the limit    *)
(* says since the last success or clear, no sooner and no later, whatever   *)
(* the other tasks do meanwhile (NefryWiFi.cpp:79-103) - unless a clear of  *)
(* the web page is lost between the reading and the writing of the count.   *)
GivesUpOnTime ==
  limit > 0 /\ ~booting /\ ~lostClear =>
    /\ step \in {"scan", "wait"} => failures < limit
    /\ step = "idle" /\ failures < limit => MayTry

(* The loop finds a strongest one of the networks that it could join        *)
(* (WiFiMulti.cpp:82-118).                                                  *)
BestIsStrongest ==
  \A scan \in Airs :
    LET usable == {i \in DOMAIN scan : Usable(scan[i])}
    IN  IF usable = {} THEN Best(scan).net = NoNet
        ELSE \E i \in usable : /\ Best(scan).net = Entry(scan[i].ssid)
                              /\ \A j \in usable : scan[j].rssi <= scan[i].rssi

(* The status says connected only while the station is, or while an event   *)
(* that corrects it waits - but for AUTH_EXPIRE, whose handler joins again  *)
(* and leaves the old status (WiFiGeneric.cpp:305-308).                     *)
ConnectedIsTrue ==
  wifiStatus = "CONNECTED" /\ ~expired =>
    station = "up" \/ \E i \in DOMAIN events : events[i] # "GOT_IP"

(* The inductive invariant behind them: the count is the number of attempts *)
(* that failed, but for the one it has been read for; an attempt begins     *)
(* below the limit; and behind each news of an address the station has lost *)
(* since, there is one that says so.                                        *)
SearchKnown ==
  /\ APlist \in Seq(SavedNets)
  /\ step = "off" => config = NoNet
  /\ booting => limit = 0 /\ step # "idle"
  /\ ~booting => step # "off"

CountKnown ==
  ~booting /\ ~lostClear =>
    IF step = "store"
    THEN loaded = tries /\ failures = IF verdict = "CONNECTED" THEN tries ELSE OneMore(tries)
    ELSE failures = tries

AddressKnown ==
  station # "up" =>
    \A i \in DOMAIN events : events[i] = "GOT_IP" =>
      \E j \in DOMAIN events : i < j /\ events[j] # "GOT_IP"

ConnectIInv ==
  ConnectTypeOK /\ SearchKnown /\ CountKnown /\ AddressKnown /\ GivesUpOnTime /\ ConnectedIsTrue

(* With no limit, and a network whose pass phrase is right in the air once  *)
(* the faults are over, the module is connected at last and says so: the    *)
(* statuses left over from attempts that failed, the attempts taken for     *)
(* failures before they have begun (WiFiMulti.cpp:137) and the disconnect() *)
(* they end in do not go round for ever.                                    *)
Reconnects ==
  <>[](limit = 0 /\ Joinable(Best(GoodAir).net))
    => <>[](wifiStatus = "CONNECTED" /\ station = "up")

(* What holds of the connection at every step.                              *)
ConnectInv == ConnectTypeOK /\ GivesUpOnTime /\ BestIsStrongest /\ ConnectedIsTrue
=============================================================================
